------------------------- MODULE Generators_proofs -------------------------
(* Proofs about Generators: that the pools of threads lose no module, for any
   number of threads, and what the generators write, for every game.          *)
EXTENDS Generators, WorkerDump_proofs

(* The pool is a record of five parts while it runs. *)
PoolType ==
  pool.running =>
    /\ pool = [running |-> TRUE, left |-> pool.left, alive |-> pool.alive,
               held |-> pool.held, results |-> pool.results]
    /\ pool.alive \subseteq 1..HwThreads
    /\ DOMAIN pool.held = 1..HwThreads
    /\ pool.held = [t \in 1..HwThreads |-> pool.held[t]]

(* main() reads the export when the worker has written it, and comes to the
   generators after that.                                                    *)
Order == step # "parse" => phase = "done"

IInv == PoolType /\ Order /\ PoolBooks

LEMMA JobSteps == ToSet(Jobs) = {"layouts", "signatures", "sdk", "internal_sdk"}
BY DEF ToSet, Jobs

LEMMA InitInv == Init => IInv
BY DEF Init, ExeInit, GenInit, Idle, IInv, PoolType, Order, PoolBooks

(* Before the exe has read the export there is no pool. *)
LEMMA DumpKeepsInv == ASSUME IInv, DumpNext, UNCHANGED <<exeVars, genVars>> PROVE IInv'
<1>1. phase # "done"
    BY DEF DumpNext, PhaseSchema, PhaseRtti, PhaseGlobals, PhasePatterns, PhaseReferences, WriteExport, ResolveRtti
<1>2. ~pool.running /\ step = "parse"
    BY <1>1 DEF IInv, PoolBooks, Order
<1> QED BY <1>2 DEF IInv, PoolType, PoolBooks, Order, exeVars, genVars

LEMMA ExeKeepsInv == ASSUME IInv, ExeNext, UNCHANGED <<dumpVars, genVars>> PROVE IInv'
<1>1. step \in {"parse", "lookup", "modules", "trees"}
    BY DEF ExeNext, ParseExport, BuildLookup, EmitModule, WriteTrees
<1>2. ~pool.running /\ ~pool'.running
    BY <1>1, JobSteps DEF IInv, PoolBooks, genVars
<1>3. phase = "done" /\ phase' = phase
    BY DEF IInv, Order, ExeNext, ParseExport, BuildLookup, EmitModule, WriteTrees, dumpVars, workerVars
<1> QED BY <1>2, <1>3 DEF IInv, PoolType, PoolBooks, Order

(* What main() and the threads do with the pool. *)
LEMMA SkipKeepsInv == ASSUME IInv, UNCHANGED dumpVars, NEW job \in ToSet(Jobs), Skip(job) PROVE IInv'
BY JobSteps DEF IInv, PoolType, PoolBooks, Order, Skip, genVars, dumpVars, workerVars

LEMMA StartKeepsInv == ASSUME IInv, UNCHANGED dumpVars, NEW job \in ToSet(Jobs), Start(job) PROVE IInv'
<1>1. /\ UNCHANGED <<modules, export, step, phase>> /\ step = job
      /\ pool' = [running |-> TRUE, left |-> Work(job), alive |-> Workers(job),
                  held |-> [t \in 1..HwThreads |-> {}], results |-> << >>]
    BY DEF Start, exeVars, dumpVars, workerVars
<1>2. Work(step)' = Work(job) /\ Work(job) # {}
    BY <1>1 DEF Work, Start
<1>3. 1 \in Workers(job) /\ Workers(job) \subseteq 1..HwThreads
    BY ThreadsAssumption DEF Workers
<1>4. PoolType'
    BY <1>1, <1>3 DEF PoolType
<1>5. Order' /\ phase = "done"
    BY <1>1, JobSteps DEF IInv, Order
<1>6. PoolBooks'
    <2>1. DOMAIN pool'.results = {} /\ pool'.left = Work(job) /\ pool'.alive = Workers(job)
        BY <1>1
    <2>2. \A t \in pool'.alive : pool'.held[t] = {}
        BY <1>1, <1>3
    <2> QED BY <1>1, <1>2, <1>3, <1>5, <2>1, <2>2 DEF PoolBooks, AllJoined
<1> QED BY <1>4, <1>5, <1>6 DEF IInv

LEMMA TakeKeepsInv == ASSUME IInv, UNCHANGED dumpVars, NEW t \in 1..HwThreads, Take(t) PROVE IInv'
<1>1. UNCHANGED <<modules, export, step, phase>> /\ pool.running /\ t \in pool.alive /\ pool.held[t] = {}
    BY DEF Take, exeVars, dumpVars, workerVars
<1>2. Work(step)' = Work(step)
    BY <1>1 DEF Work
<1>3. CASE \E i \in pool.left : pool' = [pool EXCEPT !.left = @ \ {i}, !.held[t] = {i}]
    <2>1. PICK i \in pool.left : pool' = [pool EXCEPT !.left = @ \ {i}, !.held[t] = {i}]
        BY <1>3
    <2>2. pool' = [running |-> TRUE, left |-> pool.left \ {i}, alive |-> pool.alive,
                   held |-> [pool.held EXCEPT ![t] = {i}], results |-> pool.results]
        BY <2>1, <1>1 DEF IInv, PoolType
    <2>3. PoolType' /\ pool'.held = [pool.held EXCEPT ![t] = {i}]
        BY <2>2, <1>1 DEF IInv, PoolType
    <2>4. /\ pool'.left = pool.left \ {i} /\ pool'.alive = pool.alive /\ pool'.results = pool.results
          /\ pool'.held[t] = {i} /\ \A u \in pool.alive : u # t => pool'.held[u] = pool.held[u]
        BY <2>2, <2>3, <1>1 DEF IInv, PoolType
    <2>5. PoolBooks'
        BY <2>4, <1>1, <1>2 DEF IInv, PoolBooks, AllJoined
    <2> QED BY <2>3, <2>5, <1>1 DEF IInv, Order
<1>4. CASE pool.left = {} /\ pool' = [pool EXCEPT !.alive = @ \ {t}]
    <2>1. pool' = [running |-> TRUE, left |-> {}, alive |-> pool.alive \ {t},
                   held |-> pool.held, results |-> pool.results]
        BY <1>4, <1>1 DEF IInv, PoolType
    <2>2. PoolType'
        BY <2>1, <1>1 DEF IInv, PoolType
    <2>3. PoolBooks'
        BY <2>1, <1>1, <1>2, <1>4 DEF IInv, PoolBooks, AllJoined
    <2> QED BY <2>2, <2>3, <1>1 DEF IInv, Order
<1> QED BY <1>3, <1>4 DEF Take

LEMMA StoreKeepsInv == ASSUME IInv, UNCHANGED dumpVars, NEW t \in 1..HwThreads, Store(t) PROVE IInv'
<1>1. UNCHANGED <<modules, export, step, phase>> /\ pool.running /\ t \in pool.alive
    BY DEF Store, exeVars, dumpVars, workerVars
<1>2. Work(step)' = Work(step)
    BY <1>1 DEF Work
<1>3. PICK i \in pool.held[t] :
         pool' = [pool EXCEPT !.results = [j \in {i} \cup DOMAIN pool.results |->
                                             IF j = i THEN Task(step, i) ELSE pool.results[j]],
                              !.held[t] = {}]
    BY DEF Store
<1>4. pool' = [running |-> TRUE, left |-> pool.left, alive |-> pool.alive,
               held |-> [pool.held EXCEPT ![t] = {}], results |-> [j \in {i} \cup DOMAIN pool.results |->
                               IF j = i THEN Task(step, i) ELSE pool.results[j]]]
    BY <1>3, <1>1 DEF IInv, PoolType
<1>5. PoolType'
    BY <1>4, <1>1 DEF IInv, PoolType
<1>6. DOMAIN pool'.results = {i} \cup DOMAIN pool.results
    BY <1>4
<1>7. /\ pool'.left = pool.left /\ pool'.alive = pool.alive
      /\ pool'.held[t] = {} /\ \A u \in pool.alive : u # t => pool'.held[u] = pool.held[u]
    BY <1>4, <1>1 DEF IInv, PoolType
<1>8. /\ i \in Work(step) /\ i \notin pool.left
      /\ \A u \in pool.alive : u # t => i \notin pool.held[u]
    BY <1>1 DEF IInv, PoolBooks
<1>9. pool.held[t] = {i}
    BY <1>1, <1>3 DEF IInv, PoolBooks
<1>10. \A j \in Work(step) : \/ j \in pool'.left \cup DOMAIN pool'.results
                             \/ \E u \in pool'.alive : j \in pool'.held[u]
    <2>1. \A j \in Work(step) : \/ j \in pool.left \cup DOMAIN pool.results
                               \/ \E u \in pool.alive : j \in pool.held[u]
        BY <1>1 DEF IInv, PoolBooks
    <2> QED BY <2>1, <1>6, <1>7, <1>9
<1>11. PoolBooks'
    <2>1. /\ step \in ToSet(Jobs) /\ phase = "done" /\ pool.left \cap DOMAIN pool.results = {}
          /\ pool.left \subseteq Work(step) /\ DOMAIN pool.results \subseteq Work(step)
          /\ \A u \in pool.alive : pool.held[u] \subseteq Work(step)
          /\ \A u \in pool.alive : pool.held[u] \cap (pool.left \cup DOMAIN pool.results) = {}
          /\ \A u \in pool.alive : \A j \in pool.held[u] : pool.held[u] = {j}
          /\ \A u, x \in pool.alive : u # x => pool.held[u] \cap pool.held[x] = {}
          /\ pool.alive = {} => pool.left = {}
        BY <1>1 DEF IInv, PoolBooks, AllJoined
    <2>2. /\ pool'.left \cap DOMAIN pool'.results = {}
          /\ pool'.alive = {} => pool'.left = {}
          /\ pool'.left \subseteq Work(step) /\ DOMAIN pool'.results \subseteq Work(step)
          /\ \A u \in pool'.alive : pool'.held[u] \subseteq Work(step)
        BY <2>1, <1>6, <1>7, <1>8
    <2>3. \A u \in pool'.alive : pool'.held[u] \cap (pool'.left \cup DOMAIN pool'.results) = {}
        BY <2>1, <1>6, <1>7, <1>8
    <2>4. /\ \A u \in pool'.alive : \A j \in pool'.held[u] : pool'.held[u] = {j}
          /\ \A u, x \in pool'.alive : u # x => pool'.held[u] \cap pool'.held[x] = {}
        BY <2>1, <1>7
    <2> QED BY <2>1, <2>2, <2>3, <2>4, <1>10, <1>1, <1>2 DEF PoolBooks, AllJoined
<1> QED BY <1>5, <1>11, <1>1 DEF IInv, Order

LEMMA JoinKeepsInv == ASSUME IInv, UNCHANGED dumpVars, Join PROVE IInv'
BY JobSteps DEF IInv, PoolType, PoolBooks, Order, Join, Idle, dumpVars, workerVars

LEMMA NextKeepsInv == IInv /\ [Next]_<<dumpVars, exeVars, genVars>> => IInv'
<1> SUFFICES ASSUME IInv, [Next]_<<dumpVars, exeVars, genVars>> PROVE IInv' OBVIOUS
<1>1. CASE UNCHANGED <<dumpVars, exeVars, genVars>>
    BY <1>1 DEF IInv, PoolType, PoolBooks, Order, AllJoined, Work, dumpVars, workerVars, exeVars, genVars
<1>2. CASE DumpNext /\ UNCHANGED <<exeVars, genVars>>
    BY <1>2, DumpKeepsInv
<1>3. CASE ExeNext /\ UNCHANGED <<dumpVars, genVars>>
    BY <1>3, ExeKeepsInv
<1>4. CASE GenNext /\ UNCHANGED dumpVars
    BY <1>4, SkipKeepsInv, StartKeepsInv, TakeKeepsInv, StoreKeepsInv, JoinKeepsInv DEF GenNext
<1> QED BY <1>1, <1>2, <1>3, <1>4 DEF Next

LEMMA Inductive == Spec => []IInv
BY InitInv, NextKeepsInv, PTL DEF Spec

(* The invariant of the pools (the worker_fn of the four generators): each     *)
(* module is left, with one thread, or done.                                   *)
THEOREM PoolBooksCorrect == Spec => []PoolBooks
<1>1. IInv => PoolBooks
    BY DEF IInv
<1> QED BY <1>1, Inductive, PTL

(* When main() goes on behind join(), every module a generator had work for    *)
(* has its result, and none was taken twice.                                   *)
JoinedHasAll == pool.running /\ AllJoined => DOMAIN pool.results = Work(step)

THEOREM JoinedHasAllCorrect == Spec => []JoinedHasAll
<1>1. PoolBooks => JoinedHasAll
    BY DEF PoolBooks, JoinedHasAll, AllJoined
<1> QED BY <1>1, PoolBooksCorrect, PTL

-----------------------------------------------------------------------------
(* What a thread has stored is what the task of that module yields: nothing a
   task looks at changes while the pool runs.                                *)
ResultsRight == pool.running => \A i \in DOMAIN pool.results : pool.results[i] = Task(step, i)

(* Before the export is parsed there are no modules. *)
NotParsed == step = "parse" => modules = << >>

RInv == ResultsRight /\ NotParsed /\ PoolsComplete

(* A module with a function worth a pattern has entries. *)
LEMMA SomeEntries ==
  ASSUME NEW vtables, Candidates(vtables) # {} PROVE process_module(vtables) # {}
<1> DEFINE slots      == Candidates(vtables)
           stubs      == {e \in slots : detect_stub(e.raw)}
           candidates == slots \ stubs
           Listed(rva) == [rva |-> rva, tokens |-> Tokens((CHOOSE e \in candidates : e.rva = rva).raw)]
           prefixes    == compute_unique_prefixes({Listed(e.rva) : e \in candidates})
<1>1. process_module(vtables) =
        {[class |-> e.class, index |-> e.index, rva |-> e.rva, stub |-> TRUE, unique |-> FALSE,
          class_unique |-> FALSE, pattern |-> e.raw] : e \in stubs}
        \cup
        {[class |-> e.class, index |-> e.index, rva |-> e.rva, stub |-> FALSE,
          unique |-> prefixes[Listed(e.rva)].unique, class_unique |-> class_unique(e, candidates),
          pattern |-> prefixes[Listed(e.rva)].pattern] : e \in candidates}
    BY DEF process_module
<1>2. stubs # {} \/ candidates # {}
    OBVIOUS
<1> HIDE DEF stubs, candidates, prefixes, Listed
<1> QED BY <1>1, <1>2

LEMMA TaskOfSignatures == \A i : Task("signatures", i) = process_module(export.modules[i].vtables)
BY DEF Task

LEMMA TaskOfSdk == \A i : Task("sdk", i).module = modules[i].name
<1>1. \A i : Task("sdk", i) = process_sdk_module(modules, ClassLookup, i)
    BY DEF Task
<1> QED BY <1>1 DEF process_sdk_module

LEMMA NameOfInternalModule ==
  ASSUME NEW mods, NEW exported, NEW lookup, NEW strings, NEW layouts, NEW index, NEW i
  PROVE  process_internal_module(mods, exported, lookup, strings, layouts, index, i).module = mods[i].name
BY DEF process_internal_module

LEMMA TaskOfInternalSdk == \A i : Task("internal_sdk", i).module = modules[i].name
BY NameOfInternalModule DEF Task

LEMMA StepAfter ==
  /\ NextStep["layouts"] = "trees" /\ NextStep["signatures"] = "sdk"
  /\ NextStep["sdk"] = "internal_sdk" /\ NextStep["internal_sdk"] = "done"
BY DEF NextStep

(* The steps before the first of the three generators. *)
LEMMA DumpKeepsResults ==
  ASSUME IInv, RInv, DumpNext, UNCHANGED <<exeVars, genVars>> PROVE RInv'
<1>1. phase # "done"
    BY DEF DumpNext, PhaseSchema, PhaseRtti, PhaseGlobals, PhasePatterns, PhaseReferences, WriteExport, ResolveRtti
<1>2. ~pool.running /\ step = "parse" /\ UNCHANGED <<pool, step, modules>>
    BY <1>1 DEF IInv, PoolBooks, Order, exeVars, genVars
<1> QED BY <1>2 DEF RInv, ResultsRight, NotParsed, PoolsComplete

LEMMA ExeKeepsResults ==
  ASSUME IInv, RInv, ExeNext, UNCHANGED <<dumpVars, genVars>> PROVE RInv'
<1>1. step \in {"parse", "lookup", "modules", "trees"} /\ ~pool'.running
    BY JobSteps DEF IInv, PoolBooks, genVars, ExeNext, ParseExport, BuildLookup, EmitModule, WriteTrees
<1>2. \/ step' \in {"lookup", "modules", "layouts", "signatures"}
      \/ step = "parse" /\ step' = "done" /\ modules' = modules
    BY DEF ExeNext, ParseExport, BuildLookup, EmitModule, WriteTrees
<1> QED BY <1>1, <1>2 DEF RInv, ResultsRight, NotParsed, PoolsComplete

(* The steps of the generators. *)
LEMMA SkipKeepsResults ==
  ASSUME IInv, RInv, UNCHANGED dumpVars, NEW job \in ToSet(Jobs), Skip(job) PROVE RInv'
<1>1. /\ UNCHANGED <<modules, export, pool, opts, signatures, sdk, internal_sdk>> /\ ~pool.running
      /\ step = job /\ step' = NextStep[job]
      /\ job \notin opts \/ Work(job) = {}
    BY DEF Skip, genVars, dumpVars, workerVars
<1>2. \A j : Work(j)' = Work(j)
    BY <1>1 DEF Work
<1>3. \/ /\ job = "layouts"      /\ step' = "trees"
      \/ /\ job = "signatures"   /\ step' = "sdk"
      \/ /\ job = "sdk"          /\ step' = "internal_sdk"
      \/ /\ job = "internal_sdk" /\ step' = "done"
    BY <1>1, JobSteps, StepAfter
<1>4. ResultsRight' /\ NotParsed'
    BY <1>1, <1>3 DEF ResultsRight, NotParsed
<1>5. PoolsComplete'
    <2>1. \A j, S : Work(j) = {} => Complete(j, S)'
        BY <1>2 DEF Complete
    <2>2. CASE job = "layouts"
        BY <1>3, <2>2 DEF PoolsComplete
    <2>3. CASE job = "signatures"
        BY <1>1, <1>2, <1>3, <2>3 DEF PoolsComplete
    <2>4. CASE job = "sdk"
        BY <1>1, <1>3, <2>1, <2>4 DEF PoolsComplete
    <2>5. CASE job = "internal_sdk"
        BY <1>1, <1>3, <2>1, <2>5 DEF PoolsComplete
    <2> QED BY <1>3, <2>2, <2>3, <2>4, <2>5
<1> QED BY <1>4, <1>5 DEF RInv

LEMMA StartKeepsResults ==
  ASSUME RInv, UNCHANGED dumpVars, NEW job \in ToSet(Jobs), Start(job) PROVE RInv'
<1>1. /\ UNCHANGED <<modules, export, step, opts, signatures, sdk, internal_sdk>>
      /\ step \in ToSet(Jobs) /\ pool'.results = << >>
    BY DEF Start, exeVars, dumpVars, workerVars
<1>2. \A j : Work(j)' = Work(j)
    BY <1>1 DEF Work
<1>3. ResultsRight' /\ NotParsed'
    BY <1>1, JobSteps DEF ResultsRight, NotParsed
<1>4. PoolsComplete'
    BY <1>1, <1>2 DEF RInv, PoolsComplete, Complete
<1> QED BY <1>3, <1>4 DEF RInv

(* Take and Store leave alone all that a task looks at. *)
LEMMA TaskStays ==
  ASSUME UNCHANGED <<exeVars, dumpVars, member_layouts, rva_index>>
  PROVE  \A job, i : Task(job, i)' = Task(job, i)
<1>1. UNCHANGED <<modules, export, global_class_lookup, member_layouts, rva_index>>
    BY DEF exeVars, dumpVars, workerVars
<1>2. ClassLookup' = ClassLookup
    BY <1>1 DEF ClassLookup
<1> QED BY <1>1, <1>2 DEF Task

LEMMA ThreadKeepsResults ==
  ASSUME IInv, RInv, UNCHANGED dumpVars, NEW t \in 1..HwThreads, Take(t) \/ Store(t) PROVE RInv'
<1>1. /\ UNCHANGED <<exeVars, opts, member_layouts, signatures, sdk, internal_sdk, rva_index>>
      /\ UNCHANGED <<modules, export, step>> /\ pool.running
    BY DEF Take, Store, exeVars, dumpVars, workerVars
<1>2. \A job, i : Task(job, i)' = Task(job, i)
    BY <1>1, TaskStays
<1>3. \A j : Work(j)' = Work(j)
    BY <1>1 DEF Work
<1>4. \A i \in DOMAIN pool'.results : pool'.results[i] = Task(step, i)
    <2>1. CASE Take(t)
        <3>1. pool'.results = pool.results
            BY <2>1, <1>1 DEF Take, IInv, PoolType
        <3> QED BY <3>1, <1>1 DEF RInv, ResultsRight
    <2>2. CASE Store(t)
        <3>1. PICK i \in pool.held[t] :
                 pool' = [pool EXCEPT !.results = [j \in {i} \cup DOMAIN pool.results |->
                                                     IF j = i THEN Task(step, i) ELSE pool.results[j]],
                                      !.held[t] = {}]
            BY <2>2 DEF Store
        <3>2. pool'.results = [j \in {i} \cup DOMAIN pool.results |->
                                 IF j = i THEN Task(step, i) ELSE pool.results[j]]
            BY <3>1, <1>1 DEF IInv, PoolType
        <3> QED BY <3>2, <1>1 DEF RInv, ResultsRight
    <2> QED BY <2>1, <2>2
<1>5. ResultsRight'
    BY <1>1, <1>2, <1>4 DEF ResultsRight
<1>6. PoolsComplete' /\ NotParsed'
    BY <1>1, <1>3 DEF RInv, PoolsComplete, Complete, NotParsed
<1> QED BY <1>5, <1>6 DEF RInv

(* What main() has after the join is a result for every module. *)
LEMMA JoinKeepsResults == ASSUME IInv, RInv, UNCHANGED dumpVars, Join PROVE RInv'
<1>1. /\ UNCHANGED <<modules, export, opts>> /\ pool' = Idle
      /\ pool.running /\ AllJoined /\ step \in ToSet(Jobs) /\ step' = NextStep[step]
    BY DEF Join, dumpVars, workerVars, IInv, PoolBooks
<1>2. \A j : Work(j)' = Work(j)
    BY <1>1 DEF Work
<1>3. /\ DOMAIN pool.results = Work(step)
      /\ \A i \in Work(step) : pool.results[i] = Task(step, i)
    BY <1>1 DEF IInv, PoolBooks, AllJoined, RInv, ResultsRight
<1>4. ResultsRight' /\ NotParsed'
    BY <1>1, JobSteps, StepAfter DEF ResultsRight, NotParsed, Idle
<1>5. CASE step = "layouts"
    BY <1>1, <1>4, <1>5, StepAfter DEF RInv, PoolsComplete
<1>6. CASE step = "signatures"
    <2>1. step' = "sdk" /\ signatures' = ByName({})
        BY <1>1, <1>6, StepAfter DEF Join
    <2>2. ASSUME NEW i \in Work("signatures"), Candidates(export.modules[i].vtables) # {}
          PROVE  modules[i].name \in DOMAIN signatures'
        <3>1. i \in DOMAIN pool.results /\ pool.results[i] # {}
            BY <1>3, <1>6, <2>2, TaskOfSignatures, SomeEntries
        <3> QED BY <2>1, <3>1 DEF ByName
    <2> QED BY <2>1, <2>2, <1>1, <1>2, <1>4 DEF RInv, PoolsComplete
<1>7. CASE step = "sdk"
    <2>1. step' = "internal_sdk" /\ sdk'.modules = Results
        BY <1>1, <1>7, StepAfter DEF Join
    <2>2. \A i \in Work("sdk") : \E r \in Results : r.module = modules[i].name
        BY <1>3, <1>7, TaskOfSdk DEF Results
    <2> QED BY <2>1, <2>2, <1>1, <1>2, <1>4 DEF RInv, PoolsComplete, Complete
<1>8. CASE step = "internal_sdk"
    <2>1. step' = "done" /\ internal_sdk' = Results
        BY <1>1, <1>8, StepAfter DEF Join
    <2>2. \A i \in Work("internal_sdk") : \E r \in Results : r.module = modules[i].name
        BY <1>3, <1>8, TaskOfInternalSdk DEF Results
    <2> QED BY <2>1, <2>2, <1>1, <1>2, <1>4 DEF RInv, PoolsComplete, Complete
<1> QED BY <1>1, <1>5, <1>6, <1>7, <1>8, JobSteps

LEMMA NextKeepsResults == IInv /\ RInv /\ [Next]_<<dumpVars, exeVars, genVars>> => RInv'
<1> SUFFICES ASSUME IInv, RInv, [Next]_<<dumpVars, exeVars, genVars>> PROVE RInv' OBVIOUS
<1>1. CASE UNCHANGED <<dumpVars, exeVars, genVars>>
    <2>1. UNCHANGED <<pool, step, modules, export, opts, signatures, sdk, internal_sdk>>
        BY <1>1 DEF dumpVars, workerVars, exeVars, genVars
    <2>2. \A j : Work(j)' = Work(j)
        BY <2>1 DEF Work
    <2>3. \A job, i : Task(job, i)' = Task(job, i)
        BY <1>1, TaskStays DEF genVars
    <2>4. PoolsComplete' /\ NotParsed'
        BY <2>1, <2>2 DEF RInv, PoolsComplete, Complete, NotParsed
    <2> QED BY <2>1, <2>3, <2>4 DEF RInv, ResultsRight
<1>2. CASE DumpNext /\ UNCHANGED <<exeVars, genVars>>
    BY <1>2, DumpKeepsResults
<1>3. CASE ExeNext /\ UNCHANGED <<dumpVars, genVars>>
    BY <1>3, ExeKeepsResults
<1>4. CASE GenNext /\ UNCHANGED dumpVars
    BY <1>4, SkipKeepsResults, StartKeepsResults, ThreadKeepsResults, JoinKeepsResults DEF GenNext
<1> QED BY <1>1, <1>2, <1>3, <1>4 DEF Next

(* When main() goes on behind a generator (join() of its worker_fn), the       *)
(* signatures and both SDKs have an entry for every module that had work,      *)
(* however many threads shared it and in whatever order they took it.          *)
THEOREM PoolsCompleteCorrect == Spec => []PoolsComplete
<1>1. Init => RInv
    BY DEF Init, ExeInit, GenInit, Idle, RInv, ResultsRight, NotParsed, PoolsComplete
<1>2. RInv => PoolsComplete
    BY DEF RInv
<1> QED BY <1>1, <1>2, Inductive, NextKeepsResults, PTL DEF Spec

-----------------------------------------------------------------------------
(* decode_function() against the processor: how an instruction is encoded. *)

LEMMA JoinedRows ==
  ASSUME NEW a \in Seq(Nat), NEW b \in Seq(Nat)
  PROVE  /\ a \o b \in Seq(Nat) /\ Len(a \o b) = Len(a) + Len(b)
         /\ \A j \in 1..Len(a) : (a \o b)[j] = a[j]
         /\ \A j \in 1..Len(b) : (a \o b)[Len(a) + j] = b[j]
<1>1. a \o b \in Seq(Nat) /\ Len(a \o b) = Len(a) + Len(b)
    BY ConcatProperties
<1>2. \A j \in 1..(Len(a) + Len(b)) : (a \o b)[j] = IF j <= Len(a) THEN a[j] ELSE b[j - Len(a)]
    BY ConcatProperties
<1>3. Len(a) \in Nat /\ Len(b) \in Nat
    OBVIOUS
<1>4. ASSUME NEW j \in 1..Len(a) PROVE (a \o b)[j] = a[j]
    <2>1. j \in 1..(Len(a) + Len(b)) /\ j <= Len(a)
        BY <1>3
    <2> QED BY <1>2, <2>1
<1>5. ASSUME NEW j \in 1..Len(b) PROVE (a \o b)[Len(a) + j] = b[j]
    <2>1. Len(a) + j \in 1..(Len(a) + Len(b)) /\ ~(Len(a) + j <= Len(a)) /\ (Len(a) + j) - Len(a) = j
        BY <1>3
    <2> QED BY <1>2, <2>1
<1> QED BY <1>1, <1>4, <1>5

(* How the parts of an instruction follow each other. *)
RexByte(i)   == [k \in DOMAIN i.rex |-> 64 + i.rex[k]]
ModRMByte(i) == [k \in DOMAIN i.modrm |-> 64 * i.modrm[k].mod + 8 * i.modrm[k].reg + i.modrm[k].rm]
SibByte(i)   == [k \in DOMAIN i.sib |-> 64 * i.sib[k].scale + 8 * i.sib[k].index + i.sib[k].base]

PrefixCount(i) == Len(i.prefixes)
RexCount(i)    == Len(i.rex)
OpCount(i)     == Len(i.op)
ModRMCount(i)  == Len(i.modrm)
SibCount(i)    == Len(i.sib)
DispCount(i)   == Len(i.disp)
ImmCount(i)    == Len(i.imm)

OpAt(i)    == PrefixCount(i) + RexCount(i)
ModRMAt(i) == OpAt(i) + OpCount(i)
SibAt(i)   == ModRMAt(i) + ModRMCount(i)
DispAt(i)  == SibAt(i) + SibCount(i)

LEMMA LengthsAre ==
  ASSUME NEW i
  PROVE  OperandLength(i) = DispAt(i) + DispCount(i) /\ Length(i) = OperandLength(i) + ImmCount(i)
BY DEF OperandLength, Length, DispAt, SibAt, ModRMAt, OpAt, PrefixCount, RexCount, OpCount,
       ModRMCount, SibCount, DispCount, ImmCount

LEMMA OptionalParts ==
  ASSUME NEW i, IsInstruction(i)
  PROVE  /\ i.rex = << >> \/ \E n \in 0..15 : i.rex = <<n>>
         /\ i.modrm = << >> \/ \E m \in 0..3, r \in 0..7, b \in 0..7 : i.modrm = <<[mod |-> m, reg |-> r, rm |-> b]>>
         /\ HasSib(i) => \E s \in 0..3, x \in 0..7, b \in 0..7 : i.sib = <<[scale |-> s, index |-> x, base |-> b]>>
<1>1. i.rex \in RexParts /\ i.modrm \in ModRMParts /\ (HasSib(i) => i.sib \in SibParts)
    BY Zenon DEF IsInstruction
<1>2. i.rex = << >> \/ \E n \in 0..15 : i.rex = <<n>>
    BY <1>1, Zenon DEF RexParts, Optional
<1>3. ASSUME i.modrm # << >>
      PROVE  \E m \in 0..3, r \in 0..7, b \in 0..7 : i.modrm = <<[mod |-> m, reg |-> r, rm |-> b]>>
    <2>1. PICK y \in [mod : 0..3, reg : 0..7, rm : 0..7] : i.modrm = <<y>>
        BY <1>1, <1>3, Zenon DEF ModRMParts, Optional
    <2>2. y.mod \in 0..3 /\ y.reg \in 0..7 /\ y.rm \in 0..7 /\ y = [mod |-> y.mod, reg |-> y.reg, rm |-> y.rm]
        BY <2>1
    <2> QED BY <2>1, <2>2, Zenon
<1>4. ASSUME HasSib(i)
      PROVE  \E s \in 0..3, x \in 0..7, b \in 0..7 : i.sib = <<[scale |-> s, index |-> x, base |-> b]>>
    <2>1. PICK y \in [scale : 0..3, index : 0..7, base : 0..7] : i.sib = <<y>>
        BY <1>1, <1>4, Zenon DEF SibParts
    <2>2. y.scale \in 0..3 /\ y.index \in 0..7 /\ y.base \in 0..7
          /\ y = [scale |-> y.scale, index |-> y.index, base |-> y.base]
        BY <2>1
    <2> QED BY <2>1, <2>2, Zenon
<1> QED BY <1>2, <1>3, <1>4

LEMMA PartsAre ==
  ASSUME NEW i, IsInstruction(i)
  PROVE  /\ i.prefixes \in Seq(KnownPrefixes) /\ i.op \in Seq(Byte) /\ i.disp \in Seq(Byte) /\ i.imm \in Seq(Byte)
         /\ i.op[1] \in Byte /\ Len(i.op) = (IF i.op[1] = \h0F THEN 2 ELSE 1)
         /\ (i.rex = << >> /\ Len(i.rex) = 0) \/ (Len(i.rex) = 1 /\ i.rex # << >> /\ i.rex[1] \in 0..15)
         /\ \/ i.modrm = << >> /\ Len(i.modrm) = 0
            \/ /\ Len(i.modrm) = 1 /\ i.modrm # << >>
               /\ i.modrm[1].mod \in 0..3 /\ i.modrm[1].reg \in 0..7 /\ i.modrm[1].rm \in 0..7
         /\ \/ ~HasSib(i) /\ Len(i.sib) = 0
            \/ /\ HasSib(i) /\ Len(i.sib) = 1
               /\ i.sib[1].scale \in 0..3 /\ i.sib[1].index \in 0..7 /\ i.sib[1].base \in 0..7
         /\ RexByte(i) \in Seq(Nat) /\ ModRMByte(i) \in Seq(Nat) /\ SibByte(i) \in Seq(Nat)
         /\ DOMAIN i.rex = 1..Len(i.rex) /\ DOMAIN i.modrm = 1..Len(i.modrm) /\ DOMAIN i.sib = 1..Len(i.sib)
         /\ Len(RexByte(i)) = Len(i.rex) /\ Len(ModRMByte(i)) = Len(i.modrm) /\ Len(SibByte(i)) = Len(i.sib)
<1>1. /\ i.prefixes \in Seq(KnownPrefixes) /\ i.op \in Seq(Byte) /\ i.disp \in Seq(Byte) /\ i.imm \in Seq(Byte)
      /\ Len(i.op) = (IF i.op[1] = \h0F THEN 2 ELSE 1)
    BY DEF IsInstruction
<1>2. i.op[1] \in Byte
    BY <1>1
<1>3. (i.rex = << >> /\ Len(i.rex) = 0) \/ (Len(i.rex) = 1 /\ i.rex # << >> /\ i.rex[1] \in 0..15 /\ DOMAIN i.rex = 1..1)
    <2>1. CASE i.rex = << >>
        BY <2>1
    <2>2. CASE i.rex # << >>
        <3>1. PICK n \in 0..15 : i.rex = <<n>>
            BY <2>2, OptionalParts
        <3> QED BY <3>1
    <2> QED BY <2>1, <2>2
<1>4. \/ i.modrm = << >> /\ Len(i.modrm) = 0
      \/ /\ Len(i.modrm) = 1 /\ i.modrm # << >> /\ DOMAIN i.modrm = 1..1
         /\ i.modrm[1].mod \in 0..3 /\ i.modrm[1].reg \in 0..7 /\ i.modrm[1].rm \in 0..7
    <2>1. CASE i.modrm = << >>
        BY <2>1
    <2>2. CASE i.modrm # << >>
        <3>1. PICK m \in 0..3, r \in 0..7, b \in 0..7 : i.modrm = <<[mod |-> m, reg |-> r, rm |-> b]>>
            BY <2>2, OptionalParts, Zenon
        <3> QED BY <2>2, <3>1
    <2> QED BY <2>1, <2>2
<1>5. \/ ~HasSib(i) /\ i.sib = << >> /\ Len(i.sib) = 0
      \/ /\ HasSib(i) /\ Len(i.sib) = 1 /\ DOMAIN i.sib = 1..1
         /\ i.sib[1].scale \in 0..3 /\ i.sib[1].index \in 0..7 /\ i.sib[1].base \in 0..7
    <2>1. CASE ~HasSib(i)
        <3>1. i.sib = << >>
            BY <2>1, Zenon DEF IsInstruction
        <3> QED BY <2>1, <3>1
    <2>2. CASE HasSib(i)
        <3>1. PICK s \in 0..3, x \in 0..7, b \in 0..7 : i.sib = <<[scale |-> s, index |-> x, base |-> b]>>
            BY <2>2, OptionalParts, Zenon
        <3> QED BY <2>2, <3>1
    <2> QED BY <2>1, <2>2
<1>6. RexByte(i) \in Seq(Nat) /\ Len(RexByte(i)) = Len(i.rex)
    BY <1>3 DEF RexByte
<1>7. ModRMByte(i) \in Seq(Nat) /\ Len(ModRMByte(i)) = Len(i.modrm)
    <2> DEFINE v == 64 * i.modrm[1].mod + 8 * i.modrm[1].reg + i.modrm[1].rm
    <2>1. CASE i.modrm = << >>
        BY <2>1 DEF ModRMByte
    <2>2. CASE i.modrm # << >>
        <3>0. i.modrm[1].mod \in Nat /\ i.modrm[1].reg \in Nat /\ i.modrm[1].rm \in Nat
            BY <1>4, <2>2
        <3>1. v \in Nat
            BY <3>0
        <3>2. ModRMByte(i) = [k \in 1..1 |-> v]
            BY <1>4, <2>2 DEF ModRMByte
        <3> HIDE DEF v
        <3> QED BY <1>4, <2>2, <3>1, <3>2
    <2> QED BY <2>1, <2>2
<1>8. SibByte(i) \in Seq(Nat) /\ Len(SibByte(i)) = Len(i.sib)
    <2> DEFINE v == 64 * i.sib[1].scale + 8 * i.sib[1].index + i.sib[1].base
    <2>1. CASE ~HasSib(i)
        BY <1>5, <2>1 DEF SibByte
    <2>2. CASE HasSib(i)
        <3>1. v \in Nat
            BY <1>5, <2>2
        <3>2. SibByte(i) = [k \in 1..1 |-> v]
            BY <1>5, <2>2 DEF SibByte
        <3> HIDE DEF v
        <3> QED BY <1>5, <2>2, <3>1, <3>2
    <2> QED BY <2>1, <2>2
<1>9. DOMAIN i.rex = 1..Len(i.rex) /\ DOMAIN i.modrm = 1..Len(i.modrm) /\ DOMAIN i.sib = 1..Len(i.sib)
    BY <1>3, <1>4, <1>5
<1> QED BY <1>1, <1>2, <1>3, <1>4, <1>5, <1>6, <1>7, <1>8, <1>9

LEMMA EncodedParts ==
  ASSUME NEW i, IsInstruction(i)
  PROVE  /\ \A j \in 1..PrefixCount(i) : Encoding(i)[j] = i.prefixes[j]
         /\ RexCount(i) = 1 => Encoding(i)[PrefixCount(i) + 1] = 64 + i.rex[1]
         /\ \A j \in 1..OpCount(i) : Encoding(i)[OpAt(i) + j] = i.op[j]
         /\ ModRMCount(i) = 1 =>
              Encoding(i)[ModRMAt(i) + 1] = 64 * i.modrm[1].mod + 8 * i.modrm[1].reg + i.modrm[1].rm
         /\ SibCount(i) = 1 =>
              Encoding(i)[SibAt(i) + 1] = 64 * i.sib[1].scale + 8 * i.sib[1].index + i.sib[1].base
         /\ \A j \in 1..DispCount(i) : Encoding(i)[DispAt(i) + j] = i.disp[j]
         /\ DOMAIN Encoding(i) = 1..Length(i) /\ Length(i) \in Nat
<1> DEFINE a == i.prefixes
           b == RexByte(i)
           c == i.op
           d == ModRMByte(i)
           e == SibByte(i)
           f == i.disp
           g == i.imm
<1>1. /\ a \in Seq(Nat) /\ b \in Seq(Nat) /\ c \in Seq(Nat) /\ d \in Seq(Nat)
      /\ e \in Seq(Nat) /\ f \in Seq(Nat) /\ g \in Seq(Nat)
    <2>1. KnownPrefixes \subseteq Nat /\ Byte \subseteq Nat
        BY DEF KnownPrefixes, Byte
    <2>2. /\ a \in Seq(KnownPrefixes) /\ b \in Seq(Nat) /\ c \in Seq(Byte) /\ d \in Seq(Nat)
          /\ e \in Seq(Nat) /\ f \in Seq(Byte) /\ g \in Seq(Byte)
        BY PartsAre
    <2>3. \A S, T : S \subseteq T => \A s \in Seq(S) : s \in Seq(T)
        OBVIOUS
    <2> HIDE DEF a, b, c, d, e, f, g
    <2> QED BY <2>1, <2>2, <2>3
<1>2. Encoding(i) = ((((((a \o b) \o c) \o d) \o e) \o f) \o g)
    BY DEF Encoding, RexByte, ModRMByte, SibByte
<1>3. Len(b) = Len(i.rex) /\ Len(d) = Len(i.modrm) /\ Len(e) = Len(i.sib)
    BY PartsAre
<1>4. /\ Len(i.rex) = 1 => b[1] = 64 + i.rex[1]
      /\ Len(i.modrm) = 1 => d[1] = 64 * i.modrm[1].mod + 8 * i.modrm[1].reg + i.modrm[1].rm
      /\ Len(i.sib) = 1 => e[1] = 64 * i.sib[1].scale + 8 * i.sib[1].index + i.sib[1].base
    <2>1. DOMAIN i.rex = 1..Len(i.rex) /\ DOMAIN i.modrm = 1..Len(i.modrm) /\ DOMAIN i.sib = 1..Len(i.sib)
        BY PartsAre
    <2> QED BY <2>1 DEF RexByte, ModRMByte, SibByte
<1> HIDE DEF a, b, c, d, e, f, g
<1> DEFINE ab == a \o b
           abc == ab \o c
           abcd == abc \o d
           abcde == abcd \o e
           abcdef == abcde \o f
<1>5. /\ ab \in Seq(Nat) /\ Len(ab) = Len(a) + Len(b)
      /\ \A j \in 1..Len(a) : ab[j] = a[j]
      /\ \A j \in 1..Len(b) : ab[Len(a) + j] = b[j]
    BY <1>1, JoinedRows
<1> HIDE DEF ab
<1>6. /\ abc \in Seq(Nat) /\ Len(abc) = Len(ab) + Len(c)
      /\ \A j \in 1..Len(ab) : abc[j] = ab[j]
      /\ \A j \in 1..Len(c) : abc[Len(ab) + j] = c[j]
    BY <1>1, <1>5, JoinedRows
<1> HIDE DEF abc
<1>7. /\ abcd \in Seq(Nat) /\ Len(abcd) = Len(abc) + Len(d)
      /\ \A j \in 1..Len(abc) : abcd[j] = abc[j]
      /\ \A j \in 1..Len(d) : abcd[Len(abc) + j] = d[j]
    BY <1>1, <1>6, JoinedRows
<1> HIDE DEF abcd
<1>8. /\ abcde \in Seq(Nat) /\ Len(abcde) = Len(abcd) + Len(e)
      /\ \A j \in 1..Len(abcd) : abcde[j] = abcd[j]
      /\ \A j \in 1..Len(e) : abcde[Len(abcd) + j] = e[j]
    BY <1>1, <1>7, JoinedRows
<1> HIDE DEF abcde
<1>9. /\ abcdef \in Seq(Nat) /\ Len(abcdef) = Len(abcde) + Len(f)
      /\ \A j \in 1..Len(abcde) : abcdef[j] = abcde[j]
      /\ \A j \in 1..Len(f) : abcdef[Len(abcde) + j] = f[j]
    BY <1>1, <1>8, JoinedRows
<1> HIDE DEF abcdef
<1> DEFINE E == abcdef \o g
<1>10. /\ E \in Seq(Nat) /\ Len(E) = Len(abcdef) + Len(g)
       /\ \A j \in 1..Len(abcdef) : E[j] = abcdef[j]
    BY <1>1, <1>9, JoinedRows
<1>11. Encoding(i) = E
    BY <1>2 DEF ab, abc, abcd, abcde, abcdef
<1> HIDE DEF E
<1>12. /\ Len(a) \in Nat /\ Len(b) \in Nat /\ Len(c) \in Nat /\ Len(d) \in Nat
       /\ Len(e) \in Nat /\ Len(f) \in Nat /\ Len(g) \in Nat
    BY <1>1
<1>13. /\ Len(ab) = OpAt(i) /\ Len(abc) = ModRMAt(i) /\ Len(abcd) = SibAt(i) /\ Len(abcde) = DispAt(i)
       /\ Len(E) = Length(i) /\ Len(E) \in Nat
    <2>1. /\ Len(a) = PrefixCount(i) /\ Len(b) = RexCount(i) /\ Len(c) = OpCount(i)
          /\ Len(d) = ModRMCount(i) /\ Len(e) = SibCount(i)
          /\ Len(f) = DispCount(i) /\ Len(g) = ImmCount(i)
        BY <1>3 DEF a, c, f, g, PrefixCount, RexCount, OpCount, ModRMCount, SibCount, DispCount, ImmCount
    <2>2. Len(ab) = OpAt(i) /\ Len(abc) = ModRMAt(i) /\ Len(abcd) = SibAt(i) /\ Len(abcde) = DispAt(i)
        BY <1>3, <1>5, <1>6, <1>7, <1>8, <2>1 DEF OpAt, ModRMAt, SibAt, DispAt
    <2>3. Length(i) = DispAt(i) + Len(f) + Len(g)
        BY <2>1, LengthsAre
    <2> QED BY <1>9, <1>10, <1>12, <2>2, <2>3
<1>14. /\ \A j \in 1..Len(abcde) : E[j] = abcde[j]
       /\ \A j \in 1..Len(f) : E[Len(abcde) + j] = f[j]
    <2>1. ASSUME NEW j \in 1..Len(abcde) PROVE E[j] = abcde[j]
        <3>1. j \in 1..Len(abcdef)
            BY <1>9, <1>12
        <3> QED BY <1>9, <1>10, <3>1
    <2>2. ASSUME NEW j \in 1..Len(f) PROVE E[Len(abcde) + j] = f[j]
        <3>1. Len(abcde) + j \in 1..Len(abcdef)
            BY <1>8, <1>9, <1>12
        <3> QED BY <1>9, <1>10, <3>1
    <2> QED BY <2>1, <2>2
<1>15. /\ \A j \in 1..Len(abcd) : E[j] = abcd[j]
       /\ \A j \in 1..Len(e) : E[Len(abcd) + j] = e[j]
    <2>1. ASSUME NEW j \in 1..Len(abcd) PROVE E[j] = abcd[j]
        <3>1. j \in 1..Len(abcde)
            BY <1>7, <1>8, <1>12
        <3> QED BY <1>8, <1>14, <3>1
    <2>2. ASSUME NEW j \in 1..Len(e) PROVE E[Len(abcd) + j] = e[j]
        <3>1. Len(abcd) + j \in 1..Len(abcde)
            BY <1>7, <1>8, <1>12
        <3> QED BY <1>8, <1>14, <3>1
    <2> QED BY <2>1, <2>2
<1>16. /\ \A j \in 1..Len(abc) : E[j] = abc[j]
       /\ \A j \in 1..Len(d) : E[Len(abc) + j] = d[j]
    <2>1. ASSUME NEW j \in 1..Len(abc) PROVE E[j] = abc[j]
        <3>1. j \in 1..Len(abcd)
            BY <1>6, <1>7, <1>12
        <3> QED BY <1>7, <1>15, <3>1
    <2>2. ASSUME NEW j \in 1..Len(d) PROVE E[Len(abc) + j] = d[j]
        <3>1. Len(abc) + j \in 1..Len(abcd)
            BY <1>6, <1>7, <1>12
        <3> QED BY <1>7, <1>15, <3>1
    <2> QED BY <2>1, <2>2
<1>17. /\ \A j \in 1..Len(ab) : E[j] = ab[j]
       /\ \A j \in 1..Len(c) : E[Len(ab) + j] = c[j]
    <2>1. ASSUME NEW j \in 1..Len(ab) PROVE E[j] = ab[j]
        <3>1. j \in 1..Len(abc)
            BY <1>5, <1>6, <1>12
        <3> QED BY <1>6, <1>16, <3>1
    <2>2. ASSUME NEW j \in 1..Len(c) PROVE E[Len(ab) + j] = c[j]
        <3>1. Len(ab) + j \in 1..Len(abc)
            BY <1>5, <1>6, <1>12
        <3> QED BY <1>6, <1>16, <3>1
    <2> QED BY <2>1, <2>2
<1>18. /\ \A j \in 1..Len(a) : E[j] = a[j]
       /\ \A j \in 1..Len(b) : E[Len(a) + j] = b[j]
    <2>1. ASSUME NEW j \in 1..Len(a) PROVE E[j] = a[j]
        <3>1. j \in 1..Len(ab)
            BY <1>12, <1>5, <1>12
        <3> QED BY <1>5, <1>17, <3>1
    <2>2. ASSUME NEW j \in 1..Len(b) PROVE E[Len(a) + j] = b[j]
        <3>1. Len(a) + j \in 1..Len(ab)
            BY <1>12, <1>5, <1>12
        <3> QED BY <1>5, <1>17, <3>1
    <2> QED BY <2>1, <2>2
<1>19. DOMAIN E = 1..Length(i)
    BY <1>10, <1>13
<1>20. /\ Len(b) = 1 => E[Len(a) + 1] = b[1]
       /\ Len(d) = 1 => E[Len(abc) + 1] = d[1]
       /\ Len(e) = 1 => E[Len(abcd) + 1] = e[1]
    <2>1. \A r : Len(r) = 1 => 1 \in 1..Len(r)
        OBVIOUS
    <2> QED BY <1>15, <1>16, <1>18, <2>1
<1>21. /\ Len(a) = PrefixCount(i) /\ Len(b) = RexCount(i) /\ Len(c) = OpCount(i)
       /\ Len(d) = ModRMCount(i) /\ Len(e) = SibCount(i) /\ Len(f) = DispCount(i)
    BY <1>3 DEF a, c, f, PrefixCount, RexCount, OpCount, ModRMCount, SibCount, DispCount
<1>22. /\ \A j \in 1..Len(a) : E[j] = i.prefixes[j]
       /\ \A j \in 1..Len(c) : E[OpAt(i) + j] = i.op[j]
       /\ \A j \in 1..Len(f) : E[DispAt(i) + j] = i.disp[j]
    BY <1>13, <1>14, <1>17, <1>18 DEF a, c, f
<1>23. /\ RexCount(i) = 1 => E[PrefixCount(i) + 1] = 64 + i.rex[1]
       /\ ModRMCount(i) = 1 => E[ModRMAt(i) + 1] = 64 * i.modrm[1].mod + 8 * i.modrm[1].reg + i.modrm[1].rm
       /\ SibCount(i) = 1 => E[SibAt(i) + 1] = 64 * i.sib[1].scale + 8 * i.sib[1].index + i.sib[1].base
    BY <1>3, <1>4, <1>13, <1>20, <1>21 DEF RexCount, ModRMCount, SibCount
<1>24. Length(i) \in Nat
    BY <1>13
<1> QED BY <1>11, <1>19, <1>21, <1>22, <1>23, <1>24

-----------------------------------------------------------------------------
(* The decoder finds the parts of the instruction that lies where it reads. *)

LEMMA CountsAre ==
  ASSUME NEW i, IsInstruction(i)
  PROVE  /\ PrefixCount(i) \in Nat /\ RexCount(i) \in {0, 1} /\ OpCount(i) \in {1, 2} /\ ModRMCount(i) \in {0, 1}
         /\ SibCount(i) \in {0, 1} /\ DispCount(i) \in Nat /\ ImmCount(i) \in Nat
<1>1. i.prefixes \in Seq(KnownPrefixes) /\ i.disp \in Seq(Byte) /\ i.imm \in Seq(Byte)
    BY PartsAre
<1>2. Len(i.rex) \in {0, 1} /\ Len(i.op) \in {1, 2} /\ Len(i.modrm) \in {0, 1} /\ Len(i.sib) \in {0, 1}
    BY PartsAre
<1> QED BY <1>1, <1>2 DEF PrefixCount, RexCount, OpCount, ModRMCount, SibCount, DispCount, ImmCount

(* The parts stand one behind the other. *)
LEMMA PlacesAre ==
  ASSUME NEW i, IsInstruction(i)
  PROVE  /\ OpAt(i) \in Nat /\ ModRMAt(i) \in Nat /\ SibAt(i) \in Nat /\ DispAt(i) \in Nat
         /\ OperandLength(i) \in Nat /\ Length(i) \in Nat
         /\ PrefixCount(i) <= OpAt(i) /\ (RexCount(i) = 1 => PrefixCount(i) + 1 <= OpAt(i))
         /\ OpAt(i) + OpCount(i) <= ModRMAt(i) /\ OpAt(i) + 1 <= ModRMAt(i) /\ ModRMAt(i) <= SibAt(i)
         /\ (ModRMCount(i) = 1 => ModRMAt(i) + 1 <= SibAt(i))
         /\ SibAt(i) <= DispAt(i) /\ (SibCount(i) = 1 => SibAt(i) + 1 <= DispAt(i))
         /\ DispAt(i) + DispCount(i) = OperandLength(i) /\ OperandLength(i) + ImmCount(i) = Length(i)
         /\ DispAt(i) <= OperandLength(i) /\ OperandLength(i) <= Length(i)
<1>1. PrefixCount(i) \in Nat /\ RexCount(i) \in Nat /\ OpCount(i) \in Nat \ {0} /\ ModRMCount(i) \in Nat
    BY CountsAre
<1>2. SibCount(i) \in Nat /\ DispCount(i) \in Nat /\ ImmCount(i) \in Nat
    BY CountsAre
<1>3. OpAt(i) \in Nat /\ PrefixCount(i) <= OpAt(i) /\ (RexCount(i) = 1 => PrefixCount(i) + 1 <= OpAt(i))
    BY <1>1 DEF OpAt
<1>4. /\ ModRMAt(i) \in Nat /\ OpAt(i) + OpCount(i) <= ModRMAt(i) /\ OpAt(i) + 1 <= ModRMAt(i)
    BY <1>1, <1>3 DEF ModRMAt
<1>5. SibAt(i) \in Nat /\ ModRMAt(i) <= SibAt(i) /\ (ModRMCount(i) = 1 => ModRMAt(i) + 1 <= SibAt(i))
    BY <1>1, <1>4 DEF SibAt
<1>6. DispAt(i) \in Nat /\ SibAt(i) <= DispAt(i) /\ (SibCount(i) = 1 => SibAt(i) + 1 <= DispAt(i))
    BY <1>2, <1>5 DEF DispAt
<1>7. DispAt(i) + DispCount(i) = OperandLength(i) /\ OperandLength(i) + ImmCount(i) = Length(i)
    BY LengthsAre
<1>8. /\ OperandLength(i) \in Nat /\ Length(i) \in Nat
      /\ DispAt(i) <= OperandLength(i) /\ OperandLength(i) <= Length(i)
    BY <1>2, <1>6, <1>7
<1> QED BY <1>3, <1>4, <1>5, <1>6, <1>7, <1>8

LEMMA SplitByte ==
  ASSUME NEW m \in 0..3, NEW r \in 0..7, NEW b \in 0..7
  PROVE  /\ (64 * m + 8 * r + b) \div 64 = m
         /\ ((64 * m + 8 * r + b) \div 8) % 8 = r
         /\ (64 * m + 8 * r + b) % 8 = b
BY SMT

LEMMA LowestBits == \A m \in 0..3, r \in 0..7, b \in 0..7 : (64 * m + 8 * r + b) % 8 = b
BY SMT

LEMMA RexIs ==
  ASSUME NEW n \in 0..15
  PROVE  /\ (64 + n) \div 16 = 4 /\ (64 + n) % 16 = n
         /\ (n \div 8) % 2 = n \div 8
         /\ 64 + n \notin PrefixBytes
BY SMT DEF PrefixBytes

LEMMA NotRex ==
  ASSUME NEW x \in Byte, x \notin 64..79 PROVE x \div 16 # 4
BY SMT DEF Byte

(* The bytes from s on are those of the instruction, as far as they go. *)
Lies(bytes, s, i) ==
  \A j \in 1..Length(i) : s + j - 1 <= Len(bytes) => bytes[s + j - 1] = Encoding(i)[j]

LEMMA LiesParts ==
  ASSUME NEW bytes \in Seq(Byte), NEW s \in Nat \ {0}, NEW i, IsInstruction(i), Lies(bytes, s, i)
  PROVE  /\ \A j \in 1..PrefixCount(i) : s + j - 1 <= Len(bytes) => bytes[s + j - 1] = i.prefixes[j]
         /\ RexCount(i) = 1 /\ s + PrefixCount(i) <= Len(bytes) => bytes[s + PrefixCount(i)] = 64 + i.rex[1]
         /\ \A j \in 1..OpCount(i) : s + OpAt(i) + j - 1 <= Len(bytes) => bytes[s + OpAt(i) + j - 1] = i.op[j]
         /\ ModRMCount(i) = 1 /\ s + ModRMAt(i) <= Len(bytes) =>
              bytes[s + ModRMAt(i)] = 64 * i.modrm[1].mod + 8 * i.modrm[1].reg + i.modrm[1].rm
         /\ SibCount(i) = 1 /\ s + SibAt(i) <= Len(bytes) =>
              bytes[s + SibAt(i)] = 64 * i.sib[1].scale + 8 * i.sib[1].index + i.sib[1].base
         /\ \A j \in 1..DispCount(i) : s + DispAt(i) + j - 1 <= Len(bytes) => bytes[s + DispAt(i) + j - 1] = i.disp[j]
<1>1. /\ PrefixCount(i) \in Nat /\ OpCount(i) \in Nat /\ DispCount(i) \in Nat
    BY CountsAre
<1>2. /\ OpAt(i) \in Nat /\ ModRMAt(i) \in Nat /\ SibAt(i) \in Nat /\ DispAt(i) \in Nat
      /\ OperandLength(i) \in Nat /\ Length(i) \in Nat
      /\ PrefixCount(i) <= OpAt(i) /\ (RexCount(i) = 1 => PrefixCount(i) + 1 <= OpAt(i))
      /\ OpAt(i) + OpCount(i) <= ModRMAt(i) /\ OpAt(i) + 1 <= ModRMAt(i) /\ ModRMAt(i) <= SibAt(i)
      /\ (ModRMCount(i) = 1 => ModRMAt(i) + 1 <= SibAt(i))
    BY PlacesAre
<1>3. /\ SibAt(i) <= DispAt(i) /\ (SibCount(i) = 1 => SibAt(i) + 1 <= DispAt(i))
      /\ DispAt(i) + DispCount(i) = OperandLength(i)
      /\ DispAt(i) <= OperandLength(i) /\ OperandLength(i) <= Length(i)
    BY PlacesAre
<1>4. \A k \in Nat, j \in Nat \ {0} :
        k + j <= Length(i) /\ s + k + j - 1 <= Len(bytes) => bytes[s + k + j - 1] = Encoding(i)[k + j]
    <2>1. ASSUME NEW k \in Nat, NEW j \in Nat \ {0}, k + j <= Length(i), s + k + j - 1 <= Len(bytes)
          PROVE  bytes[s + k + j - 1] = Encoding(i)[k + j]
        <3>1. Length(i) \in Nat /\ Len(bytes) \in Nat
            BY EncodedParts
        <3>2. k + j \in 1..Length(i) /\ s + (k + j) - 1 = s + k + j - 1
            BY <2>1, <3>1
        <3> QED BY <2>1, <3>2 DEF Lies
    <2> QED BY <2>1
<1>5. /\ \A j \in 1..PrefixCount(i) : Encoding(i)[j] = i.prefixes[j]
      /\ RexCount(i) = 1 => Encoding(i)[PrefixCount(i) + 1] = 64 + i.rex[1]
      /\ \A j \in 1..OpCount(i) : Encoding(i)[OpAt(i) + j] = i.op[j]
      /\ ModRMCount(i) = 1 =>
           Encoding(i)[ModRMAt(i) + 1] = 64 * i.modrm[1].mod + 8 * i.modrm[1].reg + i.modrm[1].rm
      /\ SibCount(i) = 1 =>
           Encoding(i)[SibAt(i) + 1] = 64 * i.sib[1].scale + 8 * i.sib[1].index + i.sib[1].base
      /\ \A j \in 1..DispCount(i) : Encoding(i)[DispAt(i) + j] = i.disp[j]
    BY EncodedParts
<1>7. ASSUME NEW k \in Nat, NEW x, k + 1 <= Length(i), Encoding(i)[k + 1] = x, s + k <= Len(bytes)
      PROVE  bytes[s + k] = x
    <2>1. s + k + 1 - 1 = s + k /\ 1 \in Nat \ {0}
        OBVIOUS
    <2>2. k + 1 <= Length(i) /\ s + k + 1 - 1 <= Len(bytes) => bytes[s + k + 1 - 1] = Encoding(i)[k + 1]
        BY <1>4, <2>1, Zenon
    <2> QED BY <1>7, <2>1, <2>2
<1>8. /\ PrefixCount(i) <= Length(i)
      /\ OpAt(i) + OpCount(i) <= Length(i) /\ DispAt(i) + DispCount(i) <= Length(i)
      /\ RexCount(i) = 1 => PrefixCount(i) + 1 <= Length(i)
      /\ ModRMCount(i) = 1 => ModRMAt(i) + 1 <= Length(i)
      /\ SibCount(i) = 1 => SibAt(i) + 1 <= Length(i)
    BY <1>1, <1>2, <1>3
<1>9. \A j \in 1..PrefixCount(i) : s + j - 1 <= Len(bytes) => bytes[s + j - 1] = i.prefixes[j]
    <2>1. ASSUME NEW j \in 1..PrefixCount(i), s + j - 1 <= Len(bytes) PROVE bytes[s + j - 1] = i.prefixes[j]
        <3>1. j <= Length(i) /\ j \in Nat \ {0}
            BY <1>1, <1>2, <1>8
        <3>2. 0 + j <= Length(i) /\ s + 0 + j - 1 = s + j - 1 /\ 0 + j = j
            BY <3>1
        <3>3. bytes[s + 0 + j - 1] = Encoding(i)[0 + j]
            BY <1>4, <2>1, <3>1, <3>2
        <3> QED BY <1>5, <3>2, <3>3
    <2> QED BY <2>1
<1>10. RexCount(i) = 1 /\ s + PrefixCount(i) <= Len(bytes) => bytes[s + PrefixCount(i)] = 64 + i.rex[1]
    BY <1>1, <1>2, <1>5, <1>7, <1>8
<1>11. \A j \in 1..OpCount(i) : s + OpAt(i) + j - 1 <= Len(bytes) => bytes[s + OpAt(i) + j - 1] = i.op[j]
    <2>1. ASSUME NEW j \in 1..OpCount(i), s + OpAt(i) + j - 1 <= Len(bytes)
          PROVE  bytes[s + OpAt(i) + j - 1] = i.op[j]
        <3>1. OpAt(i) + j <= Length(i) /\ j \in Nat \ {0} /\ OpAt(i) \in Nat
            BY <1>1, <1>2, <1>8
        <3> QED BY <1>4, <1>5, <2>1, <3>1
    <2> QED BY <2>1
<1>12. ModRMCount(i) = 1 /\ s + ModRMAt(i) <= Len(bytes) =>
         bytes[s + ModRMAt(i)] = 64 * i.modrm[1].mod + 8 * i.modrm[1].reg + i.modrm[1].rm
    BY <1>2, <1>5, <1>7, <1>8
<1>13. SibCount(i) = 1 /\ s + SibAt(i) <= Len(bytes) =>
         bytes[s + SibAt(i)] = 64 * i.sib[1].scale + 8 * i.sib[1].index + i.sib[1].base
    BY <1>2, <1>5, <1>7, <1>8
<1>14. \A j \in 1..DispCount(i) : s + DispAt(i) + j - 1 <= Len(bytes) => bytes[s + DispAt(i) + j - 1] = i.disp[j]
    <2>1. ASSUME NEW j \in 1..DispCount(i), s + DispAt(i) + j - 1 <= Len(bytes)
          PROVE  bytes[s + DispAt(i) + j - 1] = i.disp[j]
        <3>1. DispAt(i) + j <= Length(i) /\ j \in Nat \ {0} /\ DispAt(i) \in Nat
            BY <1>1, <1>2, <1>8
        <3> QED BY <1>4, <1>5, <2>1, <3>1
    <2> QED BY <2>1
<1> QED BY <1>9, <1>10, <1>11, <1>12, <1>13, <1>14

(* Where the analysis finds the opcode, and what it has read before. *)
Stopped(bytes, pos, p) ==
  /\ \A q \in pos..(p - 1) : bytes[q] \in PrefixBytes
  /\ p = Len(bytes) + 1 \/ bytes[p] \notin PrefixBytes

LEMMA StopsAt ==
  ASSUME NEW bytes \in Seq(Byte), NEW s \in 1..Len(bytes), NEW n \in s..(Len(bytes) + 1), Stopped(bytes, s, n)
  PROVE  (CHOOSE p \in s..(Len(bytes) + 1) : Stopped(bytes, s, p)) = n
<1>1. ASSUME NEW p \in s..(Len(bytes) + 1), Stopped(bytes, s, p) PROVE p = n
    <2>0. Len(bytes) \in Nat
        OBVIOUS
    <2>1. CASE p < n
        <3>1. p \in s..(n - 1) /\ p # Len(bytes) + 1
            BY <2>0, <2>1
        <3> QED BY <1>1, <3>1 DEF Stopped
    <2>2. CASE n < p
        <3>1. n \in s..(p - 1) /\ n # Len(bytes) + 1
            BY <2>0, <2>2
        <3> QED BY <1>1, <3>1 DEF Stopped
    <2> QED BY <2>0, <2>1, <2>2
<1> QED BY <1>1

HeadOf(i, s) ==
  [prefixes |-> ToSet(i.prefixes),
   wide     |-> Wide(i),
   r        |-> 8 * Rex(i, 4),
   b        |-> 8 * Rex(i, 1),
   at       |-> s + OpAt(i)]

LEMMA HeadIs ==
  ASSUME NEW bytes \in Seq(Byte), NEW s \in 1..Len(bytes), NEW i, IsInstruction(i), Lies(bytes, s, i)
  PROVE  /\ s + OpAt(i) <= Len(bytes) => /\ HeadAt(bytes, s) = HeadOf(i, s)
                                         /\ ByteAt(bytes, s + OpAt(i)) = i.op[1]
         /\ s + OpAt(i) > Len(bytes) => ByteAt(bytes, HeadAt(bytes, s).at) = 0
<1> DEFINE n == PrefixCount(i)
           L == Len(bytes)
           past == CHOOSE p \in s..(Len(bytes) + 1) : Stopped(bytes, s, p)
           rex == IF ByteAt(bytes, past) \div 16 = 4 THEN bytes[past] % 16 ELSE 0
           at == IF ByteAt(bytes, past) \div 16 = 4 THEN past + 1 ELSE past
<1>1. HeadAt(bytes, s) = [prefixes |-> {bytes[q] : q \in s..(past - 1)},
                          wide     |-> rex \div 8 = 1,
                          r        |-> 8 * ((rex \div 4) % 2),
                          b        |-> 8 * (rex % 2),
                          at       |-> at]
    BY DEF HeadAt, Stopped
<1>2. /\ n \in Nat /\ L \in Nat /\ i.prefixes \in Seq(PrefixBytes) /\ s \in Nat \ {0}
      /\ (i.rex = << >> /\ RexCount(i) = 0) \/ (RexCount(i) = 1 /\ i.rex # << >> /\ i.rex[1] \in 0..15)
      /\ DOMAIN i.prefixes = 1..n /\ OpAt(i) = n + RexCount(i)
    <2>1. i.prefixes \in Seq(KnownPrefixes) /\ KnownPrefixes = PrefixBytes
        BY PartsAre DEF KnownPrefixes, PrefixBytes
    <2>2. (i.rex = << >> /\ Len(i.rex) = 0) \/ (Len(i.rex) = 1 /\ i.rex # << >> /\ i.rex[1] \in 0..15)
        BY PartsAre
    <2>3. n \in Nat /\ L \in Nat /\ s \in Nat \ {0}
        BY CountsAre
    <2>4. DOMAIN i.prefixes = 1..n
        BY <2>1 DEF PrefixCount
    <2> HIDE DEF n, L
    <2> QED BY <2>1, <2>2, <2>3, <2>4 DEF RexCount, OpAt, n
<1>3. /\ \A j \in 1..n : s + j - 1 <= L => bytes[s + j - 1] = i.prefixes[j]
      /\ RexCount(i) = 1 /\ s + n <= L => bytes[s + n] = 64 + i.rex[1]
      /\ s + OpAt(i) <= L => bytes[s + OpAt(i)] = i.op[1]
    <2>1. /\ \A j \in 1..n : s + j - 1 <= L => bytes[s + j - 1] = i.prefixes[j]
          /\ RexCount(i) = 1 /\ s + n <= L => bytes[s + n] = 64 + i.rex[1]
          /\ \A j \in 1..OpCount(i) : s + OpAt(i) + j - 1 <= Len(bytes) => bytes[s + OpAt(i) + j - 1] = i.op[j]
        BY <1>2, LiesParts
    <2>2. 1 \in 1..OpCount(i) /\ s + OpAt(i) + 1 - 1 = s + OpAt(i)
        <3>1. OpCount(i) \in {1, 2}
            BY CountsAre
        <3>2. OpAt(i) \in Nat
            BY PlacesAre
        <3> QED BY <3>1, <3>2
    <2> QED BY <2>1, <2>2
<1>4. \A q \in s..(s + n - 1) : q <= L => bytes[q] \in PrefixBytes
    <2>1. ASSUME NEW q \in s..(s + n - 1), q <= L PROVE bytes[q] \in PrefixBytes
        <3>1. q - s + 1 \in 1..n /\ s + (q - s + 1) - 1 = q
            BY <1>2
        <3>2. bytes[q] = i.prefixes[q - s + 1]
            BY <1>3, <2>1, <3>1
        <3>3. i.prefixes[q - s + 1] \in PrefixBytes
            BY <1>2, <3>1
        <3> QED BY <3>2, <3>3
    <2> QED BY <2>1
<1>5. i.op[1] \in Byte /\ i.op[1] \notin PrefixBytes /\ i.op[1] \notin 64..79
    BY PartsAre DEF IsInstruction, PrefixBytes, KnownPrefixes
<1>6. CASE s + n > L
    <2>1. Stopped(bytes, s, L + 1)
        <3>1. \A q \in s..((L + 1) - 1) : q \in s..(s + n - 1) /\ q <= L
            BY <1>2, <1>6
        <3> QED BY <1>4, <3>1 DEF Stopped
    <2>2. past = L + 1
        <3>1. L + 1 \in s..(Len(bytes) + 1)
            BY <1>2
        <3> QED BY <2>1, <3>1, StopsAt
    <2>3. ByteAt(bytes, L + 1) = 0
        BY DEF ByteAt
    <2>4. at = L + 1
        <3> HIDE DEF past, L
        <3> QED BY <2>2, <2>3
    <2>5. ~(s + OpAt(i) <= L)
        BY <1>2, <1>6 DEF OpAt
    <2> QED BY <1>1, <2>3, <2>4, <2>5
<1>7. CASE s + n <= L
    <2>1. bytes[s + n] \notin PrefixBytes
        <3>1. CASE RexCount(i) = 1
            <4>1. bytes[s + n] = 64 + i.rex[1] /\ i.rex[1] \in 0..15
                BY <1>2, <1>3, <1>7, <3>1
            <4> QED BY <4>1, RexIs
        <3>2. CASE RexCount(i) = 0
            <4>1. s + OpAt(i) = s + n
                BY <1>2, <3>2 DEF OpAt
            <4> QED BY <1>3, <1>5, <1>7, <4>1
        <3> QED BY <1>2, <3>1, <3>2
    <2>2. past = s + n
        <3>1. \A q \in s..((s + n) - 1) : q \in s..(s + n - 1) /\ q <= L
            BY <1>2, <1>7
        <3>2. Stopped(bytes, s, s + n)
            BY <1>4, <2>1, <3>1 DEF Stopped
        <3>3. s + n \in s..(Len(bytes) + 1)
            BY <1>2, <1>7
        <3> QED BY <3>2, <3>3, StopsAt
    <2>3. {bytes[q] : q \in s..(past - 1)} = ToSet(i.prefixes)
        <3>1. DOMAIN i.prefixes = 1..n
            BY <1>2, Zenon
        <3>2. ASSUME NEW q \in s..(s + n - 1) PROVE bytes[q] \in ToSet(i.prefixes)
            <4>1. q - s + 1 \in 1..n /\ s + (q - s + 1) - 1 = q /\ q <= L
                BY <1>2, <1>7
            <4>2. bytes[q] = i.prefixes[q - s + 1]
                BY <1>3, <4>1
            <4> QED BY <3>1, <4>1, <4>2 DEF ToSet
        <3>3. ASSUME NEW j \in 1..n PROVE \E q \in s..(s + n - 1) : bytes[q] = i.prefixes[j]
            <4>1. s + j - 1 \in s..(s + n - 1) /\ s + j - 1 <= L
                BY <1>2, <1>7
            <4> QED BY <1>3, <4>1
        <3> HIDE DEF n, past
        <3>4. ToSet(i.prefixes) = {i.prefixes[j] : j \in 1..n}
            BY <3>1 DEF ToSet
        <3>5. s..(past - 1) = s..(s + n - 1)
            BY <1>2, <2>2
        <3> DEFINE Skipped == s..(past - 1)
        <3>6. Skipped = s..(s + n - 1)
            BY <3>5
        <3> HIDE DEF Skipped
        <3>7. {bytes[q] : q \in Skipped} = ToSet(i.prefixes)
            BY <3>2, <3>3, <3>4, <3>6
        <3> QED BY <3>7 DEF Skipped
    <2>4. s + n \in DOMAIN bytes
        BY <1>2, <1>7
    <2>5. CASE RexCount(i) = 1
        <3>1. bytes[past] = 64 + i.rex[1] /\ ByteAt(bytes, past) = 64 + i.rex[1]
            BY <1>3, <1>7, <2>2, <2>4, <2>5 DEF ByteAt
        <3>2. i.rex[1] \in 0..15 /\ i.rex # << >>
            BY <1>2, <2>5
        <3>3. rex = i.rex[1] /\ at = s + n + 1
            <4>1. (64 + i.rex[1]) \div 16 = 4 /\ (64 + i.rex[1]) % 16 = i.rex[1]
                BY <3>2, RexIs
            <4> HIDE DEF past
            <4> QED BY <2>2, <3>1, <4>1
        <3>4. OpAt(i) = n + 1 /\ s + OpAt(i) = s + n + 1
            BY <1>2, <2>5 DEF OpAt
        <3>5. Wide(i) = (rex \div 8 = 1) /\ Rex(i, 4) = (rex \div 4) % 2 /\ Rex(i, 1) = rex % 2
            <4>1. (i.rex[1] \div 8) % 2 = i.rex[1] \div 8
                BY <3>2, RexIs
            <4>2. i.rex[1] \div 1 = i.rex[1]
                BY <3>2
            <4> HIDE DEF rex
            <4> QED BY <3>2, <3>3, <4>1, <4>2 DEF Wide, Rex
        <3>6. s + OpAt(i) <= L => HeadAt(bytes, s) = HeadOf(i, s) /\ ByteAt(bytes, s + OpAt(i)) = i.op[1]
            <4>1. s + OpAt(i) <= L => ByteAt(bytes, s + OpAt(i)) = i.op[1]
                <5>1. s + OpAt(i) <= L => s + OpAt(i) \in DOMAIN bytes
                    BY <1>2, <3>4
                <5> QED BY <1>3, <5>1 DEF ByteAt
            <4> HIDE DEF rex, at, past, n
            <4>2. HeadAt(bytes, s) = HeadOf(i, s)
                BY <1>1, <2>3, <3>3, <3>4, <3>5 DEF HeadOf
            <4> QED BY <4>1, <4>2
        <3>7. s + OpAt(i) > L => ByteAt(bytes, HeadAt(bytes, s).at) = 0
            <4>1. s + OpAt(i) > L => s + n + 1 \notin DOMAIN bytes
                BY <1>2, <3>4
            <4>2. HeadAt(bytes, s).at = s + n + 1
                BY <1>1, <3>3
            <4> QED BY <4>1, <4>2 DEF ByteAt
        <3> QED BY <3>6, <3>7
    <2>6. CASE RexCount(i) = 0
        <3>1. i.rex = << >> /\ OpAt(i) = n
            BY <1>2, <2>6 DEF OpAt
        <3>2. bytes[past] = i.op[1] /\ ByteAt(bytes, past) = i.op[1] /\ ByteAt(bytes, s + OpAt(i)) = i.op[1]
            BY <1>3, <1>7, <2>2, <2>4, <3>1 DEF ByteAt
        <3>3. i.op[1] \div 16 # 4
            BY <1>5, NotRex
        <3>4. rex = 0 /\ at = s + n
            <4> HIDE DEF past
            <4> QED BY <2>2, <3>2, <3>3
        <3>5. Wide(i) = (rex \div 8 = 1) /\ Rex(i, 4) = (rex \div 4) % 2 /\ Rex(i, 1) = rex % 2
            <4> HIDE DEF rex
            <4> QED BY <3>1, <3>4 DEF Wide, Rex
        <3> HIDE DEF rex, at, past, n
        <3>6. HeadAt(bytes, s) = HeadOf(i, s)
            BY <1>1, <2>3, <3>1, <3>4, <3>5 DEF HeadOf
        <3>7. ~(s + OpAt(i) > L)
            BY <1>2, <1>7, <3>1
        <3> QED BY <3>2, <3>6, <3>7
    <2> QED BY <1>2, <2>5, <2>6
<1> QED BY <1>2, <1>6, <1>7

-----------------------------------------------------------------------------
(* Its operand, and the member that the operand names. *)

LEMMA BitsAre ==
  ASSUME NEW i, IsInstruction(i), NEW bit \in {1, 2, 4, 8}
  PROVE  Rex(i, bit) \in {0, 1}
<1>1. CASE i.rex = << >>
    BY <1>1 DEF Rex
<1>2. CASE i.rex # << >>
    <2>1. i.rex[1] \in 0..15
        BY <1>2, PartsAre
    <2>2. \A n \in 0..15 : (n \div bit) % 2 \in {0, 1}
        BY SMT
    <2> QED BY <1>2, <2>1, <2>2 DEF Rex
<1> QED BY <1>1, <1>2

(* ModRM and SIB as the analysis reads them. *)
LEMMA OperandIs ==
  ASSUME NEW bytes \in Seq(Byte), NEW s \in Nat \ {0}, NEW i, IsInstruction(i), Lies(bytes, s, i),
         i.modrm # << >>, s + ModRMAt(i) <= Len(bytes)
  PROVE  LET o == Operand(bytes, HeadOf(i, s), s + ModRMAt(i))
         IN  /\ o.mod = i.modrm[1].mod /\ o.ext = i.modrm[1].reg /\ o.reg = RegOperand(i)
             /\ o.rip = (i.modrm[1].mod = 0 /\ i.modrm[1].rm = 5)
             /\ o.next = s + DispAt(i)
             /\ ~HasSib(i) => o.base = RmOperand(i)
             /\ HasSib(i) /\ s + SibAt(i) <= Len(bytes) => o.base = i.sib[1].base + 8 * Rex(i, 1)
<1> DEFINE m == s + ModRMAt(i)
           v == ByteAt(bytes, m)
           head == HeadOf(i, s)
           sib == v \div 64 # 3 /\ v % 8 = 4
           o == Operand(bytes, head, m)
<1>1. /\ i.modrm[1].mod \in 0..3 /\ i.modrm[1].reg \in 0..7 /\ i.modrm[1].rm \in 0..7
      /\ ModRMCount(i) = 1
    BY PartsAre DEF ModRMCount
<1>2. m \in DOMAIN bytes /\ m \in Nat /\ ModRMAt(i) \in Nat /\ SibAt(i) = ModRMAt(i) + 1 /\ DispAt(i) = SibAt(i) + SibCount(i)
    BY <1>1, PlacesAre DEF SibAt, DispAt
<1>3. v = 64 * i.modrm[1].mod + 8 * i.modrm[1].reg + i.modrm[1].rm
    BY <1>1, <1>2, LiesParts DEF ByteAt
<1>4. v \div 64 = i.modrm[1].mod /\ (v \div 8) % 8 = i.modrm[1].reg /\ v % 8 = i.modrm[1].rm
    <2>1. PICK x \in 0..3, r \in 0..7, b \in 0..7 : i.modrm[1].mod = x /\ i.modrm[1].reg = r /\ i.modrm[1].rm = b
        BY <1>1
    <2>2. (64 * x + 8 * r + b) \div 64 = x /\ ((64 * x + 8 * r + b) \div 8) % 8 = r /\ (64 * x + 8 * r + b) % 8 = b
        BY SplitByte
    <2>3. v = 64 * x + 8 * r + b
        BY <1>3, <2>1
    <2> HIDE DEF v
    <2> QED BY <2>1, <2>2, <2>3
<1> HIDE DEF v
<1>5. sib = HasSib(i)
    BY <1>4 DEF HasSib, HasMemory
<1>6. /\ o.mod = v \div 64 /\ o.ext = (v \div 8) % 8 /\ o.reg = ((v \div 8) % 8) + head.r
      /\ o.base = (IF sib THEN ByteAt(bytes, m + 1) % 8 ELSE v % 8) + head.b
      /\ o.rip = (v \div 64 = 0 /\ v % 8 = 5)
      /\ o.next = IF sib THEN m + 2 ELSE m + 1
    BY DEF Operand, v
<1>7. head.r = 8 * Rex(i, 4) /\ head.b = 8 * Rex(i, 1)
    BY DEF HeadOf
<1> HIDE DEF sib, o, head
<1>8. o.next = s + DispAt(i)
    <2>1. SibCount(i) = IF HasSib(i) THEN 1 ELSE 0
        BY PartsAre DEF SibCount
    <2>2. CASE HasSib(i)
        <3>1. DispAt(i) = ModRMAt(i) + 2 /\ o.next = m + 2
            BY <1>2, <1>5, <1>6, <2>1, <2>2
        <3> QED BY <1>2, <3>1
    <2>3. CASE ~HasSib(i)
        <3>1. DispAt(i) = ModRMAt(i) + 1 /\ o.next = m + 1
            BY <1>2, <1>5, <1>6, <2>1, <2>3
        <3> QED BY <1>2, <3>1
    <2> QED BY <2>2, <2>3
<1>9. ~HasSib(i) => o.base = RmOperand(i)
    BY <1>4, <1>5, <1>6, <1>7 DEF RmOperand
<1>10. HasSib(i) /\ s + SibAt(i) <= Len(bytes) => o.base = i.sib[1].base + 8 * Rex(i, 1)
    <2> SUFFICES ASSUME HasSib(i), s + SibAt(i) <= Len(bytes) PROVE o.base = i.sib[1].base + 8 * Rex(i, 1)
        OBVIOUS
    <2> DEFINE w == ByteAt(bytes, m + 1)
    <2>1. SibCount(i) = 1 /\ i.sib[1].scale \in 0..3 /\ i.sib[1].index \in 0..7 /\ i.sib[1].base \in 0..7
        BY PartsAre DEF SibCount
    <2>2. m + 1 = s + SibAt(i) /\ m + 1 \in DOMAIN bytes
        BY <1>2
    <2>3. w = 64 * i.sib[1].scale + 8 * i.sib[1].index + i.sib[1].base
        BY <2>1, <2>2, LiesParts DEF ByteAt
    <2>4. w % 8 = i.sib[1].base
        <3>1. PICK x \in 0..3, r \in 0..7, b \in 0..7 : i.sib[1].scale = x /\ i.sib[1].index = r /\ i.sib[1].base = b
            BY <2>1
        <3>2. (64 * x + 8 * r + b) % 8 = b
            BY LowestBits, Zenon
        <3>3. w = 64 * x + 8 * r + b
            BY <2>3, <3>1
        <3> HIDE DEF w
        <3> QED BY <3>1, <3>2, <3>3
    <2> QED BY <1>5, <1>6, <1>7, <2>4
<1>11. o.reg = RegOperand(i)
    BY <1>4, <1>6, <1>7 DEF RegOperand
<1> QED BY <1>4, <1>6, <1>8, <1>9, <1>10, <1>11 DEF o, head

(* A ModRM byte behind the end. *)
LEMMA OperandGone ==
  ASSUME NEW bytes \in Seq(Byte), NEW head, NEW m \in Nat, m > Len(bytes)
  PROVE  LET o == Operand(bytes, head, m)
         IN  o.mod = 0 /\ o.ext = 0 /\ o.rip = FALSE /\ o.next = m + 1
<1> DEFINE v == ByteAt(bytes, m)
<1>1. v = 0
    BY DEF ByteAt
<1>2. v \div 64 = 0 /\ (v \div 8) % 8 = 0 /\ v % 8 = 0
    <2> HIDE DEF v
    <2> QED BY <1>1
<1> HIDE DEF v
<1> DEFINE o == Operand(bytes, head, m)
           sib == v \div 64 # 3 /\ v % 8 = 4
<1>3. /\ o.mod = v \div 64 /\ o.ext = (v \div 8) % 8 /\ o.rip = (v \div 64 = 0 /\ v % 8 = 5)
      /\ o.next = IF sib THEN m + 2 ELSE m + 1
    BY DEF Operand, v
<1>4. ~(v \div 64 = 0 /\ v % 8 = 5) /\ ~sib
    BY <1>2
<1> HIDE DEF o, sib
<1>5. o.rip = FALSE
    BY <1>3, <1>4, Zenon
<1>6. o.next = m + 1 /\ o.mod = 0 /\ o.ext = 0
    BY <1>2, <1>3, <1>4
<1> QED BY <1>5, <1>6 DEF o

-----------------------------------------------------------------------------
LEMMA LongDisplacement ==
  ASSUME NEW a \in Byte, NEW b \in Byte, NEW c \in Byte, NEW d \in Byte
  PROVE  LET v == a + 256 * b + 65536 * c + 16777216 * Signed(d)
         IN  {v} \cap 1..(MaxOffset - 1)
               = IF c = 0 /\ d = 0 THEN {a + 256 * b} \cap 1..(MaxOffset - 1) ELSE {}
BY SMT DEF Byte, Signed, MaxOffset

LEMMA ShortDisplacement ==
  ASSUME NEW a \in Byte PROVE {a} \cap 1..127 = {Signed(a)} \cap 1..(MaxOffset - 1)
BY SMT DEF Byte, Signed, MaxOffset

LEMMA ElementsAre == \A row \in Seq(Byte) : \A j \in 1..Len(row) : row[j] \in Byte
OBVIOUS

(* The member that is read off an operand is its displacement, if the operand is there. *)
LEMMA MemberAtIs ==
  ASSUME NEW bytes \in Seq(Byte), NEW s \in Nat \ {0}, NEW i, IsInstruction(i), Lies(bytes, s, i),
         HasMemory(i), ~Relative(i), ~Baseless(i),
         NEW o, o.mod = i.modrm[1].mod, o.next = s + DispAt(i)
  PROVE  /\ o.next + DispSize(o) = s + OperandLength(i)
         /\ MemberAt(bytes, o) = IF s + OperandLength(i) - 1 <= Len(bytes)
                                 THEN {Displacement(i)} \cap 1..(MaxOffset - 1) ELSE {}
<1> DEFINE p == s + DispAt(i)
           d == i.disp
<1>1. /\ DispAt(i) \in Nat /\ p \in Nat \ {0} /\ OperandLength(i) \in Nat
      /\ DispAt(i) + DispCount(i) = OperandLength(i) /\ DispCount(i) \in Nat /\ Len(bytes) \in Nat
    BY PlacesAre, CountsAre
<1>2. i.modrm[1].mod \in {0, 1, 2} /\ d \in Seq(Byte)
    <2>1. i.modrm # << >> /\ i.modrm[1].mod # 3
        BY DEF HasMemory
    <2>2. i.modrm[1].mod \in 0..3 /\ i.disp \in Seq(Byte)
        BY <2>1, PartsAre
    <2> QED BY <2>1, <2>2
<1>3. DispCount(i) = DispSize(o) /\ Len(d) = DispSize(o)
    <2>1. Len(i.disp) = DispLength(i)
        BY DEF IsInstruction
    <2>2. DispLength(i) = DispSize(o)
        BY <1>2 DEF DispLength, DispSize
    <2> QED BY <2>1, <2>2 DEF DispCount
<1>4. o.next + DispSize(o) = s + OperandLength(i)
    BY <1>1, <1>3
<1>5. p + DispSize(o) - 1 > Len(bytes) <=> ~(s + OperandLength(i) - 1 <= Len(bytes))
    BY <1>1, <1>3, <1>4
<1>6. \A j \in 1..Len(d) : p + j - 1 <= Len(bytes) => bytes[p + j - 1] = d[j]
    <2>1. \A j \in 1..DispCount(i) : s + DispAt(i) + j - 1 <= Len(bytes) => bytes[s + DispAt(i) + j - 1] = i.disp[j]
        BY LiesParts
    <2> QED BY <1>3, <2>1
<1> HIDE DEF p, d
<1>7. CASE ~(s + OperandLength(i) - 1 <= Len(bytes))
    BY <1>4, <1>5, <1>7 DEF MemberAt, p
<1>8. CASE s + OperandLength(i) - 1 <= Len(bytes)
    <2>0. p + DispSize(o) - 1 <= Len(bytes) /\ o.next = p
        BY <1>1, <1>3, <1>4, <1>8 DEF p
    <2>1. CASE o.mod = 0
        <3>1. MemberAt(bytes, o) = {}
            BY <2>0, <2>1 DEF MemberAt
        <3>2. Displacement(i) = 0
            BY <1>3, <2>1 DEF Displacement, DispSize, d
        <3>3. {0} \cap 1..(MaxOffset - 1) = {}
            BY DEF MaxOffset
        <3> QED BY <1>4, <1>8, <3>1, <3>2, <3>3
    <2>2. CASE o.mod = 1
        <3>1. Len(d) = 1 /\ d[1] \in Byte /\ bytes[p] = d[1]
            <4>1. DispSize(o) = 1
                BY <2>2 DEF DispSize
            <4>2. Len(d) = 1 /\ d[1] \in Byte
                <5>1. Len(d) = 1
                    BY <1>3, <4>1
                <5>2. 1 \in 1..Len(d)
                    BY <5>1
                <5> QED BY <1>2, <5>1, <5>2, ElementsAre
            <4>3. p \in Nat /\ p <= Len(bytes) /\ p + 1 - 1 = p
                BY <1>1, <2>0, <4>1
            <4> QED BY <1>6, <4>2, <4>3
        <3>2. MemberAt(bytes, o) = {d[1]} \cap 1..127
            BY <1>1, <2>0, <2>2, <3>1 DEF MemberAt
        <3>3. Displacement(i) = Signed(d[1])
            BY <3>1 DEF Displacement, d
        <3> QED BY <1>4, <1>8, <3>1, <3>2, <3>3, ShortDisplacement
    <2>3. CASE o.mod = 2
        <3> DEFINE v == d[1] + 256 * d[2] + 65536 * d[3] + 16777216 * Signed(d[4])
        <3>1. /\ Len(d) = 4 /\ d[1] \in Byte /\ d[2] \in Byte /\ d[3] \in Byte /\ d[4] \in Byte
              /\ bytes[p] = d[1] /\ bytes[p + 1] = d[2] /\ bytes[p + 2] = d[3] /\ bytes[p + 3] = d[4]
            <4>1. DispSize(o) = 4
                BY <2>3 DEF DispSize
            <4>2. Len(d) = 4 /\ d[1] \in Byte /\ d[2] \in Byte /\ d[3] \in Byte /\ d[4] \in Byte
                <5>1. Len(d) = 4
                    BY <1>3, <4>1
                <5>2. 1 \in 1..Len(d) /\ 2 \in 1..Len(d) /\ 3 \in 1..Len(d) /\ 4 \in 1..Len(d)
                    BY <5>1
                <5> QED BY <1>2, <5>1, <5>2, ElementsAre
            <4>3. /\ p \in Nat /\ p + 3 <= Len(bytes)
                  /\ p + 1 - 1 = p /\ p + 2 - 1 = p + 1 /\ p + 3 - 1 = p + 2 /\ p + 4 - 1 = p + 3
                BY <1>1, <2>0, <4>1
            <4>4. \A j \in 1..4 : bytes[p + j - 1] = d[j]
                BY <1>6, <4>2, <4>3
            <4> QED BY <4>2, <4>3, <4>4
        <3>2. MemberAt(bytes, o)
                = IF d[3] = 0 /\ d[4] = 0 THEN {d[1] + 256 * d[2]} \cap 1..(MaxOffset - 1) ELSE {}
            <4>1. ~(o.next + DispSize(o) - 1 > Len(bytes)) /\ o.mod # 1
                BY <1>1, <1>3, <2>0, <2>3
            <4>2. bytes[o.next] = d[1] /\ bytes[o.next + 1] = d[2] /\ bytes[o.next + 2] = d[3] /\ bytes[o.next + 3] = d[4]
                BY <2>0, <3>1
            <4> QED BY <2>3, <4>1, <4>2, Zenon DEF MemberAt
        <3>3. Displacement(i) = v
            <4>1. Len(i.disp) = 4 /\ Len(i.disp) # 1
                BY <3>1 DEF d
            <4> QED BY <4>1, SMT DEF Displacement, d
        <3>4. {v} \cap 1..(MaxOffset - 1)
                = IF d[3] = 0 /\ d[4] = 0 THEN {d[1] + 256 * d[2]} \cap 1..(MaxOffset - 1) ELSE {}
            BY <3>1, LongDisplacement
        <3> HIDE DEF v
        <3> QED BY <1>4, <1>8, <3>2, <3>3, <3>4
    <2> QED BY <1>2, <2>1, <2>2, <2>3
<1> QED BY <1>7, <1>8

-----------------------------------------------------------------------------
(* What a round of the decoder has to come to: the state behind an instruction
   has the registers and the members that running it leaves.                  *)

OffsetsIn(accesses) == {a.offset : a \in accesses}
OffsetsFound(st) == OffsetsIn(st.accesses)
IsWhole(bytes, s, i) == s + OperandLength(i) - 1 <= Len(bytes)

(* One round, from the instruction at its place to the next. *)
Executed(bytes, s, i, st, r) ==
  /\ IsWhole(bytes, s, i) => /\ r.pos = s + Length(i)
                             /\ r.regs = AfterIt(i, st.regs)
                             /\ OffsetsFound(r) = OffsetsFound(st) \cup MembersOf(i, st.regs)
  /\ ~IsWhole(bytes, s, i) => r.pos > Len(bytes) /\ OffsetsFound(r) = OffsetsFound(st)

LEMMA MovedIs ==
  ASSUME NEW st, NEW pos, NEW regs, NEW accesses
  PROVE  /\ Moved(st, pos, regs, accesses).pos = pos /\ Moved(st, pos, regs, accesses).regs = regs
         /\ OffsetsFound(Moved(st, pos, regs, accesses)) = OffsetsFound(st) \cup OffsetsIn(accesses)
         /\ OffsetsFound(Moved(st, pos, regs, {})) = OffsetsFound(st)
BY DEF Moved, OffsetsFound, OffsetsIn

OperandOf(bytes, s, i) == Operand(bytes, HeadOf(i, s), s + ModRMAt(i))

LEMMA OperandAccess ==
  ASSUME NEW bytes \in Seq(Byte), NEW s \in Nat \ {0}, NEW i, IsInstruction(i), Lies(bytes, s, i),
         s + ModRMAt(i) <= Len(bytes), HasMemory(i), ~Relative(i), ~Baseless(i),
         NEW holders, Index(i) \cap holders = {}
  PROVE  /\ OperandOf(bytes, s, i).next + DispSize(OperandOf(bytes, s, i)) = s + OperandLength(i)
         /\ IsWhole(bytes, s, i) => Base(i) = {OperandOf(bytes, s, i).base}
         /\ \A size, kinds : OffsetsIn(Accessed(bytes, holders, OperandOf(bytes, s, i), size, kinds))
                               = IF IsWhole(bytes, s, i) THEN MembersOf(i, holders) ELSE {}
<1> DEFINE o == OperandOf(bytes, s, i)
<1>1. /\ o.mod = i.modrm[1].mod /\ o.next = s + DispAt(i)
      /\ ~HasSib(i) => o.base = RmOperand(i)
      /\ HasSib(i) /\ s + SibAt(i) <= Len(bytes) => o.base = i.sib[1].base + 8 * Rex(i, 1)
    BY OperandIs DEF HasMemory, OperandOf
<1> HIDE DEF o
<1>2. /\ o.next + DispSize(o) = s + OperandLength(i)
      /\ MemberAt(bytes, o) = IF s + OperandLength(i) - 1 <= Len(bytes)
                              THEN {Displacement(i)} \cap 1..(MaxOffset - 1) ELSE {}
    BY <1>1, MemberAtIs
<1>3. IsWhole(bytes, s, i) => Base(i) = {o.base}
    <2> SUFFICES ASSUME IsWhole(bytes, s, i) PROVE Base(i) = {o.base}
        OBVIOUS
    <2>1. HasSib(i) => s + SibAt(i) <= Len(bytes)
        <3>1. HasSib(i) => SibCount(i) = 1
            BY PartsAre DEF SibCount
        <3>2. /\ SibAt(i) \in Nat /\ DispAt(i) \in Nat /\ OperandLength(i) \in Nat /\ Len(bytes) \in Nat
              /\ (SibCount(i) = 1 => SibAt(i) + 1 <= DispAt(i)) /\ DispAt(i) <= OperandLength(i)
            BY PlacesAre
        <3> QED BY <3>1, <3>2 DEF IsWhole
    <2>2. CASE HasSib(i)
        BY <1>1, <2>1, <2>2 DEF Base
    <2>3. CASE ~HasSib(i)
        BY <1>1, <2>3 DEF Base, RmOperand
    <2> QED BY <2>2, <2>3
<1>4. ASSUME NEW size, NEW kinds
      PROVE  OffsetsIn(Accessed(bytes, holders, o, size, kinds))
               = IF IsWhole(bytes, s, i) THEN MembersOf(i, holders) ELSE {}
    <2> DEFINE D == IF o.base \in holders THEN MemberAt(bytes, o) ELSE {}
    <2>1. Accessed(bytes, holders, o, size, kinds) = {[offset |-> d, size |-> size, access |-> kinds] : d \in D}
        BY DEF Accessed
    <2>2. OffsetsIn(Accessed(bytes, holders, o, size, kinds)) = D
        <3> DEFINE A == Accessed(bytes, holders, o, size, kinds)
                   R(d) == [offset |-> d, size |-> size, access |-> kinds]
        <3> HIDE DEF D
        <3>1. A = {R(d) : d \in D} /\ \A d \in D : R(d).offset = d
            BY <2>1
        <3>2. {a.offset : a \in A} = D
            <4> HIDE DEF A, R
            <4> QED BY <3>1
        <3> QED BY <3>2 DEF OffsetsIn
    <2>3. CASE ~IsWhole(bytes, s, i)
        <3>1. D = {}
            BY <1>2, <2>3 DEF IsWhole
        <3> QED BY <2>2, <2>3, <3>1
    <2>4. CASE IsWhole(bytes, s, i)
        <3>1. (Base(i) \cup Index(i)) \cap holders = {} <=> o.base \notin holders
            BY <1>3, <2>4
        <3>2. MemberAt(bytes, o) = {Displacement(i)} \cap 1..(MaxOffset - 1)
            BY <1>2, <2>4 DEF IsWhole
        <3>3. D = MembersOf(i, holders)
            <4>1. CASE o.base \in holders
                BY <3>1, <3>2, <4>1 DEF MembersOf, Reached
            <4>2. CASE o.base \notin holders
                BY <3>1, <3>2, <4>2 DEF MembersOf, Reached
            <4> QED BY <4>1, <4>2
        <3> QED BY <2>2, <2>4, <3>3
    <2> QED BY <2>3, <2>4
<1> QED BY <1>2, <1>3, <1>4 DEF o

LEMMA OperandEnds ==
  ASSUME NEW bytes \in Seq(Byte), NEW s \in Nat \ {0}, NEW i, IsInstruction(i), Lies(bytes, s, i),
         s + ModRMAt(i) <= Len(bytes), HasMemory(i), ~Relative(i), ~Baseless(i)
  PROVE  /\ OperandOf(bytes, s, i).next + DispSize(OperandOf(bytes, s, i)) = s + OperandLength(i)
         /\ IsWhole(bytes, s, i) => Base(i) = {OperandOf(bytes, s, i).base}
<1>1. PICK none : none = {} /\ Index(i) \cap none = {}
    OBVIOUS
<1> QED BY <1>1, OperandAccess

(* Where the operand is none of memory, or one without a base, nothing is reached. *)
LEMMA NothingReached ==
  ASSUME NEW i, ~HasMemory(i) \/ Relative(i), NEW holders PROVE MembersOf(i, holders) = {}
<1>1. Base(i) = {}
    BY DEF Base
<1>2. Index(i) = {}
    BY DEF Index, HasSib, Relative
<1> QED BY <1>1, <1>2 DEF MembersOf, Reached

LEMMA OperandPlaces ==
  ASSUME NEW i, IsInstruction(i)
  PROVE  /\ i.modrm = << >> => OperandLength(i) = ModRMAt(i)
         /\ Direct(i) => OperandLength(i) = ModRMAt(i) + 1 /\ DispAt(i) = ModRMAt(i) + 1
         /\ Relative(i) => OperandLength(i) = DispAt(i) + 4
         /\ i.modrm # << >> => ModRMAt(i) + 1 <= OperandLength(i) /\ ModRMAt(i) + 1 <= DispAt(i)
         /\ Len(i.op) = 1 => ModRMAt(i) = OpAt(i) + 1
         /\ Len(i.op) = 2 => ModRMAt(i) = OpAt(i) + 2
<1>1. /\ OpAt(i) \in Nat /\ ModRMAt(i) \in Nat /\ SibAt(i) \in Nat /\ DispAt(i) \in Nat
      /\ DispAt(i) + DispCount(i) = OperandLength(i) /\ DispCount(i) \in Nat
      /\ ModRMCount(i) \in {0, 1} /\ SibCount(i) \in {0, 1}
    BY PlacesAre, CountsAre
<1>2. SibAt(i) = ModRMAt(i) + ModRMCount(i) /\ DispAt(i) = SibAt(i) + SibCount(i) /\ ModRMAt(i) = OpAt(i) + OpCount(i)
    BY DEF SibAt, DispAt, ModRMAt
<1>3. DispCount(i) = DispLength(i)
    BY DEF DispCount, IsInstruction
<1>4. /\ i.modrm = << >> => ModRMCount(i) = 0 /\ ~HasMemory(i) /\ ~HasSib(i)
      /\ i.modrm # << >> => ModRMCount(i) = 1
      /\ ~HasSib(i) => SibCount(i) = 0
    BY PartsAre DEF ModRMCount, SibCount, HasMemory, HasSib
<1>5. i.modrm = << >> => OperandLength(i) = ModRMAt(i)
    BY <1>1, <1>2, <1>3, <1>4 DEF DispLength
<1>6. Direct(i) => OperandLength(i) = ModRMAt(i) + 1 /\ DispAt(i) = ModRMAt(i) + 1
    BY <1>1, <1>2, <1>3, <1>4 DEF DispLength, Direct, HasMemory, HasSib
<1>7. Relative(i) => OperandLength(i) = DispAt(i) + 4
    BY <1>1, <1>3 DEF DispLength, Relative
<1>8. i.modrm # << >> => ModRMAt(i) + 1 <= OperandLength(i) /\ ModRMAt(i) + 1 <= DispAt(i)
    BY <1>1, <1>2, <1>4
<1>9. (Len(i.op) = 1 => ModRMAt(i) = OpAt(i) + 1) /\ (Len(i.op) = 2 => ModRMAt(i) = OpAt(i) + 2)
    BY <1>2 DEF OpCount
<1> QED BY <1>5, <1>6, <1>7, <1>8, <1>9

-----------------------------------------------------------------------------
(* Registers. *)

LEMMA OverwrittenIs ==
  ASSUME NEW i, i.op[1] \in OnBytes => Overwritten(i) = WholeOverwritten(i)
  PROVE  Overwritten(i) = WholeOverwritten(i)
<1>1. i.op[1] \notin OnBytes => Overwritten(i) = {r : r \in WholeOverwritten(i)}
    BY DEF Overwritten
<1> QED BY <1>1

LEMMA NoneOverwritten ==
  ASSUME NEW i, WholeOverwritten(i) = {} PROVE Overwritten(i) = {}
BY DEF Overwritten

LEMMA NothingCopied ==
  ASSUME NEW i, i.op[1] \notin {\h89, \h8B, \h8D}, NEW holders PROVE Copied(i, holders) = {}
BY DEF Copied

LEMMA StaysAsIs ==
  ASSUME NEW i, NEW holders, Untouched(i, holders), Copied(i, holders) = {}
  PROVE  AfterIt(i, holders) = holders
BY DEF AfterIt, Untouched

-----------------------------------------------------------------------------
(* Instructions with an operand: immediates and registers. *)

OperandOpcodes == WithOperand \ {\hF6, \hF7, \hFF}

LEMMA OpcodeSorts ==
  ASSUME NEW op \in OperandOpcodes
  PROVE  /\ op # \h0F /\ op # \h82 /\ op \notin \hB0..\hBF /\ op # \hE8 /\ op \notin \h50..\h5F
         /\ op \notin Accumulating
         /\ op \in Moves \cup Compares \cup Group1 \cup {\h8D, \h63}
         /\ op \in Compares \/ op \in IntoReg \/ op \in IntoRm
         /\ op \notin IntoReg \/ op \notin IntoRm
         /\ op \in Compares => op \notin IntoReg \cup IntoRm \cup Group1 \cup {\h8D}
         /\ op \in Group1 <=> op \in {\h80, \h81, \h83}
         /\ op \in Group1 <=> op \in IntoRm /\ op < \h88
         /\ op \in IntoRm => op \in Group1 \/ op \in {\h88, \h89}
         /\ op \in IntoReg => op \in {\h63, \h8A, \h8B, \h8D} /\ op \notin Group1
BY SMT DEF OperandOpcodes, WithOperand, Accumulating, Moves, Compares, Group1, IntoReg, IntoRm

LEMMA OperandImmediate ==
  ASSUME NEW i, IsInstruction(i), i.op[1] \in OperandOpcodes, IsFormed(i), ImmCount(i) # 2
  PROVE  ImmCount(i) = Immediate(i.op[1]) /\ Immediate(i.op[1]) \in Nat
<1> DEFINE op == i.op[1]
           word == \h66 \in ToSet(i.prefixes) /\ ~Wide(i)
<1>1. Len(i.imm) = ImmediateLength(i)
    BY DEF IsFormed
<1>2. op # \h0F /\ ~Jcc(i)
    BY OpcodeSorts DEF Jcc
<1>3. CASE op = \h81
    <2>1. op \in Full /\ op \notin Small
        BY <1>3, SMT DEF Full, Small
    <2>2. ImmediateLength(i) = IF word THEN 2 ELSE 4
        <3> DEFINE w == \h66 \in ToSet(i.prefixes) /\ ~Wide(i)
        <3>1. ImmediateLength(i) = CASE op \in Small -> 1
                 [] op \in Full -> IF w THEN 2 ELSE 4
                 [] op = \hF6 -> IF i.modrm[1].reg < 2 THEN 1 ELSE 0
                 [] op = \hF7 -> IF i.modrm[1].reg > 1 THEN 0 ELSE IF w THEN 2 ELSE 4
                 [] op \in \hB8..\hBF -> IF Wide(i) THEN 8 ELSE IF w THEN 2 ELSE 4
                 [] op = \hE8 \/ Jcc(i) -> 4
                 [] OTHER -> 0
            BY DEF ImmediateLength
        <3>2. op \notin Small /\ op # \hF6 /\ op # \hF7 /\ op \notin \hB8..\hBF /\ op # \hE8
            BY <1>3, SMT DEF Small
        <3> HIDE DEF op, w
        <3> QED BY <1>2, <2>1, <3>1, <3>2, Zenon DEF w
    <2> HIDE DEF word
    <2>3. Immediate(op) = 4
        BY <1>3 DEF Immediate
    <2> HIDE DEF op
    <2> QED BY <1>1, <2>2, <2>3 DEF ImmCount, op
<1>4. CASE op \in {\h80, \h83}
    <2>1. op \in Small /\ op # \h81 /\ op \in Group1
        BY <1>4, SMT DEF Small, Group1
    <2>2. ImmediateLength(i) = 1
        <3> DEFINE w == \h66 \in ToSet(i.prefixes) /\ ~Wide(i)
        <3>1. ImmediateLength(i) = CASE op \in Small -> 1
                 [] op \in Full -> IF w THEN 2 ELSE 4
                 [] op = \hF6 -> IF i.modrm[1].reg < 2 THEN 1 ELSE 0
                 [] op = \hF7 -> IF i.modrm[1].reg > 1 THEN 0 ELSE IF w THEN 2 ELSE 4
                 [] op \in \hB8..\hBF -> IF Wide(i) THEN 8 ELSE IF w THEN 2 ELSE 4
                 [] op = \hE8 \/ Jcc(i) -> 4
                 [] OTHER -> 0
            BY DEF ImmediateLength
        <3>2. op \notin Full /\ op # \hF6 /\ op # \hF7 /\ op \notin \hB8..\hBF /\ op # \hE8
            BY <1>4, SMT DEF Full
        <3> HIDE DEF op, w
        <3> QED BY <1>2, <2>1, <3>1, <3>2, Zenon
    <2> QED BY <1>1, <2>1, <2>2, Zenon DEF ImmCount, Immediate
<1>5. CASE op \notin {\h80, \h81, \h83}
    <2>1. /\ op \notin Small /\ op \notin Full /\ op # \hF6 /\ op # \hF7 /\ op \notin \hB8..\hBF /\ op # \hE8
          /\ op # \h81 /\ op \notin Group1
        BY <1>5, SMT DEF Small, Full, OperandOpcodes, WithOperand, Group1
    <2>2. ImmediateLength(i) = 0
        BY <1>2, <2>1, Zenon DEF ImmediateLength
    <2> QED BY <1>1, <2>1, <2>2, Zenon DEF ImmCount, Immediate
<1>6. Immediate(op) \in {0, 1, 4}
    BY DEF Immediate
<1> QED BY <1>3, <1>4, <1>5, <1>6

LEMMA IntoRegWrites ==
  ASSUME NEW i, i.op[1] \in OperandOpcodes, i.op[1] \in IntoReg PROVE WholeOverwritten(i) = {RegOperand(i)}
<1>1. /\ i.op[1] # \h0F /\ i.op[1] \notin IntoRm /\ i.op[1] \notin \hB0..\hBF
      /\ i.op[1] \notin \h50..\h57 /\ i.op[1] \notin \h58..\h5F /\ i.op[1] \notin Accumulating
      /\ i.op[1] # \hE8 /\ i.op[1] # \hFF /\ i.op[1] \notin {\hF6, \hF7}
    BY SMT DEF IntoReg, IntoRm, Accumulating
<1> QED BY <1>1, Zenon DEF WholeOverwritten

LEMMA IntoRmWrites ==
  ASSUME NEW i, i.op[1] \in OperandOpcodes, i.op[1] \in IntoRm
  PROVE  WholeOverwritten(i) = IF Direct(i) /\ ~(i.op[1] \in Group1 /\ i.modrm[1].reg = 7) THEN {RmOperand(i)} ELSE {}
<1>1. /\ i.op[1] # \h0F /\ i.op[1] \notin IntoReg /\ i.op[1] \notin \hB0..\hBF
      /\ i.op[1] \notin \h50..\h57 /\ i.op[1] \notin \h58..\h5F /\ i.op[1] \notin Accumulating
      /\ i.op[1] # \hE8 /\ i.op[1] # \hFF /\ i.op[1] \notin {\hF6, \hF7}
      /\ (i.op[1] \in Group1 <=> i.op[1] < \h88)
    BY SMT DEF IntoReg, IntoRm, Accumulating, Group1
<1> QED BY <1>1, Zenon DEF WholeOverwritten

LEMMA ComparesWrite ==
  ASSUME NEW i, i.op[1] \in Compares PROVE WholeOverwritten(i) = {}
<1>1. /\ i.op[1] # \h0F /\ i.op[1] \notin IntoReg /\ i.op[1] \notin IntoRm /\ i.op[1] \notin \hB0..\hBF
      /\ i.op[1] \notin \h50..\h57 /\ i.op[1] \notin \h58..\h5F /\ i.op[1] \notin Accumulating
      /\ i.op[1] # \hE8 /\ i.op[1] # \hFF /\ i.op[1] \notin {\hF6, \hF7}
    BY SMT DEF Compares, IntoReg, IntoRm, Accumulating
<1> QED BY <1>1, Zenon DEF WholeOverwritten

(* The registers that are taken to hold this, behind an instruction with an operand. *)
DirectRegs(i, H) ==
  LET op      == i.op[1]
      compare == op \in Compares \/ (op \in Group1 /\ i.modrm[1].reg = 7)
      writes   == op \in {\h88, \h89} \/ (op \in Group1 /\ i.modrm[1].reg # 7)
  IN  IF op \in {\h8A, \h8B} THEN Copy(H, RmOperand(i), RegOperand(i))
      ELSE IF op \in {\h88, \h89} THEN Copy(H, RegOperand(i), RmOperand(i))
      ELSE IF compare \/ op = \h8D THEN H
      ELSE H \ {IF writes THEN RmOperand(i) ELSE RegOperand(i)}

LoadedRegs(i, H, base) ==
  LET op      == i.op[1]
      compare == op \in Compares \/ (op \in Group1 /\ i.modrm[1].reg = 7)
      writes   == op \in {\h88, \h89} \/ (op \in Group1 /\ i.modrm[1].reg # 7)
      lea     == op = \h8D
  IN  IF writes \/ compare \/ (lea /\ (base \notin H \/ i.modrm[1].mod = 0)) THEN H ELSE H \ {RegOperand(i)}

LEMMA DirectRegsAre ==
  ASSUME NEW i, i.op[1] \in OperandOpcodes, Direct(i), NEW H, OperandFollowed(i, H)
  PROVE  DirectRegs(i, H) = AfterIt(i, H)
<1> DEFINE op == i.op[1]
<1>1. Overwritten(i) = WholeOverwritten(i)
    BY OverwrittenIs DEF OperandFollowed
<1>2. op # \h8D
    BY DEF OperandFollowed, OtherAddress, HasMemory, Direct
<1>3. CopiesWhole(i, H)
    BY DEF OperandFollowed
<1>4. CASE op \in {\h8A, \h8B}
    <2>1. WholeOverwritten(i) = {RegOperand(i)}
        BY <1>4, IntoRegWrites DEF IntoReg
    <2>2. DirectRegs(i, H) = Copy(H, RmOperand(i), RegOperand(i))
        BY <1>4 DEF DirectRegs
    <2>3. CASE op = \h8B /\ Wide(i)
        <3>1. Copied(i, H) = IF RmOperand(i) \in H THEN {RegOperand(i)} ELSE {}
            BY <2>3 DEF Copied
        <3> QED BY <1>1, <2>1, <2>2, <3>1 DEF Copy, AfterIt
    <2>4. CASE ~(op = \h8B /\ Wide(i))
        <3>1. RmOperand(i) \notin H /\ Copied(i, H) = {}
            BY <1>3, <1>4, <2>4 DEF CopiesWhole, Copied
        <3> QED BY <1>1, <2>1, <2>2, <3>1 DEF Copy, AfterIt
    <2> QED BY <2>3, <2>4
<1>5. CASE op \in {\h88, \h89}
    <2>1. WholeOverwritten(i) = {RmOperand(i)}
        <3>1. op \in IntoRm /\ op \notin Group1
            BY <1>5, SMT DEF IntoRm, Group1
        <3> QED BY <3>1, IntoRmWrites
    <2>2. DirectRegs(i, H) = Copy(H, RegOperand(i), RmOperand(i))
        BY <1>5 DEF DirectRegs
    <2>3. CASE op = \h89 /\ Wide(i)
        <3>1. Copied(i, H) = IF RegOperand(i) \in H THEN {RmOperand(i)} ELSE {}
            BY <2>3 DEF Copied
        <3> QED BY <1>1, <2>1, <2>2, <3>1 DEF Copy, AfterIt
    <2>4. CASE ~(op = \h89 /\ Wide(i))
        <3>1. RegOperand(i) \notin H /\ Copied(i, H) = {}
            BY <1>3, <1>5, <2>4 DEF CopiesWhole, Copied
        <3> QED BY <1>1, <2>1, <2>2, <3>1 DEF Copy, AfterIt
    <2> QED BY <2>3, <2>4
<1>6. CASE op \notin {\h88, \h89, \h8A, \h8B}
    <2>1. Copied(i, H) = {}
        BY <1>2, <1>6, NothingCopied
    <2>2. CASE op \in Compares
        <3>1. DirectRegs(i, H) = H
            BY <1>6, <2>2, Zenon DEF DirectRegs
        <3> QED BY <1>1, <2>1, <2>2, <3>1, ComparesWrite DEF AfterIt
    <2>3. CASE op \in Group1
        <3>1. op \in IntoRm
            BY <2>3, OpcodeSorts
        <3>2. WholeOverwritten(i) = IF i.modrm[1].reg = 7 THEN {} ELSE {RmOperand(i)}
            BY <2>3, <3>1, IntoRmWrites
        <3>3. DirectRegs(i, H) = IF i.modrm[1].reg = 7 THEN H ELSE H \ {RmOperand(i)}
            <4>1. op \notin Compares
                BY <2>3, OpcodeSorts
            <4> QED BY <1>2, <1>6, <2>3, <4>1 DEF DirectRegs
        <3> QED BY <1>1, <2>1, <3>2, <3>3 DEF AfterIt
    <2>4. CASE op \notin Compares /\ op \notin Group1
        <3>1. op \in IntoReg
            BY <1>6, <2>4, OpcodeSorts
        <3>2. WholeOverwritten(i) = {RegOperand(i)}
            BY <3>1, IntoRegWrites
        <3>3. DirectRegs(i, H) = H \ {RegOperand(i)}
            BY <1>2, <1>6, <2>4 DEF DirectRegs
        <3> QED BY <1>1, <2>1, <3>2, <3>3 DEF AfterIt
    <2> QED BY <2>2, <2>3, <2>4
<1> QED BY <1>4, <1>5, <1>6

LEMMA LoadedRegsAre ==
  ASSUME NEW i, i.op[1] \in OperandOpcodes, HasMemory(i), NEW H, OperandFollowed(i, H),
         NEW base, Base(i) = {base}
  PROVE  LoadedRegs(i, H, base) = AfterIt(i, H)
<1> DEFINE op == i.op[1]
<1>1. Overwritten(i) = WholeOverwritten(i)
    BY OverwrittenIs DEF OperandFollowed
<1>2. ~Direct(i)
    BY DEF HasMemory, Direct
<1>3. op # \h8D => Copied(i, H) = {}
    BY <1>2 DEF Copied
<1>4. CASE op \in Compares
    <2>1. LoadedRegs(i, H, base) = H
        BY <1>4 DEF LoadedRegs
    <2>2. WholeOverwritten(i) = {} /\ op # \h8D
        BY <1>4, ComparesWrite, OpcodeSorts
    <2> QED BY <1>1, <1>3, <2>1, <2>2 DEF AfterIt
<1>5. CASE op \in IntoRm
    <2>1. LoadedRegs(i, H, base) = H
        <3>1. op \in Group1 \/ op \in {\h88, \h89}
            BY <1>5, OpcodeSorts
        <3> QED BY <3>1 DEF LoadedRegs
    <2>2. WholeOverwritten(i) = {}
        BY <1>2, <1>5, IntoRmWrites
    <2>3. op # \h8D
        BY <1>5, SMT DEF IntoRm
    <2> QED BY <1>1, <1>3, <2>1, <2>2, <2>3 DEF AfterIt
<1>6. CASE op \in IntoReg
    <2>1. WholeOverwritten(i) = {RegOperand(i)}
        BY <1>6, IntoRegWrites
    <2>2. op \notin Compares /\ op \notin Group1 /\ op \notin {\h88, \h89}
        BY <1>6, OpcodeSorts
    <2>3. CASE op # \h8D
        <3>1. LoadedRegs(i, H, base) = H \ {RegOperand(i)}
            BY <2>2, <2>3 DEF LoadedRegs
        <3> QED BY <1>1, <1>3, <2>1, <2>3, <3>1 DEF AfterIt
    <2>4. CASE op = \h8D
        <3>1. OtherAddress(i, H)
            BY <2>4 DEF OperandFollowed
        <3>2. Copied(i, H) = {}
            BY <3>1 DEF OtherAddress
        <3>3. LoadedRegs(i, H, base) = IF base \notin H \/ i.modrm[1].mod = 0 THEN H ELSE H \ {RegOperand(i)}
            BY <2>2, <2>4 DEF LoadedRegs
        <3>4. CASE base \notin H \/ i.modrm[1].mod = 0
            <4>1. Untouched(i, H)
                BY <3>1, <3>4 DEF OtherAddress
            <4> QED BY <3>2, <3>3, <3>4, <4>1 DEF AfterIt, Untouched
        <3>5. CASE ~(base \notin H \/ i.modrm[1].mod = 0)
            BY <1>1, <2>1, <3>2, <3>3, <3>5 DEF AfterIt
        <3> QED BY <3>4, <3>5
    <2> QED BY <2>3, <2>4
<1> QED BY <1>4, <1>5, <1>6, OpcodeSorts

-----------------------------------------------------------------------------
(* A round over an instruction with an operand. *)

OneByteCase(bytes, i, st, o, r, imm) ==
  /\ o.mod = 3 /\ o.ext = i.modrm[1].reg /\ o.reg = RegOperand(i) /\ o.base = RmOperand(i)
       => r = Moved(st, o.next + imm, DirectRegs(i, st.regs), {})
  /\ o.mod # 3 /\ o.rip => r = Moved(st, o.next + 4 + imm, st.regs, {})
  /\ o.mod # 3 /\ ~o.rip => \E regs, size, kinds :
       /\ o.ext = i.modrm[1].reg /\ o.reg = RegOperand(i) /\ o.mod = i.modrm[1].mod
            => regs = LoadedRegs(i, st.regs, o.base)
       /\ r = Moved(st, o.next + DispSize(o) + imm, regs, Accessed(bytes, st.regs, o, size, kinds))

LEMMA OneByteIs ==
  ASSUME NEW bytes, NEW s, NEW i, NEW st, i.op[1] \in OperandOpcodes
  PROVE  OneByteCase(bytes, i, st, Operand(bytes, HeadOf(i, s), HeadOf(i, s).at + 1),
                     OneByte(bytes, st, HeadOf(i, s), i.op[1]), Immediate(i.op[1]))
<1> DEFINE head == HeadOf(i, s)
           op == i.op[1]
           o == Operand(bytes, head, head.at + 1)
           r == OneByte(bytes, st, head, op)
           imm == Immediate(op)
           compare == op \in Compares \/ (op \in Group1 /\ o.ext = 7)
           writes   == op \in {\h88, \h89} \/ (op \in Group1 /\ o.ext # 7)
           lea     == op = \h8D
           kinds   == IF lea THEN {"ref"} ELSE IF compare THEN {"compare", "read"}
                      ELSE IF writes THEN {"write"} ELSE {"read"}
           direct  == IF op \in {\h8A, \h8B} THEN Copy(st.regs, o.base, o.reg)
                      ELSE IF op \in {\h88, \h89} THEN Copy(st.regs, o.reg, o.base)
                      ELSE IF compare \/ lea THEN st.regs
                      ELSE st.regs \ {IF writes THEN o.base ELSE o.reg}
           loaded  == IF writes \/ compare \/ (lea /\ (o.base \notin st.regs \/ o.mod = 0)) THEN st.regs
                      ELSE st.regs \ {o.reg}
<1>1. r = IF o.mod = 3 THEN Moved(st, o.next + imm, direct, {})
          ELSE IF o.rip THEN Moved(st, o.next + 4 + imm, st.regs, {})
          ELSE Moved(st, o.next + DispSize(o) + imm, loaded,
                Accessed(bytes, st.regs, o, OperandSize(head, op), kinds))
    BY DEF OneByte
<1>2. o.ext = i.modrm[1].reg /\ o.reg = RegOperand(i) /\ o.base = RmOperand(i) => direct = DirectRegs(i, st.regs)
    BY DEF DirectRegs
<1>3. o.ext = i.modrm[1].reg /\ o.reg = RegOperand(i) /\ o.mod = i.modrm[1].mod => loaded = LoadedRegs(i, st.regs, o.base)
    BY DEF LoadedRegs
<1> HIDE DEF o, r, imm, direct, loaded, kinds
<1>4. o.mod # 3 /\ ~o.rip => r = Moved(st, o.next + DispSize(o) + imm, loaded,
                Accessed(bytes, st.regs, o, OperandSize(head, op), kinds))
    BY <1>1
<1>5. o.mod # 3 /\ ~o.rip => \E regs, size, k :
                  /\ o.ext = i.modrm[1].reg /\ o.reg = RegOperand(i) /\ o.mod = i.modrm[1].mod
                       => regs = LoadedRegs(i, st.regs, o.base)
                  /\ r = Moved(st, o.next + DispSize(o) + imm, regs, Accessed(bytes, st.regs, o, size, k))
    BY <1>3, <1>4, Zenon
<1>6. o.mod = 3 /\ o.ext = i.modrm[1].reg /\ o.reg = RegOperand(i) /\ o.base = RmOperand(i)
                  => r = Moved(st, o.next + imm, DirectRegs(i, st.regs), {})
    BY <1>1, <1>2
<1>7. o.mod # 3 /\ o.rip => r = Moved(st, o.next + 4 + imm, st.regs, {})
    BY <1>1
<1>8. OneByteCase(bytes, i, st, o, r, imm)
    BY <1>5, <1>6, <1>7 DEF OneByteCase
<1> QED BY <1>8 DEF o, r, imm

LEMMA OneByteRound ==
  ASSUME NEW bytes \in Seq(Byte), NEW s \in Nat \ {0}, NEW i, IsInstruction(i), Lies(bytes, s, i),
         s + OpAt(i) <= Len(bytes), i.op[1] \in OperandOpcodes,
         NEW st, IsFormed(i), Index(i) \cap st.regs = {}, ~Baseless(i), ImmCount(i) # 2, OperandFollowed(i, st.regs)
  PROVE  Executed(bytes, s, i, st, OneByte(bytes, st, HeadOf(i, s), i.op[1]))
<1> DEFINE m == s + ModRMAt(i)
           o == Operand(bytes, HeadOf(i, s), HeadOf(i, s).at + 1)
           r == OneByte(bytes, st, HeadOf(i, s), i.op[1])
           imm == Immediate(i.op[1])
<1>1. i.op[1] # \h0F /\ i.modrm # << >>
    <2>1. i.op[1] \in WithOperand
        BY DEF OperandOpcodes
    <2>2. i.modrm # << >>
        BY <2>1, Zenon DEF IsInstruction
    <2> QED BY <2>2, OpcodeSorts
<1>2. ModRMAt(i) = OpAt(i) + 1
    BY <1>1, PartsAre, OperandPlaces
<1>3. HeadOf(i, s).at + 1 = m /\ o = Operand(bytes, HeadOf(i, s), m)
    <2>1. HeadOf(i, s).at = s + OpAt(i)
        BY DEF HeadOf
    <2>2. OpAt(i) \in Nat
        BY PlacesAre
    <2>3. HeadOf(i, s).at + 1 = m
        BY <1>2, <2>1, <2>2
    <2> HIDE DEF m
    <2> QED BY <2>3
<1>4. /\ OpAt(i) \in Nat /\ ModRMAt(i) \in Nat /\ DispAt(i) \in Nat /\ OperandLength(i) \in Nat /\ Length(i) \in Nat
      /\ Len(bytes) \in Nat /\ ImmCount(i) \in Nat
      /\ ModRMAt(i) + 1 <= OperandLength(i) /\ ModRMAt(i) + 1 <= DispAt(i)
    <2>1. OpAt(i) \in Nat /\ ModRMAt(i) \in Nat /\ DispAt(i) \in Nat /\ OperandLength(i) \in Nat /\ Length(i) \in Nat
        BY PlacesAre
    <2>2. Len(bytes) \in Nat /\ ImmCount(i) \in Nat
        BY CountsAre
    <2>3. ModRMAt(i) + 1 <= OperandLength(i) /\ ModRMAt(i) + 1 <= DispAt(i)
        BY <1>1, OperandPlaces
    <2> QED BY <2>1, <2>2, <2>3
<1>5. Length(i) = OperandLength(i) + ImmCount(i)
    BY LengthsAre
<1>6. ImmCount(i) = imm /\ imm \in Nat
    BY OperandImmediate
<1>7. /\ o.mod = 3 /\ o.ext = i.modrm[1].reg /\ o.reg = RegOperand(i) /\ o.base = RmOperand(i)
           => r = Moved(st, o.next + imm, DirectRegs(i, st.regs), {})
      /\ o.mod # 3 /\ o.rip => r = Moved(st, o.next + 4 + imm, st.regs, {})
      /\ o.mod # 3 /\ ~o.rip => \E regs, size, kinds :
           /\ o.ext = i.modrm[1].reg /\ o.reg = RegOperand(i) /\ o.mod = i.modrm[1].mod
                => regs = LoadedRegs(i, st.regs, o.base)
           /\ r = Moved(st, o.next + DispSize(o) + imm, regs, Accessed(bytes, st.regs, o, size, kinds))
    <2>1. OneByteCase(bytes, i, st, o, r, imm)
        BY OneByteIs
    <2> HIDE DEF o, r, imm
    <2> QED BY <2>1 DEF OneByteCase
<1> HIDE DEF o, r, imm
<1>8. CASE m > Len(bytes)
    <2>1. o.mod = 0 /\ o.rip = FALSE /\ o.next = m + 1
        <3>1. m \in Nat
            BY <1>4
        <3> HIDE DEF m
        <3> QED BY <1>3, <1>8, <3>1, OperandGone
    <2>2. PICK regs, size, kinds : r = Moved(st, o.next + DispSize(o) + imm, regs, Accessed(bytes, st.regs, o, size, kinds))
        <3>1. o.mod # 3 /\ ~o.rip
            BY <2>1
        <3> QED BY <1>7, <3>1
    <2>3. DispSize(o) = 0
        BY <2>1 DEF DispSize
    <2>4. OffsetsIn(Accessed(bytes, st.regs, o, size, kinds)) = {}
        <3>1. o.next + DispSize(o) - 1 > Len(bytes)
            BY <1>4, <1>8, <2>1, <2>3
        <3>2. MemberAt(bytes, o) = {}
            BY <3>1 DEF MemberAt
        <3>3. Accessed(bytes, st.regs, o, size, kinds) = {}
            BY <3>2 DEF Accessed
        <3> QED BY <3>3 DEF OffsetsIn
    <2>5. ~IsWhole(bytes, s, i)
        BY <1>4, <1>8 DEF IsWhole
    <2>6. r.pos = o.next + DispSize(o) + imm /\ OffsetsFound(r) = OffsetsFound(st)
        <3> DEFINE next == o.next + DispSize(o) + imm
                   made == Accessed(bytes, st.regs, o, size, kinds)
        <3> HIDE DEF next, made
        <3>1. Moved(st, next, regs, made).pos = next
            BY MovedIs
        <3>2. OffsetsFound(Moved(st, next, regs, made)) = OffsetsFound(st) \cup OffsetsIn(made)
            BY MovedIs
        <3> QED BY <2>2, <2>4, <3>1, <3>2 DEF next, made
    <2>7. r.pos > Len(bytes)
        BY <1>4, <1>6, <1>8, <2>1, <2>3, <2>6
    <2> QED BY <2>5, <2>6, <2>7 DEF Executed, r
<1>9. CASE m <= Len(bytes)
    <2>1. /\ o.mod = i.modrm[1].mod /\ o.ext = i.modrm[1].reg /\ o.reg = RegOperand(i)
          /\ o.rip = (i.modrm[1].mod = 0 /\ i.modrm[1].rm = 5)
          /\ o.next = s + DispAt(i)
          /\ ~HasSib(i) => o.base = RmOperand(i)
        BY <1>1, <1>3, <1>9, OperandIs
    <2>2. CASE Direct(i)
        <3>1. o.mod = 3 /\ o.base = RmOperand(i)
            BY <2>1, <2>2 DEF Direct, HasSib, HasMemory
        <3>2. r = Moved(st, o.next + imm, DirectRegs(i, st.regs), {})
            BY <1>7, <2>1, <3>1
        <3>3. DirectRegs(i, st.regs) = AfterIt(i, st.regs)
            BY <2>2, DirectRegsAre
        <3>4. MembersOf(i, st.regs) = {}
            BY <2>2, NothingReached DEF Direct, HasMemory
        <3>5. r.pos = o.next + imm /\ r.regs = AfterIt(i, st.regs) /\ OffsetsFound(r) = OffsetsFound(st)
            BY <3>2, <3>3, MovedIs
        <3>6. OperandLength(i) = ModRMAt(i) + 1 /\ DispAt(i) = ModRMAt(i) + 1
            BY <2>2, OperandPlaces
        <3>7. r.pos = s + Length(i) /\ IsWhole(bytes, s, i)
            BY <1>4, <1>5, <1>6, <1>9, <2>1, <3>5, <3>6 DEF IsWhole
        <3> QED BY <3>4, <3>5, <3>7 DEF Executed, r
    <2>3. CASE Relative(i)
        <3>1. o.mod # 3 /\ o.rip
            BY <2>1, <2>3, Zenon DEF Relative, HasMemory
        <3>2. r = Moved(st, o.next + 4 + imm, st.regs, {})
            BY <1>7, <3>1
        <3>3. AfterIt(i, st.regs) = st.regs
            <4>1. Base(i) = {} /\ ~Direct(i)
                BY <2>3 DEF Base, Direct, Relative, HasMemory
            <4>2. Copied(i, st.regs) = {}
                BY <4>1 DEF Copied
            <4> QED BY <2>3, <4>2, StaysAsIs DEF OperandFollowed
        <3>4. MembersOf(i, st.regs) = {}
            BY <2>3, NothingReached
        <3>5. r.pos = o.next + 4 + imm /\ r.regs = st.regs /\ OffsetsFound(r) = OffsetsFound(st)
            BY <3>2, MovedIs
        <3>6. OperandLength(i) = DispAt(i) + 4
            BY <2>3, OperandPlaces
        <3>7. r.pos = s + Length(i)
            BY <1>4, <1>5, <1>6, <2>1, <3>5, <3>6
        <3>8. ~IsWhole(bytes, s, i) => r.pos > Len(bytes)
            BY <1>4, <1>5, <3>7 DEF IsWhole
        <3> QED BY <3>3, <3>4, <3>5, <3>7, <3>8 DEF Executed, r
    <2>4. CASE HasMemory(i) /\ ~Relative(i)
        <3>1. o.mod # 3 /\ ~o.rip
            BY <2>1, <2>4 DEF Relative, HasMemory
        <3>2. PICK regs, size, kinds :
                 /\ regs = LoadedRegs(i, st.regs, o.base)
                 /\ r = Moved(st, o.next + DispSize(o) + imm, regs, Accessed(bytes, st.regs, o, size, kinds))
            BY <1>7, <2>1, <3>1
        <3>3. /\ o.next + DispSize(o) = s + OperandLength(i)
              /\ IsWhole(bytes, s, i) => Base(i) = {o.base}
              /\ \A z, k : OffsetsIn(Accessed(bytes, st.regs, o, z, k))
                             = IF IsWhole(bytes, s, i) THEN MembersOf(i, st.regs) ELSE {}
            <4>1. o = OperandOf(bytes, s, i)
                BY <1>3 DEF OperandOf
            <4>2. /\ OperandOf(bytes, s, i).next + DispSize(OperandOf(bytes, s, i)) = s + OperandLength(i)
                  /\ IsWhole(bytes, s, i) => Base(i) = {OperandOf(bytes, s, i).base}
                BY <1>9, <2>4, OperandEnds
            <4>3. \A z, k : OffsetsIn(Accessed(bytes, st.regs, OperandOf(bytes, s, i), z, k))
                             = IF IsWhole(bytes, s, i) THEN MembersOf(i, st.regs) ELSE {}
                BY <1>9, <2>4, OperandAccess
            <4> QED BY <4>1, <4>2, <4>3
        <3>4. /\ r.pos = o.next + DispSize(o) + imm /\ r.regs = regs
              /\ OffsetsFound(r) = OffsetsFound(st) \cup OffsetsIn(Accessed(bytes, st.regs, o, size, kinds))
            BY <3>2, MovedIs
        <3>5. r.pos = s + Length(i)
            BY <1>4, <1>5, <1>6, <3>3, <3>4
        <3>6. OffsetsFound(r) = OffsetsFound(st) \cup (IF IsWhole(bytes, s, i) THEN MembersOf(i, st.regs) ELSE {})
            BY <3>3, <3>4
        <3>7. IsWhole(bytes, s, i) => r.regs = AfterIt(i, st.regs)
            BY <2>4, <3>2, <3>3, <3>4, LoadedRegsAre
        <3>8. ~IsWhole(bytes, s, i) => r.pos > Len(bytes)
            BY <1>4, <1>5, <3>5 DEF IsWhole
        <3> QED BY <3>5, <3>6, <3>7, <3>8 DEF Executed, r
    <2> QED BY <1>1, <2>2, <2>3, <2>4 DEF Direct, HasMemory
<1> QED BY <1>4, <1>8, <1>9

-----------------------------------------------------------------------------
(* Two-byte opcodes. *)

(* An operand is read, and the rest of the instruction passed over. *)
OperandRead(bytes, s, i, st, r) ==
  \E regs, size, kinds :
    /\ r = Moved(st, OperandOf(bytes, s, i).next + DispSize(OperandOf(bytes, s, i)), regs,
                 Accessed(bytes, st.regs, OperandOf(bytes, s, i), size, kinds))
    /\ s + ModRMAt(i) <= Len(bytes) => regs = AfterIt(i, st.regs)

LEMMA OperandRound ==
  ASSUME NEW bytes \in Seq(Byte), NEW s \in Nat \ {0}, NEW i, IsInstruction(i), Lies(bytes, s, i),
         i.modrm # << >>, ~Relative(i), ~Baseless(i), ImmCount(i) = 0,
         NEW st, Index(i) \cap st.regs = {}, NEW r, OperandRead(bytes, s, i, st, r)
  PROVE  Executed(bytes, s, i, st, r)
<1> DEFINE m == s + ModRMAt(i)
           o == OperandOf(bytes, s, i)
           next == o.next + DispSize(o)
<1>0. PICK regs, size, kinds : /\ r = Moved(st, next, regs, Accessed(bytes, st.regs, o, size, kinds))
                               /\ m <= Len(bytes) => regs = AfterIt(i, st.regs)
    BY DEF OperandRead
<1> DEFINE made == Accessed(bytes, st.regs, o, size, kinds)
<1>1. /\ ModRMAt(i) \in Nat /\ DispAt(i) \in Nat /\ OperandLength(i) \in Nat
      /\ Len(bytes) \in Nat /\ m \in Nat
      /\ ModRMAt(i) + 1 <= OperandLength(i) /\ ModRMAt(i) + 1 <= DispAt(i)
      /\ Length(i) = OperandLength(i)
    <2>1. /\ ModRMAt(i) \in Nat /\ DispAt(i) \in Nat /\ OperandLength(i) \in Nat
          /\ ModRMAt(i) + 1 <= OperandLength(i) /\ ModRMAt(i) + 1 <= DispAt(i)
        BY PlacesAre, OperandPlaces
    <2>2. Length(i) = OperandLength(i)
        BY <2>1, LengthsAre
    <2>3. Len(bytes) \in Nat
        OBVIOUS
    <2> QED BY <2>1, <2>2, <2>3
<1>2. r.pos = next /\ r.regs = regs /\ OffsetsFound(r) = OffsetsFound(st) \cup OffsetsIn(made)
    <2> HIDE DEF next, made
    <2>1. r = Moved(st, next, regs, made)
        BY <1>0 DEF next, made
    <2> QED BY <2>1, MovedIs
<1>3. CASE m > Len(bytes)
    <2>1. o.mod = 0 /\ o.next = m + 1
        <3> HIDE DEF m
        <3>1. o = Operand(bytes, HeadOf(i, s), m)
            BY DEF m, OperandOf
        <3>2. m \in Nat /\ m > Len(bytes)
            BY <1>1, <1>3
        <3> HIDE DEF o
        <3>3. Operand(bytes, HeadOf(i, s), m).mod = 0 /\ Operand(bytes, HeadOf(i, s), m).next = m + 1
            BY <3>2, OperandGone
        <3> QED BY <3>1, <3>3
    <2>2. DispSize(o) = 0
        BY <2>1 DEF DispSize
    <2>3. made = {}
        <3>1. MemberAt(bytes, o) = {}
            BY <1>1, <1>3, <2>1, <2>2 DEF MemberAt
        <3> QED BY <3>1 DEF Accessed
    <2>4. next > Len(bytes) /\ ~IsWhole(bytes, s, i)
        BY <1>1, <1>3, <2>1, <2>2 DEF IsWhole
    <2> HIDE DEF made, next
    <2> QED BY <1>2, <2>3, <2>4 DEF Executed, OffsetsIn
<1>4. CASE m <= Len(bytes)
    <2>1. regs = AfterIt(i, st.regs)
        BY <1>0, <1>4
    <2>2. CASE HasMemory(i)
        <3>1. /\ o.next + DispSize(o) = s + OperandLength(i)
              /\ \A z, k : OffsetsIn(Accessed(bytes, st.regs, o, z, k))
                             = IF IsWhole(bytes, s, i) THEN MembersOf(i, st.regs) ELSE {}
            <4>1. s + ModRMAt(i) <= Len(bytes)
                BY <1>4
            <4>2. OperandOf(bytes, s, i).next + DispSize(OperandOf(bytes, s, i)) = s + OperandLength(i)
                BY <2>2, <4>1, OperandEnds
            <4>3. \A z, k : OffsetsIn(Accessed(bytes, st.regs, OperandOf(bytes, s, i), z, k))
                             = IF IsWhole(bytes, s, i) THEN MembersOf(i, st.regs) ELSE {}
                BY <2>2, <4>1, OperandAccess
            <4> QED BY <4>2, <4>3
        <3>2. next = s + OperandLength(i)
            BY <3>1
        <3>3. OffsetsIn(made) = IF IsWhole(bytes, s, i) THEN MembersOf(i, st.regs) ELSE {}
            BY <3>1
        <3>4. ~IsWhole(bytes, s, i) => next > Len(bytes)
            BY <1>1, <3>2 DEF IsWhole
        <3> HIDE DEF made, next
        <3>5. CASE IsWhole(bytes, s, i)
            BY <1>1, <1>2, <2>1, <3>2, <3>3, <3>5 DEF Executed, OffsetsIn
        <3>6. CASE ~IsWhole(bytes, s, i)
            BY <1>1, <1>2, <2>1, <3>3, <3>4, <3>6 DEF Executed, OffsetsIn
        <3> QED BY <3>5, <3>6
    <2>3. CASE Direct(i)
        <3>1. o.mod = 3 /\ o.next = s + DispAt(i)
            BY <1>4, <2>3, OperandIs DEF Direct, OperandOf
        <3>2. DispSize(o) = 0 /\ MemberAt(bytes, o) = {}
            BY <3>1 DEF DispSize, MemberAt
        <3>3. made = {}
            BY <3>2 DEF Accessed
        <3>4. OperandLength(i) = ModRMAt(i) + 1 /\ DispAt(i) = ModRMAt(i) + 1
            BY <2>3, OperandPlaces
        <3>5. next = s + Length(i) /\ IsWhole(bytes, s, i)
            BY <1>1, <1>4, <3>1, <3>2, <3>4 DEF IsWhole
        <3>6. MembersOf(i, st.regs) = {}
            BY <2>3, NothingReached DEF Direct, HasMemory
        <3> HIDE DEF made, next
        <3> QED BY <1>2, <2>1, <3>3, <3>5, <3>6 DEF Executed, OffsetsIn
    <2> QED BY <2>2, <2>3 DEF Direct, HasMemory
<1> QED BY <1>1, <1>3, <1>4

-----------------------------------------------------------------------------
(* Two bytes of opcode. *)

LEMMA TwoByteSorts ==
  ASSUME NEW i, i.op[1] = \h0F
  PROVE  /\ i.op[1] \notin Small \cup Full \cup \hB8..\hBF \cup {\hF6, \hF7, \hE8}
         /\ i.op[1] \notin OnBytes
         /\ i.op[1] \notin {\h89, \h8B, \h8D}
BY SMT DEF Small, Full, OnBytes

LEMMA TwoBytesWrite ==
  ASSUME NEW i, i.op[1] = \h0F, NEW H
  PROVE  /\ i.op[2] \in {\hB6, \hB7, \hBE, \hBF} => AfterIt(i, H) = H \ {RegOperand(i)}
         /\ i.op[2] \notin {\hB6, \hB7, \hBE, \hBF} => AfterIt(i, H) = H
<1>1. Overwritten(i) = WholeOverwritten(i)
    BY TwoByteSorts, OverwrittenIs
<1>2. Copied(i, H) = {}
    BY TwoByteSorts, NothingCopied
<1>3. /\ i.op[1] \notin IntoReg /\ i.op[1] \notin IntoRm /\ i.op[1] \notin \hB0..\hBF
      /\ i.op[1] \notin \h50..\h57 /\ i.op[1] \notin \h58..\h5F /\ i.op[1] \notin Accumulating
      /\ i.op[1] # \hE8 /\ i.op[1] # \hFF /\ i.op[1] \notin {\hF6, \hF7}
    BY SMT DEF IntoReg, IntoRm, Accumulating
<1>4. WholeOverwritten(i) = IF i.op[2] \in {\hB6, \hB7, \hBE, \hBF} THEN {RegOperand(i)} ELSE {}
    BY <1>3, Zenon DEF WholeOverwritten
<1> QED BY <1>1, <1>2, <1>4 DEF AfterIt

LEMMA TwoBytesImmediate ==
  ASSUME NEW i, i.op[1] = \h0F, IsFormed(i)
  PROVE  ImmCount(i) = (IF Jcc(i) THEN 4 ELSE 0) /\ (i.modrm # << >> <=> ~Jcc(i))
<1>1. i.modrm # << >> <=> ~Jcc(i)
    BY DEF IsFormed, TakesModRM
<1>2. Len(i.imm) = ImmediateLength(i)
    BY DEF IsFormed
<1>3. /\ i.op[1] \notin Small /\ i.op[1] \notin Full /\ i.op[1] \notin \hB8..\hBF /\ i.op[1] # \hF6
      /\ i.op[1] # \hF7 /\ i.op[1] # \hE8
    BY TwoByteSorts
<1>4. ImmediateLength(i) = IF Jcc(i) THEN 4 ELSE 0
    <2>1. CASE Jcc(i)
        BY <1>3, <2>1, Zenon DEF ImmediateLength
    <2>2. CASE ~Jcc(i)
        BY <1>3, <2>2, Zenon DEF ImmediateLength
    <2> QED BY <2>1, <2>2
<1> QED BY <1>1, <1>2, <1>4 DEF ImmCount

LEMMA TwoBytesRound ==
  ASSUME NEW bytes \in Seq(Byte), NEW s \in Nat \ {0}, NEW i, IsInstruction(i), Lies(bytes, s, i),
         s + OpAt(i) <= Len(bytes), i.op[1] = \h0F,
         NEW st, IsFormed(i), Index(i) \cap st.regs = {}, ~Baseless(i), Opcode0FFollowed(i)
  PROVE  Executed(bytes, s, i, st, TwoBytes(bytes, st, HeadOf(i, s)))
<1> DEFINE head == HeadOf(i, s)
           m == s + ModRMAt(i)
           op2 == ByteAt(bytes, m - 1)
           r == TwoBytes(bytes, st, head)
           o == OperandOf(bytes, s, i)
<1>1. ModRMAt(i) = OpAt(i) + 2 /\ OpCount(i) = 2
    BY PartsAre, OperandPlaces DEF OpCount
<1>2. /\ ModRMAt(i) \in Nat /\ OpAt(i) \in Nat /\ OperandLength(i) \in Nat /\ Length(i) \in Nat /\ m \in Nat
      /\ Len(bytes) \in Nat /\ ModRMAt(i) <= OperandLength(i) /\ ImmCount(i) \in Nat
      /\ Length(i) = OperandLength(i) + ImmCount(i)
    BY PlacesAre, CountsAre, LengthsAre
<1>3. head.at + 2 = m
    BY <1>1, <1>2 DEF HeadOf
<1>4. r = IF op2 \in \h80..\h8F THEN Moved(st, m + 4, st.regs, {})
          ELSE IF IsFloatMove(head, op2) THEN FloatMove(bytes, st, head, op2, m)
          ELSE IF op2 \in {\hB6, \hB7, \hBE, \hBF} THEN Widen(bytes, st, head, op2, m)
          ELSE Unknown0F(bytes, st, head, m)
    <2> HIDE DEF m, head
    <2> QED BY <1>3 DEF TwoBytes
<1>5. CASE m - 1 > Len(bytes)
    <2>1. op2 = 0
        BY <1>5 DEF ByteAt
    <2>2. op2 \notin \h80..\h8F /\ ~IsFloatMove(head, op2) /\ op2 \notin {\hB6, \hB7, \hBE, \hBF}
        <3>1. \A h : ~IsFloatMove(h, 0)
            BY DEF IsFloatMove
        <3> HIDE DEF op2, head
        <3> QED BY <2>1, <3>1
    <2>3. r = Unknown0F(bytes, st, head, m)
        <3> HIDE DEF r, op2
        <3> QED BY <1>4, <2>2
    <2>4. m > Len(bytes)
        BY <1>2, <1>5
    <2>5. \E p : r = Moved(st, m, st.regs, {})
        <3> HIDE DEF r, m
        <3> QED BY <2>3, <2>4 DEF Unknown0F
    <2>6. r.pos = m /\ OffsetsFound(r) = OffsetsFound(st)
        BY <2>5, MovedIs
    <2>7. ~IsWhole(bytes, s, i)
        BY <1>2, <1>5 DEF IsWhole
    <2> QED BY <2>4, <2>6, <2>7 DEF Executed, OffsetsIn
<1>6. CASE m - 1 <= Len(bytes)
    <2>1. op2 = i.op[2]
        <3>1. bytes[s + OpAt(i) + 2 - 1] = i.op[2]
            <4>1. s + OpAt(i) + 2 - 1 <= Len(bytes) /\ 2 \in 1..OpCount(i)
                BY <1>1, <1>2, <1>6
            <4> QED BY <4>1, LiesParts
        <3>2. s + OpAt(i) + 2 - 1 = m - 1 /\ m - 1 \in 1..Len(bytes)
            BY <1>1, <1>2, <1>6
        <3> QED BY <3>1, <3>2 DEF ByteAt
    <2>2. CASE Jcc(i)
        <3>1. op2 \in \h80..\h8F /\ op2 \notin {\hB6, \hB7, \hBE, \hBF}
            <4>1. i.op[2] \in \h80..\h8F
                BY <2>2 DEF Jcc
            <4> HIDE DEF op2
            <4>2. \A n \in \h80..\h8F : n \notin {\hB6, \hB7, \hBE, \hBF}
                BY SMT
            <4> QED BY <2>1, <4>1, <4>2
        <3>2. r = Moved(st, m + 4, st.regs, {})
            <4> HIDE DEF r, op2
            <4> QED BY <1>4, <3>1
        <3>3. ImmCount(i) = 4 /\ i.modrm = << >>
            BY <2>2, TwoBytesImmediate
        <3>4. OperandLength(i) = ModRMAt(i)
            BY <3>3, OperandPlaces
        <3>5. AfterIt(i, st.regs) = st.regs
            BY <2>1, <3>1, TwoBytesWrite
        <3>6. MembersOf(i, st.regs) = {}
            BY <3>3, NothingReached DEF HasMemory
        <3>7. r.pos = m + 4 /\ r.regs = st.regs /\ OffsetsFound(r) = OffsetsFound(st)
            BY <3>2, MovedIs
        <3>8. r.pos = s + Length(i)
            BY <1>2, <3>3, <3>4, <3>7
        <3>9. IsWhole(bytes, s, i)
            BY <1>2, <1>6, <3>4 DEF IsWhole
        <3>10. Executed(bytes, s, i, st, r)
            <4> HIDE DEF r
            <4> QED BY <3>5, <3>6, <3>7, <3>8, <3>9 DEF Executed, OffsetsIn
        <3> QED BY <3>10
    <2>3. CASE ~Jcc(i)
        <3>1. ImmCount(i) = 0 /\ i.modrm # << >>
            BY <2>3, TwoBytesImmediate
        <3>2. ~Relative(i) /\ (IsFloatMove(head, i.op[2]) \/ i.op[2] \in {\hB6, \hB7, \hBE, \hBF})
            BY <2>3 DEF Opcode0FFollowed, IsFloatMove, HeadOf
        <3>3. op2 \notin \h80..\h8F
            BY <2>1, <2>3 DEF Jcc
        <3>4. CASE IsFloatMove(head, i.op[2])
            <4>1. r = FloatMove(bytes, st, head, op2, m)
                <5> HIDE DEF r, m, head, op2
                <5> QED BY <1>4, <2>1, <3>3, <3>4
            <4>2. PICK size, kinds : r = Moved(st, o.next + DispSize(o), st.regs, Accessed(bytes, st.regs, o, size, kinds))
                <5> HIDE DEF r, op2
                <5> QED BY <4>1 DEF FloatMove, OperandOf
            <4>3. AfterIt(i, st.regs) = st.regs
                <5>1. i.op[2] \notin {\hB6, \hB7, \hBE, \hBF}
                    BY <3>4, SMT DEF IsFloatMove
                <5> QED BY <5>1, TwoBytesWrite
            <4>4. OperandRead(bytes, s, i, st, r)
                <5> HIDE DEF r
                <5> QED BY <4>2, <4>3 DEF OperandRead
            <4> QED BY <3>1, <3>2, <4>4, OperandRound
        <3>5. CASE ~IsFloatMove(head, i.op[2])
            <4>1. r = Widen(bytes, st, head, op2, m)
                <5> HIDE DEF r, m, head, op2
                <5> QED BY <1>4, <2>1, <3>2, <3>3, <3>5
            <4>2. PICK size, kinds : r = Moved(st, o.next + DispSize(o), st.regs \ {o.reg}, Accessed(bytes, st.regs, o, size, kinds))
                <5> HIDE DEF r, op2
                <5> QED BY <4>1 DEF Widen, OperandOf
            <4>3. m <= Len(bytes) => st.regs \ {o.reg} = AfterIt(i, st.regs)
                <5> SUFFICES ASSUME m <= Len(bytes) PROVE st.regs \ {o.reg} = AfterIt(i, st.regs)
                    OBVIOUS
                <5>1. o.reg = RegOperand(i)
                    BY <3>1, OperandIs DEF OperandOf
                <5>2. AfterIt(i, st.regs) = st.regs \ {RegOperand(i)}
                    BY <3>2, <3>5, TwoBytesWrite
                <5> QED BY <5>1, <5>2
            <4>4. OperandRead(bytes, s, i, st, r)
                <5> HIDE DEF r
                <5> QED BY <4>2, <4>3 DEF OperandRead
            <4> QED BY <3>1, <3>2, <4>4, OperandRound
        <3> QED BY <3>4, <3>5
    <2> QED BY <2>2, <2>3
<1> QED BY <1>2, <1>5, <1>6

-----------------------------------------------------------------------------
(* What is passed over. *)

LEMMA PassedSorts ==
  ASSUME NEW i, i.op[1] \in PassedOpcodes
  PROVE  /\ i.op[1] \in WithOperand /\ i.op[1] # \h0F /\ i.op[1] # \hE8
         /\ i.op[1] \notin Small /\ i.op[1] \notin Full /\ i.op[1] \notin \hB8..\hBF
         /\ i.op[1] \notin IntoReg /\ i.op[1] \notin IntoRm /\ i.op[1] \notin \hB0..\hBF
         /\ i.op[1] \notin \h50..\h57 /\ i.op[1] \notin \h58..\h5F /\ i.op[1] \notin Accumulating
         /\ i.op[1] \notin {\h89, \h8B, \h8D}
BY SMT DEF PassedOpcodes, WithOperand, Small, Full, IntoReg, IntoRm, Accumulating

LEMMA PassedImmediate ==
  ASSUME NEW i, i.op[1] \in PassedOpcodes, IsFormed(i), ImmCount(i) # 2,
         i.modrm[1].reg \in 0..7, i.op[1] # \hFF => i.modrm[1].reg # 1
  PROVE  ImmCount(i) = IF i.op[1] = \hFF \/ i.modrm[1].reg # 0 THEN 0 ELSE IF i.op[1] = \hF6 THEN 1 ELSE 4
<1> DEFINE op == i.op[1]
           ext == i.modrm[1].reg
           word == \h66 \in ToSet(i.prefixes) /\ ~Wide(i)
<1>1. Len(i.imm) = ImmediateLength(i)
    BY DEF IsFormed
<1>2. ~Jcc(i)
    BY PassedSorts DEF Jcc
<1>3. ImmediateLength(i) = CASE op \in Small -> 1
                 [] op \in Full -> IF word THEN 2 ELSE 4
                 [] op = \hF6 -> IF ext < 2 THEN 1 ELSE 0
                 [] op = \hF7 -> IF ext > 1 THEN 0 ELSE IF word THEN 2 ELSE 4
                 [] op \in \hB8..\hBF -> IF Wide(i) THEN 8 ELSE IF word THEN 2 ELSE 4
                 [] op = \hE8 \/ Jcc(i) -> 4
                 [] OTHER -> 0
    BY DEF ImmediateLength
<1>4. op \notin Small /\ op \notin Full /\ op \notin \hB8..\hBF /\ op # \hE8
    BY PassedSorts
<1> HIDE DEF op, word, ext
<1>5. /\ op = \hFF => ImmediateLength(i) = 0
      /\ op = \hF6 => ImmediateLength(i) = IF ext < 2 THEN 1 ELSE 0
      /\ op = \hF7 => ImmediateLength(i) = IF ext > 1 THEN 0 ELSE IF word THEN 2 ELSE 4
    <2>0. \hFF # \hF6 /\ \hFF # \hF7 /\ \hF6 # \hF7
        OBVIOUS
    <2>1. ASSUME op = \hFF PROVE ImmediateLength(i) = 0
        <3>1. op # \hF6 /\ op # \hF7
            BY <2>1
        <3> QED BY <1>2, <1>3, <1>4, <3>1, Zenon
    <2>2. ASSUME op = \hF6 PROVE ImmediateLength(i) = IF ext < 2 THEN 1 ELSE 0
        <3>1. op # \hF7
            BY <2>2
        <3> QED BY <1>2, <1>3, <1>4, <2>2, <3>1
    <2>3. ASSUME op = \hF7 PROVE ImmediateLength(i) = IF ext > 1 THEN 0 ELSE IF word THEN 2 ELSE 4
        <3>1. op # \hF6
            BY <2>3
        <3> QED BY <1>2, <1>3, <1>4, <2>3, <3>1
    <2> QED BY <2>1, <2>2, <2>3
<1>6. ext \in 0..7 /\ (op # \hFF => ext # 1) /\ op \in {\hF6, \hF7, \hFF} /\ ImmCount(i) = ImmediateLength(i) /\ ImmCount(i) # 2
    BY <1>1 DEF op, ext, ImmCount, PassedOpcodes
<1>7. ImmCount(i) = IF op = \hFF \/ ext # 0 THEN 0 ELSE IF op = \hF6 THEN 1 ELSE 4
    BY <1>5, <1>6
<1> QED BY <1>7 DEF op, ext

LEMMA PassedWrites ==
  ASSUME NEW i, i.op[1] \in PassedOpcodes, NEW H, PassedFollowed(i, H)
  PROVE  AfterIt(i, H) = IF i.op[1] = \hFF /\ i.modrm[1].reg = 2 THEN H \ CallerSaved ELSE H
<1>1. Copied(i, H) = {}
    BY PassedSorts, NothingCopied
<1>2. CASE i.op[1] = \hFF /\ i.modrm[1].reg = 2
    <2>1. WholeOverwritten(i) = Volatile
        <3> DEFINE ext == i.modrm[1].reg
        <3>1. WholeOverwritten(i) = (IF ext = 2 THEN Volatile ELSE {}) \cup (IF ext = 6 THEN {RSP} ELSE {})
                          \cup (IF ext \in {0, 1} /\ Direct(i) THEN {RmOperand(i)} ELSE {})
            <4>1. /\ i.op[1] = \hFF /\ i.op[1] \notin {\hF6, \hF7} /\ i.op[1] # \h0F /\ i.op[1] # \hE8
                  /\ i.op[1] \notin IntoReg /\ i.op[1] \notin IntoRm /\ i.op[1] \notin \hB0..\hBF
                  /\ i.op[1] \notin \h50..\h57 /\ i.op[1] \notin \h58..\h5F /\ i.op[1] \notin Accumulating
                BY <1>2, PassedSorts
            <4> QED BY <4>1, Zenon DEF WholeOverwritten
        <3> HIDE DEF ext
        <3>2. ext = 2
            BY <1>2 DEF ext
        <3> QED BY <3>1, <3>2
    <2>2. i.op[1] \notin OnBytes
        BY <1>2, SMT DEF OnBytes
    <2>3. Overwritten(i) = WholeOverwritten(i)
        BY <2>2, OverwrittenIs
    <2>4. Volatile = CallerSaved
        BY DEF Volatile, CallerSaved
    <2> QED BY <1>1, <1>2, <2>1, <2>3, <2>4 DEF AfterIt
<1>3. CASE ~(i.op[1] = \hFF /\ i.modrm[1].reg = 2)
    <2>1. Untouched(i, H)
        BY <1>3 DEF PassedFollowed
    <2> QED BY <1>1, <1>3, <2>1, StaysAsIs
<1> QED BY <1>2, <1>3

LEMMA PassedRound ==
  ASSUME NEW bytes \in Seq(Byte), NEW s \in Nat \ {0}, NEW i, IsInstruction(i), Lies(bytes, s, i),
         s + OpAt(i) <= Len(bytes), i.op[1] \in PassedOpcodes, ~Ends(i),
         NEW st, IsFormed(i), ~Baseless(i), ImmCount(i) # 2, PassedFollowed(i, st.regs)
  PROVE  Executed(bytes, s, i, st, Passed(bytes, st, HeadOf(i, s), i.op[1]))
<1> DEFINE m == s + ModRMAt(i)
           op == i.op[1]
           o == OperandOf(bytes, s, i)
           r == Passed(bytes, st, HeadOf(i, s), op)
           next == o.next + DispSize(o) + (IF o.rip THEN 4 ELSE 0)
<1>1. i.modrm # << >> /\ i.modrm[1].reg \in 0..7
    <2>1. i.modrm # << >>
        <3>1. i.op[1] \in WithOperand
            BY PassedSorts
        <3> QED BY <3>1, Zenon DEF IsInstruction
    <2> QED BY <2>1, PartsAre
<1>2. ModRMAt(i) = OpAt(i) + 1
    <2>1. Len(i.op) = 1
        <3>1. i.op[1] # \h0F
            BY PassedSorts
        <3>2. Len(i.op) = (IF i.op[1] = \h0F THEN 2 ELSE 1)
            BY PartsAre
        <3> QED BY <3>1, <3>2
    <2> QED BY <2>1, OperandPlaces
<1>3. /\ OpAt(i) \in Nat /\ ModRMAt(i) \in Nat /\ DispAt(i) \in Nat /\ OperandLength(i) \in Nat /\ Length(i) \in Nat
      /\ Len(bytes) \in Nat /\ ImmCount(i) \in Nat /\ m \in Nat
      /\ ModRMAt(i) + 1 <= OperandLength(i) /\ ModRMAt(i) + 1 <= DispAt(i)
    <2>1. /\ OpAt(i) \in Nat /\ ModRMAt(i) \in Nat /\ DispAt(i) \in Nat /\ OperandLength(i) \in Nat
          /\ Length(i) \in Nat /\ ImmCount(i) \in Nat
        BY PlacesAre, CountsAre
    <2>2. ModRMAt(i) + 1 <= OperandLength(i) /\ ModRMAt(i) + 1 <= DispAt(i)
        BY <1>1, OperandPlaces
    <2> QED BY <2>1, <2>2
<1>4. Length(i) = OperandLength(i) + ImmCount(i)
    BY LengthsAre
<1>5. HeadOf(i, s).at + 1 = m
    BY <1>2, <1>3 DEF HeadOf
<1>6. /\ op = \hFF /\ o.ext = 4 => r = Moved(st, Len(bytes) + 1, st.regs, {})
      /\ op = \hFF /\ o.ext # 4 => r = Moved(st, next, IF o.ext = 2 THEN st.regs \ CallerSaved ELSE st.regs, {})
      /\ op # \hFF => r = Moved(st, next + (IF o.ext # 0 THEN 0 ELSE IF op = \hF6 THEN 1 ELSE 4), st.regs, {})
    <2> DEFINE at == HeadOf(i, s).at + 1
               p == Operand(bytes, HeadOf(i, s), at)
    <2>1. p = o
        <3> HIDE DEF at
        <3> QED BY <1>5 DEF OperandOf, at
    <2>2. r = (IF op = \hFF /\ p.ext = 4 THEN Moved(st, Len(bytes) + 1, st.regs, {})
               ELSE IF op = \hFF THEN Moved(st, p.next + DispSize(p) + (IF p.rip THEN 4 ELSE 0), IF p.ext = 2 THEN st.regs \ CallerSaved ELSE st.regs, {})
               ELSE Moved(st, p.next + DispSize(p) + (IF p.rip THEN 4 ELSE 0) + (IF p.ext # 0 THEN 0 ELSE IF op = \hF6 THEN 1 ELSE 4), st.regs, {}))
        BY DEF Passed
    <2> HIDE DEF p, o, r, op
    <2>3. r = (IF op = \hFF /\ o.ext = 4 THEN Moved(st, Len(bytes) + 1, st.regs, {})
               ELSE IF op = \hFF THEN Moved(st, next, IF o.ext = 2 THEN st.regs \ CallerSaved ELSE st.regs, {})
               ELSE Moved(st, next + (IF o.ext # 0 THEN 0 ELSE IF op = \hF6 THEN 1 ELSE 4), st.regs, {}))
        BY <2>1, <2>2
    <2> HIDE DEF next
    <2> QED BY <2>3
<1>7. MembersOf(i, st.regs) = {}
    BY DEF PassedFollowed
<1> HIDE DEF r, o
<1>8. CASE m > Len(bytes)
    <2>1. o.mod = 0 /\ o.ext = 0 /\ o.rip = FALSE /\ o.next = m + 1
        <3>1. m \in Nat /\ o = Operand(bytes, HeadOf(i, s), m)
            BY <1>3 DEF o, OperandOf
        <3>2. m > Len(bytes)
            BY <1>8
        <3> HIDE DEF m
        <3>3. PICK head : o = Operand(bytes, head, m)
            BY <3>1
        <3>4. /\ Operand(bytes, head, m).mod = 0 /\ Operand(bytes, head, m).ext = 0
              /\ Operand(bytes, head, m).rip = FALSE /\ Operand(bytes, head, m).next = m + 1
            <4> DEFINE p == Operand(bytes, head, m)
            <4>1. p.mod = 0 /\ p.next = m + 1
                BY <3>1, <3>2, OperandGone
            <4>2. p.ext = 0
                BY <3>1, <3>2, OperandGone
            <4>3. p.rip = FALSE
                BY <3>1, <3>2, OperandGone
            <4> QED BY <4>1, <4>2, <4>3
        <3> QED BY <3>3, <3>4, Zenon
    <2>2. next = m + 1
        <3>1. DispSize(o) = 0
            BY <2>1 DEF DispSize
        <3> QED BY <1>3, <2>1, <3>1
    <2>3. PICK k \in Nat : r = Moved(st, next + k, st.regs, {})
        <3>1. CASE op = \hFF
            <4>1. r = Moved(st, next, st.regs, {}) /\ next + 0 = next
                BY <1>3, <1>6, <2>1, <2>2, <3>1
            <4> QED BY <4>1
        <3>2. CASE op # \hFF
            <4> HIDE DEF next
            <4> QED BY <1>6, <3>2
        <3> QED BY <3>1, <3>2
    <2>4. r.pos = next + k /\ OffsetsFound(r) = OffsetsFound(st)
        BY <2>3, MovedIs
    <2>5. r.pos > Len(bytes)
        <3>1. m \in Nat /\ m > Len(bytes) /\ Len(bytes) \in Nat
            BY <1>3, <1>8
        <3> HIDE DEF next, m
        <3>2. r.pos = (m + 1) + k
            BY <2>2, <2>4
        <3> QED BY <3>1, <3>2
    <2>6. ~IsWhole(bytes, s, i)
        BY <1>3, <1>8 DEF IsWhole
    <2> QED BY <2>4, <2>5, <2>6 DEF Executed, r
<1>9. CASE m <= Len(bytes)
    <2>1. /\ o.mod = i.modrm[1].mod /\ o.ext = i.modrm[1].reg
          /\ o.rip = (i.modrm[1].mod = 0 /\ i.modrm[1].rm = 5)
          /\ o.next = s + DispAt(i)
        BY <1>1, <1>9, OperandIs DEF o, OperandOf
    <2>2. next = s + OperandLength(i)
        <3>1. CASE Direct(i)
            <4>1. o.mod = 3 /\ i.modrm[1].mod # 0
                BY <2>1, <3>1 DEF Direct
            <4>3. ~o.rip
                BY <2>1, <4>1, Zenon
            <4>4. DispSize(o) = 0
                BY <4>1 DEF DispSize
            <4>2. OperandLength(i) = DispAt(i)
                BY <3>1, OperandPlaces
            <4> QED BY <1>3, <2>1, <4>2, <4>3, <4>4
        <3>2. CASE Relative(i)
            <4>1. o.rip
                BY <2>1, <3>2, Zenon DEF Relative
            <4>2. DispSize(o) = 0
                BY <2>1, <3>2 DEF Relative, DispSize
            <4>3. OperandLength(i) = DispAt(i) + 4
                BY <3>2, OperandPlaces
            <4> QED BY <1>3, <2>1, <4>1, <4>2, <4>3
        <3>3. CASE HasMemory(i) /\ ~Relative(i)
            <4>1. ~o.rip
                BY <2>1, <3>3, Zenon DEF Relative
            <4>2. o.next + DispSize(o) = s + OperandLength(i)
                BY <1>9, <3>3, OperandEnds DEF o
            <4> QED BY <1>3, <4>1, <4>2
        <3> QED BY <1>1, <3>1, <3>2, <3>3 DEF Direct, HasMemory
    <2>3. op = \hFF => o.ext # 4
        BY <2>1 DEF Ends
    <2>4. ImmCount(i) = IF op = \hFF \/ o.ext # 0 THEN 0 ELSE IF op = \hF6 THEN 1 ELSE 4
        BY <1>1, <2>1, PassedImmediate DEF PassedFollowed
    <2>5. AfterIt(i, st.regs) = IF op = \hFF /\ o.ext = 2 THEN st.regs \ CallerSaved ELSE st.regs
        <3>1. AfterIt(i, st.regs) = IF i.op[1] = \hFF /\ i.modrm[1].reg = 2 THEN st.regs \ CallerSaved ELSE st.regs
            BY PassedWrites, Zenon
        <3> QED BY <2>1, <3>1
    <2>6. r.pos = next + ImmCount(i) /\ r.regs = AfterIt(i, st.regs) /\ OffsetsFound(r) = OffsetsFound(st)
        <3>1. CASE op = \hFF
            <4>1. r = Moved(st, next, AfterIt(i, st.regs), {})
                <5> HIDE DEF next, op
                <5> QED BY <1>6, <2>3, <2>5, <3>1
            <4>2. ImmCount(i) = 0
                <5> HIDE DEF op
                <5> QED BY <2>4, <3>1
            <4>3. next + 0 = next
                BY <1>3, <2>2
            <4>4. r.pos = next /\ r.regs = AfterIt(i, st.regs) /\ OffsetsFound(r) = OffsetsFound(st)
                <5> HIDE DEF next
                <5> QED BY <4>1, MovedIs
            <4> QED BY <4>2, <4>3, <4>4
        <3>2. CASE op # \hFF
            <4>1. r = Moved(st, next + ImmCount(i), AfterIt(i, st.regs), {})
                <5> HIDE DEF next, op
                <5> QED BY <1>6, <2>4, <2>5, <3>2
            <4> HIDE DEF next
            <4> QED BY <4>1, MovedIs
        <3> QED BY <3>1, <3>2
    <2>7. r.pos = s + Length(i)
        <3> HIDE DEF next
        <3> QED BY <1>3, <1>4, <2>2, <2>6
    <2>8. ~IsWhole(bytes, s, i) => r.pos > Len(bytes)
        BY <1>3, <1>4, <2>7 DEF IsWhole
    <2> QED BY <1>7, <2>6, <2>7, <2>8 DEF Executed, r
<1> QED BY <1>3, <1>8, <1>9

-----------------------------------------------------------------------------
(* Without an operand. *)

LEMMA PlainSorts ==
  ASSUME NEW op \in PlainOpcodes
  PROVE  /\ op \notin WithOperand /\ op # \h0F /\ op # \hF6 /\ op # \hF7 /\ op # \hFF
         /\ op \notin IntoReg /\ op \notin IntoRm
         /\ op \notin {\h89, \h8B, \h8D} /\ op \notin Compares \cup Moves \cup Group1 \cup {\h63}
         /\ op \in \hB8..\hBF => op \notin Small /\ op \notin Full /\ op # \hE8 /\ op \notin OnBytes
                                   /\ op \notin \h50..\h5F \cup {\h90}
                                   /\ op \notin \h70..\h7F \cup \hB0..\hB7 \cup {\h04, \h0C, \h24, \h2C, \h34, \h3C, \hA8}
                                   /\ op \notin {\h05, \h0D, \h25, \h2D, \h35, \h3D, \hA9, \hE8}
                                   /\ op \in \hB0..\hBF
         /\ op = \hE8 => op \notin Small /\ op \notin Full /\ op \notin \hB0..\hBF /\ op \notin OnBytes
                           /\ op \notin \h50..\h57 /\ op \notin \h58..\h5F /\ op \notin Accumulating
                                   /\ op \notin \h50..\h5F \cup {\h90}
                                   /\ op \notin \h70..\h7F \cup \hB0..\hB7 \cup {\h04, \h0C, \h24, \h2C, \h34, \h3C, \hA8}
         /\ op \in Small => op \notin Full /\ op # \hE8 /\ op \notin \hB8..\hBF
                           /\ op \in \h70..\h7F \cup \hB0..\hB7 \cup {\h04, \h0C, \h24, \h2C, \h34, \h3C, \hA8}
                                   /\ op \notin \h50..\h5F \cup {\h90}
                                   /\ op \notin {\h05, \h0D, \h25, \h2D, \h35, \h3D, \hA9, \hE8}
         /\ op \in Full => op \notin Small /\ op # \hE8 /\ op \notin \hB8..\hBF
                           /\ op \in {\h05, \h0D, \h25, \h2D, \h35, \h3D, \hA9, \hE8}
                                   /\ op \notin \h50..\h5F \cup {\h90}
                                   /\ op \notin \h70..\h7F \cup \hB0..\hB7 \cup {\h04, \h0C, \h24, \h2C, \h34, \h3C, \hA8}
         /\ op \notin Small \cup Full \cup \hB8..\hBF \cup {\hE8}
              => /\ op \in \h50..\h5F \cup {\h90}
                 /\ op \notin \h70..\h7F \cup \hB0..\hB7 \cup {\h04, \h0C, \h24, \h2C, \h34, \h3C, \hA8}
                 /\ op \notin {\h05, \h0D, \h25, \h2D, \h35, \h3D, \hA9, \hE8}
BY SMT DEF PlainOpcodes, WithOperand, Small, Full, IntoReg, IntoRm, Accumulating, OnBytes, Compares, Moves, Group1

LEMMA PlainImmediate ==
  ASSUME NEW i, i.op[1] \in PlainOpcodes, IsFormed(i), ImmCount(i) # 2, NEW head, head.wide = Wide(i)
  PROVE  ImmCount(i) = Following(head, i.op[1]) /\ i.modrm = << >>
<1> DEFINE op == i.op[1]
           word == \h66 \in ToSet(i.prefixes) /\ ~Wide(i)
           none == \h50..\h5F \cup {\h90}
           one  == \h70..\h7F \cup \hB0..\hB7 \cup {\h04, \h0C, \h24, \h2C, \h34, \h3C, \hA8}
           four == {\h05, \h0D, \h25, \h2D, \h35, \h3D, \hA9, \hE8}
           last == \hB8..\hBF
           call == op = \hE8 \/ Jcc(i)
<1>1. ImmCount(i) = ImmediateLength(i)
    BY DEF IsFormed, ImmCount
<1>2. ~Jcc(i) /\ i.modrm = << >> /\ op # \hF6 /\ op # \hF7
    BY PlainSorts DEF Jcc, IsFormed, TakesModRM
<1>3. ImmediateLength(i) = CASE op \in Small -> 1
                 [] op \in Full -> IF word THEN 2 ELSE 4
                 [] op = \hF6 -> IF i.modrm[1].reg < 2 THEN 1 ELSE 0
                 [] op = \hF7 -> IF i.modrm[1].reg > 1 THEN 0 ELSE IF word THEN 2 ELSE 4
                 [] op \in last -> IF Wide(i) THEN 8 ELSE IF word THEN 2 ELSE 4
                 [] call -> 4
                 [] OTHER -> 0
    BY DEF ImmediateLength
<1>4. Following(head, op) = CASE op \in none -> 0 [] op \in one -> 1 [] op \in four -> 4
                              [] op \in last -> IF Wide(i) THEN 8 ELSE 4
    BY DEF Following
<1>5. /\ op \in last => op \notin Small /\ op \notin Full /\ op # \hE8 /\ op \notin none /\ op \notin one /\ op \notin four
      /\ op = \hE8 => op \notin Small /\ op \notin Full /\ op \notin none /\ op \notin one /\ op \in four /\ op \notin last
      /\ op \in Small => op \notin Full /\ op # \hE8 /\ op \notin last /\ op \in one /\ op \notin none /\ op \notin four
      /\ op \in Full => op \notin Small /\ op # \hE8 /\ op \notin last /\ op \in four /\ op \notin none /\ op \notin one
      /\ op \notin Small \cup Full \cup last \cup {\hE8} => op \in none /\ op \notin one /\ op \notin four
    <2>1. last \subseteq \hB0..\hBF
        OBVIOUS
    <2> QED BY <2>1, PlainSorts
<1>0. call <=> op = \hE8
    BY <1>2
<1> HIDE DEF op, word, none, one, four, last, call
<1>6. CASE op \in last
    <2>1. ImmediateLength(i) = IF Wide(i) THEN 8 ELSE IF word THEN 2 ELSE 4
        BY <1>2, <1>3, <1>5, <1>6, <1>0, Zenon
    <2>2. Following(head, op) = IF Wide(i) THEN 8 ELSE 4
        BY <1>4, <1>5, <1>6, Zenon
    <2> QED BY <1>1, <1>2, <2>1, <2>2 DEF op
<1>7. CASE op = \hE8
    <2>0. call /\ op \notin Small /\ op \notin Full /\ op \notin last /\ op # \hF6 /\ op # \hF7
        BY <1>2, <1>5, <1>7, <1>0
    <2>1. ImmediateLength(i) = 4
        BY <1>3, <2>0, Zenon
    <2>2. Following(head, op) = 4
        BY <1>4, <1>5, <1>7, Zenon
    <2> QED BY <1>1, <1>2, <2>1, <2>2 DEF op
<1>8. CASE op \in Small
    <2>1. ImmediateLength(i) = 1
        BY <1>2, <1>3, <1>5, <1>8, <1>0, Zenon
    <2>2. Following(head, op) = 1
        BY <1>4, <1>5, <1>8, Zenon
    <2> QED BY <1>1, <1>2, <2>1, <2>2 DEF op
<1>9. CASE op \in Full
    <2>1. ImmediateLength(i) = IF word THEN 2 ELSE 4
        BY <1>2, <1>3, <1>5, <1>9, <1>0, Zenon
    <2>2. Following(head, op) = 4
        BY <1>4, <1>5, <1>9, Zenon
    <2> QED BY <1>1, <1>2, <2>1, <2>2 DEF op
<1>10. CASE op \notin Small \cup Full \cup last \cup {\hE8}
    <2>1. op \notin Small /\ op \notin Full /\ op \notin last /\ op # \hE8
        BY <1>10
    <2>2. ImmediateLength(i) = 0
        BY <1>2, <1>3, <1>0, <2>1, Zenon
    <2>3. Following(head, op) = 0
        BY <1>4, <1>5, <1>10, <2>1, Zenon
    <2> QED BY <1>1, <1>2, <2>2, <2>3 DEF op
<1> QED BY <1>6, <1>7, <1>8, <1>9, <1>10

LEMMA PlainWrites ==
  ASSUME NEW i, IsInstruction(i), i.op[1] \in PlainOpcodes, NEW H, SimpleFollowed(i, H)
  PROVE  AfterIt(i, H) = IF i.op[1] = \hE8 THEN H \ CallerSaved
                         ELSE IF i.op[1] \in \hB8..\hBF THEN H \ {i.op[1] - \hB8 + 8 * Rex(i, 1)}
                         ELSE H
<1> DEFINE op == i.op[1]
<1>1. Copied(i, H) = {}
    BY PlainSorts, NothingCopied
<1>2. CASE op = \hE8
    <2>1. /\ op = \hE8 /\ op # \h0F /\ op \notin IntoReg /\ op \notin IntoRm /\ op \notin \hB0..\hBF
          /\ op \notin \h50..\h57 /\ op \notin \h58..\h5F /\ op \notin Accumulating
          /\ op # \hFF /\ op \notin {\hF6, \hF7} /\ op \notin OnBytes
        BY <1>2, PlainSorts
    <2>2. WholeOverwritten(i) = Volatile
        BY <2>1, Zenon DEF WholeOverwritten
    <2>3. Overwritten(i) = WholeOverwritten(i)
        BY <2>1, OverwrittenIs
    <2>4. Volatile = CallerSaved
        BY DEF Volatile, CallerSaved
    <2> QED BY <1>1, <1>2, <2>2, <2>3, <2>4 DEF AfterIt
<1>3. CASE op \in \hB8..\hBF
    <2>1. /\ op # \hE8 /\ op # \h0F /\ op \notin IntoReg /\ op \notin IntoRm /\ op \in \hB0..\hBF
          /\ op \notin \h50..\h57 /\ op \notin \h58..\h5F /\ op \notin Accumulating
          /\ op # \hFF /\ op \notin {\hF6, \hF7} /\ op \notin OnBytes
        <3>1. op \notin Accumulating /\ op \notin \h50..\h57 /\ op \notin \h58..\h5F
            BY <1>3, SMT DEF Accumulating
        <3> QED BY <1>3, <3>1, PlainSorts
    <2>2. WholeOverwritten(i) = {OpOperand(i)}
        BY <2>1, Zenon DEF WholeOverwritten
    <2>3. Overwritten(i) = WholeOverwritten(i)
        BY <2>1, OverwrittenIs
    <2>4. OpOperand(i) = op - \hB8 + 8 * Rex(i, 1)
        <3>1. PICK n : n = op
            OBVIOUS
        <3>2. n \in \hB8..\hBF
            BY <1>3, <3>1
        <3>3. n % 8 = n - \hB8
            BY <3>2, SMT
        <3>4. PICK b : b = Rex(i, 1)
            OBVIOUS
        <3>5. OpOperand(i) = (n % 8) + 8 * b
            BY <3>1, <3>4 DEF OpOperand
        <3> QED BY <3>1, <3>3, <3>4, <3>5
    <2> QED BY <1>1, <1>3, <2>1, <2>2, <2>3, <2>4 DEF AfterIt
<1>4. CASE op # \hE8 /\ op \notin \hB8..\hBF
    <2>1. Untouched(i, H)
        BY <1>4 DEF SimpleFollowed
    <2> QED BY <1>1, <1>4, <2>1, StaysAsIs
<1> QED BY <1>2, <1>3, <1>4

LEMMA SimpleRound ==
  ASSUME NEW bytes \in Seq(Byte), NEW s \in Nat \ {0}, NEW i, IsInstruction(i), Lies(bytes, s, i),
         s + OpAt(i) <= Len(bytes), i.op[1] \in PlainOpcodes,
         NEW st, IsFormed(i), ImmCount(i) # 2, SimpleFollowed(i, st.regs)
  PROVE  Executed(bytes, s, i, st, Simple(st, HeadOf(i, s), i.op[1]))
<1> DEFINE head == HeadOf(i, s)
           op == i.op[1]
           r == Simple(st, head, op)
           regs == IF op = \hE8 THEN st.regs \ CallerSaved
                   ELSE IF op \in \hB8..\hBF THEN st.regs \ {op - \hB8 + head.b}
                   ELSE st.regs
<1>1. head.wide = Wide(i) /\ head.b = 8 * Rex(i, 1) /\ head.at = s + OpAt(i)
    BY DEF HeadOf
<1>2. r = Moved(st, head.at + 1 + Following(head, op), regs, {})
    BY DEF Simple
<1>3. regs = AfterIt(i, st.regs)
    <2>1. AfterIt(i, st.regs) = IF i.op[1] = \hE8 THEN st.regs \ CallerSaved
                                ELSE IF i.op[1] \in \hB8..\hBF THEN st.regs \ {i.op[1] - \hB8 + 8 * Rex(i, 1)}
                                ELSE st.regs
        BY PlainWrites
    <2> HIDE DEF head
    <2> QED BY <1>1, <2>1
<1>4. ImmCount(i) = Following(head, op) /\ i.modrm = << >>
    <2> HIDE DEF head
    <2> QED BY <1>1, PlainImmediate
<1>5. OperandLength(i) = OpAt(i) + 1
    <2>1. i.op[1] # \h0F
        BY PlainSorts
    <2>2. Len(i.op) = (IF i.op[1] = \h0F THEN 2 ELSE 1)
        BY PartsAre
    <2>3. Len(i.op) = 1
        BY <2>1, <2>2
    <2> QED BY <1>4, <2>3, OperandPlaces
<1>6. MembersOf(i, st.regs) = {}
    BY <1>4, NothingReached DEF HasMemory
<1>7. /\ OpAt(i) \in Nat /\ OperandLength(i) \in Nat /\ Length(i) \in Nat /\ ImmCount(i) \in Nat
    BY PlacesAre, CountsAre
<1>8. Length(i) = OperandLength(i) + ImmCount(i)
    BY LengthsAre
<1>9. r.pos = head.at + 1 + Following(head, op) /\ r.regs = AfterIt(i, st.regs) /\ OffsetsFound(r) = OffsetsFound(st)
    <2> HIDE DEF regs
    <2> QED BY <1>2, <1>3, MovedIs
<1>10. r.pos = s + Length(i)
    <2> HIDE DEF r, head, op
    <2> QED BY <1>1, <1>4, <1>5, <1>7, <1>8, <1>9
<1>11. IsWhole(bytes, s, i)
    BY <1>5, <1>7 DEF IsWhole
<1> HIDE DEF r
<1> QED BY <1>6, <1>9, <1>10, <1>11 DEF Executed, r

-----------------------------------------------------------------------------
(* A round over any instruction that is followed. *)

Bails(bytes, st) == Moved(st, Len(bytes) + 1, st.regs, {})

(* Which of the decoder's branches takes an opcode. *)
LEMMA RoundBranches ==
  ASSUME NEW bytes, NEW st, NEW head, NEW op, head = HeadAt(bytes, st.pos), op = ByteAt(bytes, head.at)
  PROVE  /\ op = \h0F => Round(bytes, st) = TwoBytes(bytes, st, head)
         /\ op # \h0F /\ HasModRM(head, op) => Round(bytes, st) = OneByte(bytes, st, head, op)
         /\ op \in PassedOpcodes /\ ~HasModRM(head, op) /\ op # \h0F => Round(bytes, st) = Passed(bytes, st, head, op)
         /\ op \in PlainOpcodes /\ op \notin PassedOpcodes /\ ~HasModRM(head, op) /\ op # \h0F
              => Round(bytes, st) = Simple(st, head, op)
         /\ op # \h0F /\ ~HasModRM(head, op) /\ op \notin PassedOpcodes /\ op \notin PlainOpcodes
              => Round(bytes, st) = Bails(bytes, st)
BY DEF Round, Bails, PassedOpcodes

LEMMA BailsOut ==
  ASSUME NEW bytes \in Seq(Byte), NEW st
  PROVE  Bails(bytes, st).pos > Len(bytes) /\ OffsetsFound(Bails(bytes, st)) = OffsetsFound(st)
<1>1. Bails(bytes, st).pos = Len(bytes) + 1 /\ OffsetsFound(Bails(bytes, st)) = OffsetsFound(st)
    BY MovedIs DEF Bails
<1> QED BY <1>1

LEMMA BranchSorts ==
  ASSUME NEW op, NEW head
  PROVE  /\ op \in PassedOpcodes => op # \h0F /\ ~HasModRM(head, op) /\ op \notin PlainOpcodes
         /\ op \in PlainOpcodes => op # \h0F /\ ~HasModRM(head, op) /\ op \notin PassedOpcodes
         /\ op \in OperandOpcodes /\ (op = \h63 => head.wide) => op # \h0F /\ HasModRM(head, op)
         /\ op \notin {\h0F, \h82} \cup WithOperand \cup PlainOpcodes
              => op # \h0F /\ ~HasModRM(head, op) /\ op \notin PassedOpcodes /\ op \notin PlainOpcodes
         /\ op = \h63 /\ ~head.wide => op # \h0F /\ ~HasModRM(head, op) /\ op \notin PassedOpcodes /\ op \notin PlainOpcodes
         /\ op = 0 => op # \h0F /\ ~HasModRM(head, op) /\ op \notin PassedOpcodes /\ op \notin PlainOpcodes
<1>1. /\ op \in PassedOpcodes => op # \h0F /\ op # \h63 /\ op \notin Moves \cup Compares \cup Group1 \cup {\h8D} /\ op \notin PlainOpcodes
      /\ op \in PlainOpcodes => op # \h0F /\ op # \h63 /\ op \notin Moves \cup Compares \cup Group1 \cup {\h8D} /\ op \notin PassedOpcodes
      /\ op \notin {\h0F, \h82} \cup WithOperand \cup PlainOpcodes
              => op # \h0F /\ op # \h63 /\ op \notin Moves \cup Compares \cup Group1 \cup {\h8D} /\ op \notin PassedOpcodes /\ op \notin PlainOpcodes
      /\ op = \h63 => op # \h0F /\ op \notin Moves \cup Compares \cup Group1 \cup {\h8D} /\ op \notin PassedOpcodes /\ op \notin PlainOpcodes
      /\ op = 0 => op # \h0F /\ op # \h63 /\ op \notin Moves \cup Compares \cup Group1 \cup {\h8D} /\ op \notin PassedOpcodes /\ op \notin PlainOpcodes
    BY SMT DEF PassedOpcodes, PlainOpcodes, Moves, Compares, Group1, WithOperand
<1>2. op \in OperandOpcodes => op # \h0F /\ (op = \h63 \/ op \in Moves \cup Compares \cup Group1 \cup {\h8D})
    BY OpcodeSorts
<1> QED BY <1>1, <1>2 DEF HasModRM

(* What Followed asks of each sort. *)
LEMMA Arm0F ==
  ASSUME NEW i, NEW H, Followed(i, H), i.op[1] = \h0F PROVE Opcode0FFollowed(i)
<1> DEFINE other == i.op[1] \in WithOperand \ PassedOpcodes
           passed == i.op[1] \in PassedOpcodes
           two == i.op[1] = \h0F
<1>1. (CASE two -> Opcode0FFollowed(i)
         [] passed -> PassedFollowed(i, H)
         [] other -> OperandFollowed(i, H)
         [] OTHER -> SimpleFollowed(i, H))
    BY DEF Followed
<1>2. two /\ ~passed /\ ~other
    BY SMT DEF WithOperand, PassedOpcodes
<1> HIDE DEF two, passed, other
<1> QED BY <1>1, <1>2, Zenon

LEMMA PassedArm ==
  ASSUME NEW i, NEW H, Followed(i, H), i.op[1] \in PassedOpcodes PROVE PassedFollowed(i, H)
<1> DEFINE other == i.op[1] \in WithOperand \ PassedOpcodes
           passed == i.op[1] \in PassedOpcodes
<1>1. (CASE i.op[1] = \h0F -> Opcode0FFollowed(i)
         [] passed -> PassedFollowed(i, H)
         [] other -> OperandFollowed(i, H)
         [] OTHER -> SimpleFollowed(i, H))
    BY DEF Followed
<1>2. i.op[1] # \h0F /\ passed /\ ~other
    BY PassedSorts
<1> HIDE DEF passed, other
<1> QED BY <1>1, <1>2, Zenon

LEMMA OperandArm ==
  ASSUME NEW i, NEW H, Followed(i, H), i.op[1] \in OperandOpcodes PROVE OperandFollowed(i, H)
<1> DEFINE other == i.op[1] \in WithOperand \ PassedOpcodes
           passed == i.op[1] \in PassedOpcodes
<1>1. (CASE i.op[1] = \h0F -> Opcode0FFollowed(i)
         [] passed -> PassedFollowed(i, H)
         [] other -> OperandFollowed(i, H)
         [] OTHER -> SimpleFollowed(i, H))
    BY DEF Followed
<1>2. i.op[1] # \h0F /\ ~passed /\ other
    BY OpcodeSorts DEF OperandOpcodes, PassedOpcodes
<1> HIDE DEF passed, other
<1> QED BY <1>1, <1>2, Zenon

LEMMA PlainArm ==
  ASSUME NEW i, NEW H, Followed(i, H), i.op[1] # \h0F, i.op[1] \notin WithOperand PROVE SimpleFollowed(i, H)
<1> DEFINE other == i.op[1] \in WithOperand \ PassedOpcodes
           passed == i.op[1] \in PassedOpcodes
<1>1. (CASE i.op[1] = \h0F -> Opcode0FFollowed(i)
         [] passed -> PassedFollowed(i, H)
         [] other -> OperandFollowed(i, H)
         [] OTHER -> SimpleFollowed(i, H))
    BY DEF Followed
<1>2. ~passed /\ ~other
    BY DEF WithOperand, PassedOpcodes
<1> HIDE DEF passed, other
<1> QED BY <1>1, <1>2, Zenon

LEMMA RoundIs ==
  ASSUME NEW bytes \in Seq(Byte), NEW s \in 1..Len(bytes), NEW i, IsInstruction(i), Lies(bytes, s, i),
         NEW st, st.pos = s
  PROVE  /\ Ends(i) => Round(bytes, st).pos > Len(bytes) /\ OffsetsFound(Round(bytes, st)) = OffsetsFound(st)
         /\ ~Ends(i) /\ Followed(i, st.regs) => Executed(bytes, s, i, st, Round(bytes, st))
<1> DEFINE r == Round(bytes, st)
           op == i.op[1]
           head == HeadOf(i, s)
<1>0. s \in Nat \ {0} /\ OpAt(i) \in Nat /\ OperandLength(i) \in Nat /\ OpAt(i) + 1 <= OperandLength(i) /\ Len(bytes) \in Nat
    BY PlacesAre
<1>1. CASE s + OpAt(i) > Len(bytes)
    <2> DEFINE h == HeadAt(bytes, st.pos)
               b == ByteAt(bytes, h.at)
    <2>1. b = 0
        <3>1. ByteAt(bytes, HeadAt(bytes, s).at) = 0
            BY <1>1, HeadIs
        <3> QED BY <3>1
    <2>2. r = Bails(bytes, st)
        <3> HIDE DEF h, b
        <3>1. b # \h0F /\ ~HasModRM(h, b) /\ b \notin PassedOpcodes /\ b \notin PlainOpcodes
            BY <2>1, BranchSorts
        <3>2. h = HeadAt(bytes, st.pos) /\ b = ByteAt(bytes, h.at)
            BY DEF h, b
        <3> QED BY <3>1, <3>2, RoundBranches
    <2>3. r.pos > Len(bytes) /\ OffsetsFound(r) = OffsetsFound(st)
        BY <2>2, BailsOut
    <2>4. ~IsWhole(bytes, s, i)
        BY <1>0, <1>1 DEF IsWhole
    <2> HIDE DEF r
    <2> QED BY <2>3, <2>4 DEF Executed, r
<1>2. CASE s + OpAt(i) <= Len(bytes)
    <2>1. head = HeadAt(bytes, st.pos) /\ op = ByteAt(bytes, head.at)
        <3>1. HeadAt(bytes, s) = head /\ ByteAt(bytes, s + OpAt(i)) = op
            BY <1>2, HeadIs
        <3>2. head.at = s + OpAt(i)
            BY DEF HeadOf
        <3> QED BY <3>1, <3>2
    <2>2. head.wide = Wide(i)
        BY DEF HeadOf
    <2>3. ASSUME Ends(i) PROVE r.pos > Len(bytes) /\ OffsetsFound(r) = OffsetsFound(st)
        <3>1. CASE op \notin {\h0F, \h82} \cup WithOperand \cup PlainOpcodes \/ (op = \h63 /\ ~Wide(i))
            <4>1. op # \h0F /\ ~HasModRM(head, op) /\ op \notin PassedOpcodes /\ op \notin PlainOpcodes
                <5> HIDE DEF head, op
                <5> QED BY <2>2, <3>1, BranchSorts
            <4>2. r = Bails(bytes, st)
                <5> HIDE DEF head, op
                <5> QED BY <2>1, <4>1, RoundBranches
            <4> QED BY <4>2, BailsOut
        <3>2. CASE op = \hFF /\ i.modrm[1].reg = 4
            <4> DEFINE m == s + ModRMAt(i)
                       o == OperandOf(bytes, s, i)
            <4>1. op \in PassedOpcodes
                BY <3>2 DEF PassedOpcodes
            <4>2. r = Passed(bytes, st, head, op)
                <5>1. op # \h0F /\ ~HasModRM(head, op)
                    <6> HIDE DEF head, op
                    <6> QED BY <4>1, BranchSorts
                <5> HIDE DEF head, op
                <5> QED BY <2>1, <4>1, <5>1, RoundBranches
            <4>3. i.modrm # << >> /\ ModRMAt(i) = OpAt(i) + 1
                <5>1. op \in WithOperand /\ op # \h0F
                    BY <4>1, PassedSorts
                <5>2. Len(i.op) = (IF i.op[1] = \h0F THEN 2 ELSE 1)
                    BY PartsAre
                <5>3. Len(i.op) = 1
                    BY <5>1, <5>2
                <5>4. i.modrm # << >>
                    BY <5>1, Zenon DEF IsInstruction
                <5> QED BY <5>3, <5>4, OperandPlaces
            <4>4. head.at + 1 = m
                BY <1>0, <4>3 DEF HeadOf
            <4>5. o = Operand(bytes, head, head.at + 1)
                <5> HIDE DEF head, m
                <5> QED BY <4>4 DEF OperandOf, m, head
            <4>6. r = IF o.ext = 4 THEN Bails(bytes, st)
                      ELSE Moved(st, o.next + DispSize(o) + (IF o.rip THEN 4 ELSE 0),
                                 IF o.ext = 2 THEN st.regs \ CallerSaved ELSE st.regs, {})
                <5> DEFINE p == Operand(bytes, head, head.at + 1)
                <5>1. Passed(bytes, st, head, \hFF) = IF p.ext = 4 THEN Bails(bytes, st)
                      ELSE Moved(st, p.next + DispSize(p) + (IF p.rip THEN 4 ELSE 0),
                                 IF p.ext = 2 THEN st.regs \ CallerSaved ELSE st.regs, {})
                    BY DEF Passed, Bails
                <5>2. p = o /\ op = \hFF
                    BY <3>2, <4>5
                <5> HIDE DEF p, o, r, op, head
                <5> QED BY <4>2, <5>1, <5>2
            <4>7. CASE m > Len(bytes)
                <5>1. m \in Nat
                    BY <1>0, <4>3
                <5>2. o = Operand(bytes, head, m)
                    BY DEF OperandOf
                <5>3. o.mod = 0 /\ o.ext = 0 /\ o.rip = FALSE /\ o.next = m + 1
                    <6> HIDE DEF head, m, o
                    <6>1. m > Len(bytes)
                        BY <4>7
                    <6>2. PICK g : g = head
                        OBVIOUS
                    <6>3. /\ Operand(bytes, g, m).mod = 0 /\ Operand(bytes, g, m).ext = 0
                          /\ Operand(bytes, g, m).rip = FALSE /\ Operand(bytes, g, m).next = m + 1
                        BY <5>1, <6>1, OperandGone
                    <6> QED BY <5>2, <6>2, <6>3, Zenon
                <5>4. r = Moved(st, m + 1, st.regs, {})
                    <6>1. DispSize(o) = 0 /\ ~o.rip
                        BY <5>3 DEF DispSize
                    <6>2. o.next + DispSize(o) + (IF o.rip THEN 4 ELSE 0) = m + 1
                        <7> HIDE DEF m, o
                        <7> QED BY <5>1, <5>3, <6>1
                    <6> HIDE DEF r, o, m
                    <6> QED BY <4>6, <5>3, <6>2
                <5>5. r.pos = m + 1 /\ OffsetsFound(r) = OffsetsFound(st)
                    <6> HIDE DEF m
                    <6> QED BY <5>4, MovedIs
                <5> HIDE DEF r
                <5> QED BY <4>7, <5>1, <5>5
            <4>8. CASE m <= Len(bytes)
                <5>1. o.ext = 4
                    BY <3>2, <4>3, <4>8, OperandIs DEF OperandOf
                <5>2. r = Bails(bytes, st)
                    <6> HIDE DEF r, o
                    <6> QED BY <4>6, <5>1
                <5> QED BY <5>2, BailsOut
            <4>9. m \in Nat
                BY <1>0, <4>3
            <4> HIDE DEF m
            <4> QED BY <1>0, <4>7, <4>8, <4>9
        <3> QED BY <2>3, <3>1, <3>2 DEF Ends
    <2>4. ASSUME ~Ends(i), Followed(i, st.regs) PROVE Executed(bytes, s, i, st, r)
        <3>1. /\ IsFormed(i) /\ Index(i) \cap st.regs = {} /\ ~Baseless(i) /\ ImmCount(i) # 2
            BY <2>4 DEF Followed, ImmCount
        <3>2. CASE op = \h0F
            <4>1. r = TwoBytes(bytes, st, head)
                <5> HIDE DEF head, op
                <5> QED BY <2>1, <3>2, RoundBranches
            <4>2. Opcode0FFollowed(i)
                BY <2>4, <3>2, Arm0F
            <4> QED BY <1>0, <1>2, <3>1, <3>2, <4>1, <4>2, TwoBytesRound
        <3>3. CASE op \in PassedOpcodes
            <4>1. r = Passed(bytes, st, head, op)
                <5>1. op # \h0F /\ ~HasModRM(head, op)
                    <6> HIDE DEF head, op
                    <6> QED BY <3>3, BranchSorts
                <5> HIDE DEF head, op
                <5> QED BY <2>1, <3>3, <5>1, RoundBranches
            <4>2. PassedFollowed(i, st.regs)
                BY <2>4, <3>3, PassedArm
            <4> QED BY <1>0, <1>2, <2>4, <3>1, <3>3, <4>1, <4>2, PassedRound
        <3>4. CASE op \in OperandOpcodes
            <4>1. op # \h0F /\ op \notin PassedOpcodes /\ op \in WithOperand
                BY <3>4, OpcodeSorts DEF OperandOpcodes, PassedOpcodes
            <4>2. OperandFollowed(i, st.regs)
                BY <2>4, <3>4, OperandArm
            <4>3. r = OneByte(bytes, st, head, op)
                <5>1. op = \h63 => head.wide
                    BY <2>2, <2>4 DEF Ends
                <5>2. op # \h0F /\ HasModRM(head, op)
                    <6> HIDE DEF head, op
                    <6> QED BY <3>4, <5>1, BranchSorts
                <5> HIDE DEF head, op
                <5> QED BY <2>1, <5>2, RoundBranches
            <4> QED BY <1>0, <1>2, <3>1, <3>4, <4>2, <4>3, OneByteRound
        <3>5. CASE op # \h0F /\ op \notin WithOperand
            <4>1. op \notin PassedOpcodes
                BY <3>5 DEF PassedOpcodes, WithOperand
            <4>2. SimpleFollowed(i, st.regs) /\ op \in PlainOpcodes
                <5>1. SimpleFollowed(i, st.regs)
                    BY <2>4, <3>5, PlainArm
                <5> QED BY <5>1 DEF SimpleFollowed
            <4>3. r = Simple(st, head, op)
                <5>1. op # \h0F /\ ~HasModRM(head, op) /\ op \notin PassedOpcodes
                    <6> HIDE DEF head, op
                    <6> QED BY <4>2, BranchSorts
                <5> HIDE DEF head, op
                <5> QED BY <2>1, <4>2, <5>1, RoundBranches
            <4> QED BY <1>0, <1>2, <3>1, <4>2, <4>3, SimpleRound
        <3> QED BY <3>2, <3>3, <3>4, <3>5 DEF OperandOpcodes, PassedOpcodes
    <2> QED BY <2>3, <2>4
<1> QED BY <1>0, <1>1, <1>2

-----------------------------------------------------------------------------
(* What the registers hold and where the instructions begin, one after the other. *)
LEMMA HoldersAre ==
  ASSUME NEW code, Len(code) \in Nat
  PROVE  /\ Holders(code)[1] = {ThisRegister}
         /\ \A k \in 1..Len(code) : Holders(code)[k + 1] = AfterIt(code[k], Holders(code)[k])
<1> DEFINE N == Len(code)
           Step(x, k) == AfterIt(code[k - 1], x)
           Is(g, n) == g = [k \in 1..(n + 1) |-> IF k = 1 THEN {RCX} ELSE Step(g[k - 1], k)]
           S == {n \in Nat : \E g : Is(g, n)}
           f == CHOOSE g : Is(g, N)
<1>0. N \in Nat
    OBVIOUS
<1>1. N \in S
    <2> HIDE DEF Step, N
    <2>1. 0 \in S
        <3>1. Is([k \in 1..(0 + 1) |-> {RCX}], 0)
            OBVIOUS
        <3> QED BY <3>1
    <2>2. ASSUME NEW n \in Nat, n \in S PROVE n + 1 \in S
        <3>1. PICK g : Is(g, n)
            BY <2>2
        <3> DEFINE h == [k \in 1..(n + 2) |-> IF k = n + 2 THEN Step(g[n + 1], n + 2) ELSE g[k]]
        <3>2. ASSUME NEW k \in 1..(n + 2)
              PROVE  h[k] = IF k = 1 THEN {RCX} ELSE Step(h[k - 1], k)
            <4>1. CASE k = n + 2
                <5>1. h[k] = Step(g[n + 1], n + 2) /\ k - 1 = n + 1 /\ h[n + 1] = g[n + 1] /\ k # 1
                    BY <4>1, <2>2
                <5> HIDE DEF h
                <5> QED BY <4>1, <5>1
            <4>2. CASE k \in 1..(n + 1)
                <5>1. h[k] = g[k] /\ (k # 1 => h[k - 1] = g[k - 1])
                    BY <4>2, <2>2
                <5>2. g[k] = IF k = 1 THEN {RCX} ELSE Step(g[k - 1], k)
                    BY <3>1, <4>2
                <5> HIDE DEF h
                <5> QED BY <5>1, <5>2
            <4> QED BY <2>2, <4>1, <4>2
        <3>3. Is(h, n + 1)
            <4>1. (n + 1) + 1 = n + 2
                BY <2>2
            <4>2. h = [k \in 1..(n + 2) |-> h[k]]
                OBVIOUS
            <4> HIDE DEF h
            <4> QED BY <3>2, <4>1, <4>2
        <3> HIDE DEF h, Is
        <3> QED BY <3>3
    <2>3. Nat \subseteq S
        <3> HIDE DEF S
        <3> QED BY <2>1, <2>2, SetInduction
    <2> QED BY <1>0, <2>3
<1>2. Is(f, N)
    BY <1>1
<1>3. Holders(code) = f
    BY DEF Holders
<1>4. f[1] = {RCX} /\ \A k \in 1..N : f[k + 1] = Step(f[k], k + 1)
    <2> HIDE DEF f, N, Step
    <2>1. 1 \in 1..(N + 1) /\ f[1] = {RCX}
        BY <1>0, <1>2
    <2>2. ASSUME NEW k \in 1..N PROVE f[k + 1] = Step(f[k], k + 1)
        <3>1. k + 1 \in 1..(N + 1) /\ k + 1 # 1 /\ (k + 1) - 1 = k
            BY <1>0
        <3>2. f[k + 1] = Step(f[(k + 1) - 1], k + 1)
            BY <1>2, <3>1
        <3> QED BY <3>1, <3>2
    <2> QED BY <2>1, <2>2
<1>5. \A k \in 1..N : Step(f[k], k + 1) = AfterIt(code[k], f[k])
    <2> HIDE DEF f
    <2> SUFFICES ASSUME NEW k \in 1..N PROVE Step(f[k], k + 1) = AfterIt(code[k], f[k])
        OBVIOUS
    <2>1. (k + 1) - 1 = k
        BY <1>0
    <2> QED BY <2>1
<1> HIDE DEF f, Step
<1> QED BY <1>3, <1>4, <1>5 DEF ThisRegister, RCX

LEMMA StartsAre ==
  ASSUME NEW code, Len(code) \in Nat
  PROVE  /\ Starts(code)[1] = 1
         /\ \A k \in 1..Len(code) : Starts(code)[k + 1] = Starts(code)[k] + Length(code[k])
<1> DEFINE N == Len(code)
           Step(x, k) == x + Length(code[k - 1])
           Is(g, n) == g = [k \in 1..(n + 1) |-> IF k = 1 THEN 1 ELSE Step(g[k - 1], k)]
           S == {n \in Nat : \E g : Is(g, n)}
           f == CHOOSE g : Is(g, N)
<1>0. N \in Nat
    OBVIOUS
<1>1. N \in S
    <2> HIDE DEF Step, N
    <2>1. 0 \in S
        <3>1. Is([k \in 1..(0 + 1) |-> 1], 0)
            OBVIOUS
        <3> QED BY <3>1
    <2>2. ASSUME NEW n \in Nat, n \in S PROVE n + 1 \in S
        <3>1. PICK g : Is(g, n)
            BY <2>2
        <3> DEFINE h == [k \in 1..(n + 2) |-> IF k = n + 2 THEN Step(g[n + 1], n + 2) ELSE g[k]]
        <3>2. ASSUME NEW k \in 1..(n + 2)
              PROVE  h[k] = IF k = 1 THEN 1 ELSE Step(h[k - 1], k)
            <4>1. CASE k = n + 2
                <5>1. h[k] = Step(g[n + 1], n + 2) /\ k - 1 = n + 1 /\ h[n + 1] = g[n + 1] /\ k # 1
                    BY <4>1, <2>2
                <5> HIDE DEF h
                <5> QED BY <4>1, <5>1
            <4>2. CASE k \in 1..(n + 1)
                <5>1. h[k] = g[k] /\ (k # 1 => h[k - 1] = g[k - 1])
                    BY <4>2, <2>2
                <5>2. g[k] = IF k = 1 THEN 1 ELSE Step(g[k - 1], k)
                    BY <3>1, <4>2
                <5> HIDE DEF h
                <5> QED BY <5>1, <5>2
            <4> QED BY <2>2, <4>1, <4>2
        <3>3. Is(h, n + 1)
            <4>1. (n + 1) + 1 = n + 2
                BY <2>2
            <4>2. h = [k \in 1..(n + 2) |-> h[k]]
                OBVIOUS
            <4> HIDE DEF h
            <4> QED BY <3>2, <4>1, <4>2
        <3> HIDE DEF h, Is
        <3> QED BY <3>3
    <2>3. Nat \subseteq S
        <3> HIDE DEF S
        <3> QED BY <2>1, <2>2, SetInduction
    <2> QED BY <1>0, <2>3
<1>2. Is(f, N)
    BY <1>1
<1>3. Starts(code) = f
    BY DEF Starts
<1>4. f[1] = 1 /\ \A k \in 1..N : f[k + 1] = Step(f[k], k + 1)
    <2> HIDE DEF f, N, Step
    <2>1. 1 \in 1..(N + 1) /\ f[1] = 1
        BY <1>0, <1>2
    <2>2. ASSUME NEW k \in 1..N PROVE f[k + 1] = Step(f[k], k + 1)
        <3>1. k + 1 \in 1..(N + 1) /\ k + 1 # 1 /\ (k + 1) - 1 = k
            BY <1>0
        <3>2. f[k + 1] = Step(f[(k + 1) - 1], k + 1)
            BY <1>2, <3>1
        <3> QED BY <3>1, <3>2
    <2> QED BY <2>1, <2>2
<1>5. \A k \in 1..N : Step(f[k], k + 1) = f[k] + Length(code[k])
    <2> HIDE DEF f
    <2> SUFFICES ASSUME NEW k \in 1..N PROVE Step(f[k], k + 1) = f[k] + Length(code[k])
        OBVIOUS
    <2>1. (k + 1) - 1 = k
        BY <1>0
    <2> QED BY <2>1
<1> HIDE DEF f, Step
<1> QED BY <1>3, <1>4, <1>5

(* The rounds of decode_function(). *)
DecodingOf(st, bytes) ==
  /\ st[0] = [pos |-> 1, regs |-> {ThisRegister}, accesses |-> {}]
  /\ \A k \in 0..(Len(bytes) - 1) : st[k + 1] = IF st[k].pos > Len(bytes) THEN st[k] ELSE Round(bytes, st[k])

LEMMA DecodingExists ==
  ASSUME NEW bytes, Len(bytes) \in Nat
  PROVE  \E st : DecodingOf(st, bytes) /\ decode_function(bytes) = st[Len(bytes)].accesses
<1> DEFINE N == Len(bytes)
           Fresh == [pos |-> 1, regs |-> {ThisRegister}, accesses |-> {}]
           Step(x) == GoOn(bytes, x)
           Is(g, n) == g = [k \in 0..n |-> IF k = 0 THEN Fresh ELSE Step(g[k - 1])]
           S == {n \in Nat : \E g : Is(g, n)}
           f == CHOOSE g : Is(g, N)
<1>0. N \in Nat
    OBVIOUS
<1>1. N \in S
    <2> HIDE DEF Fresh, Step, N
    <2>1. 0 \in S
        <3>1. Is([k \in 0..0 |-> Fresh], 0)
            OBVIOUS
        <3> QED BY <3>1
    <2>2. ASSUME NEW n \in Nat, n \in S PROVE n + 1 \in S
        <3>1. PICK g : Is(g, n)
            BY <2>2
        <3> DEFINE h == [k \in 0..(n + 1) |-> IF k = n + 1 THEN Step(g[n]) ELSE g[k]]
        <3>2. Is(h, n + 1)
            BY <3>1
        <3> HIDE DEF h, Is
        <3> QED BY <3>2
    <2>3. Nat \subseteq S
        <3> HIDE DEF S
        <3> QED BY <2>1, <2>2, SetInduction
    <2> QED BY <1>0, <2>3
<1>2. Is(f, N)
    BY <1>1
<1>3. decode_function(bytes) = f[N].accesses
    BY DEF decode_function
<1>4. DecodingOf(f, bytes)
    <2>1. f[0] = Fresh /\ \A k \in 0..(N - 1) : f[k + 1] = Step(f[k])
        <3> HIDE DEF f, N, Fresh, Step
        <3> QED BY <1>0, <1>2
    <2> HIDE DEF f
    <2> QED BY <2>1 DEF DecodingOf, GoOn
<1> QED BY <1>3, <1>4

-----------------------------------------------------------------------------
(* From round to round. *)

(* The members that the first n instructions access. *)
MembersTo(code, n) == UNION {MembersOf(code[k], Holders(code)[k]) : k \in 1..n}

(* The n instructions are the ones up to which the analysis came. *)
Passes(bytes, code, st, n) ==
  /\ n \in 0..Len(code) /\ 1..n \subseteq Run(bytes, code)
  /\ Starts(code)[n + 1] \in Nat /\ Starts(code)[n + 1] > n
  /\ st.pos = Starts(code)[n + 1] /\ st.pos <= Len(bytes)
  /\ st.regs = Holders(code)[n + 1]
  /\ OffsetsFound(st) = MembersTo(code, n)
  /\ \A k \in 1..n : IsWhole(bytes, Starts(code)[k], code[k])

Over(bytes, code, st) == st.pos > Len(bytes) /\ OffsetsFound(st) = MembersAccessed(bytes, code)

LEMMA AssembledLies ==
  ASSUME NEW bytes, NEW code, Assembled(bytes, code), NEW k \in DOMAIN code, IsInstruction(code[k])
  PROVE  Lies(bytes, Starts(code)[k], code[k])
<1>1. DOMAIN Encoding(code[k]) = 1..Length(code[k])
    BY EncodedParts
<1>2. \A j \in DOMAIN Encoding(code[k]) : LET p == Starts(code)[k] + j - 1
                                          IN  p <= Len(bytes) => bytes[p] = Encoding(code[k])[j]
    BY DEF Assembled
<1> QED BY <1>1, <1>2 DEF Lies

(* Where the first n instructions are all that run and are there. *)
LEMMA AccessedIs ==
  ASSUME NEW bytes, NEW code, NEW n, 1..n \subseteq Run(bytes, code),
         \A k \in 1..n : IsWhole(bytes, Starts(code)[k], code[k]),
         \A k \in Run(bytes, code) : IsWhole(bytes, Starts(code)[k], code[k]) => k \in 1..n
  PROVE  MembersAccessed(bytes, code) = MembersTo(code, n)
<1> DEFINE W == {x \in Run(bytes, code) : Starts(code)[x] + OperandLength(code[x]) - 1 <= Len(bytes)}
<1>1. W = 1..n
    BY DEF IsWhole
<1>2. MembersAccessed(bytes, code) = UNION {MembersOf(code[k], Holders(code)[k]) : k \in W}
    BY DEF MembersAccessed
<1> HIDE DEF W
<1> QED BY <1>1, <1>2 DEF MembersTo

LEMMA MembersToNext ==
  ASSUME NEW code, NEW n \in Nat
  PROVE  MembersTo(code, n + 1) = MembersTo(code, n) \cup MembersOf(code[n + 1], Holders(code)[n + 1])
<1>1. 1..(n + 1) = 1..n \cup {n + 1}
    OBVIOUS
<1> QED BY <1>1 DEF MembersTo

LEMMA RoundStep ==
  ASSUME NEW bytes \in Seq(Byte), NEW code, IsRow(code), Assembled(bytes, code), AllFollowed(bytes, code),
         NEW st, NEW n, Passes(bytes, code, st, n)
  PROVE  Passes(bytes, code, Round(bytes, st), n + 1) \/ Over(bytes, code, Round(bytes, st))
<1> DEFINE k == n + 1
           L == Len(bytes)
           H == Holders(code)
           s == Starts(code)[n + 1]
           i == code[n + 1]
           r == Round(bytes, st)
<1>0. /\ n \in Nat /\ n <= Len(code) /\ L \in Nat /\ Len(code) \in Nat /\ DOMAIN code = 1..Len(code)
      /\ s \in Nat /\ s > n /\ s <= L /\ st.pos = s /\ st.regs = H[n + 1]
      /\ 1..n \subseteq Run(bytes, code) /\ OffsetsFound(st) = MembersTo(code, n)
      /\ \A x \in 1..n : IsWhole(bytes, Starts(code)[x], code[x])
    BY DEF Passes, IsRow
<1>1. n + 1 \in 1..Len(code)
    <2>1. Starts(code)[Len(code) + 1] > L
        BY DEF Assembled
    <2>2. ASSUME n = Len(code) PROVE FALSE
        <3>1. s > L
            BY <2>1, <2>2
        <3> HIDE DEF s, L
        <3> QED BY <1>0, <3>1
    <2>3. PICK c : c = Len(code)
        OBVIOUS
    <2>4. n \in Nat /\ n <= c /\ c \in Nat /\ n # c
        BY <1>0, <2>2, <2>3
    <2> QED BY <2>3, <2>4
<1>2. \A x \in 1..n : Starts(code)[x] <= L /\ ~Ends(code[x])
    <2> SUFFICES ASSUME NEW x \in 1..n PROVE Starts(code)[x] <= L /\ ~Ends(code[x])
        OBVIOUS
    <2>1. x \in Run(bytes, code) /\ x \in 1..x
        BY <1>0
    <2> QED BY <2>1 DEF Run, Begun
<1>3. n + 1 \in Begun(bytes, code)
    <2>1. \A x \in 1..(n + 1) : Starts(code)[x] <= L /\ (x < n + 1 => ~Ends(code[x]))
        BY <1>0, <1>2
    <2> QED BY <1>0, <1>1, <2>1 DEF Begun
<1>4. IsInstruction(i)
    BY <1>3 DEF AllFollowed
<1>5. Lies(bytes, s, i)
    BY <1>0, <1>1, <1>4, AssembledLies
<1>6. s \in 1..Len(bytes)
    BY <1>0
<1>7. /\ Ends(i) => r.pos > L /\ OffsetsFound(r) = OffsetsFound(st)
      /\ ~Ends(i) /\ Followed(i, st.regs) => Executed(bytes, s, i, st, r)
    <2> HIDE DEF s, i
    <2> QED BY <1>0, <1>4, <1>5, <1>6, RoundIs
<1>8. /\ Starts(code)[n + 2] = s + Length(i) /\ H[n + 2] = AfterIt(i, H[n + 1])
      /\ Length(i) \in Nat /\ OperandLength(i) \in Nat /\ OperandLength(i) <= Length(i) /\ OperandLength(i) >= 1
    <2>1. Starts(code)[(n + 1) + 1] = s + Length(i) /\ H[(n + 1) + 1] = AfterIt(i, H[n + 1])
        BY <1>0, <1>1, HoldersAre, StartsAre
    <2>2. (n + 1) + 1 = n + 2
        BY <1>0
    <2>3. /\ Length(i) \in Nat /\ OperandLength(i) \in Nat /\ OpAt(i) \in Nat
          /\ OpAt(i) + 1 <= OperandLength(i) /\ ImmCount(i) \in Nat
          /\ Length(i) = OperandLength(i) + ImmCount(i)
        BY <1>4, PlacesAre, CountsAre, LengthsAre
    <2> HIDE DEF i, s, H
    <2> QED BY <2>1, <2>2, <2>3
<1>9. ASSUME NEW x \in Run(bytes, code), x > n + 1 PROVE ~Ends(i) /\ Starts(code)[n + 2] <= L
    <2>1. x \in 1..Len(code) /\ \A j \in 1..x : Starts(code)[j] <= L /\ (j < x => ~Ends(code[j]))
        BY <1>0 DEF Run, Begun
    <2>2. n + 1 \in 1..x /\ n + 2 \in 1..x
        BY <1>0, <1>9, <2>1
    <2> QED BY <1>9, <2>1, <2>2
<1>10. \A x \in Run(bytes, code) : x \in 1..n \/ x = n + 1 \/ x > n + 1
    <2> SUFFICES ASSUME NEW x \in Run(bytes, code) PROVE x \in 1..n \/ x = n + 1 \/ x > n + 1
        OBVIOUS
    <2>1. x \in 1..Len(code)
        BY <1>0 DEF Run, Begun
    <2> QED BY <1>0, <2>1
<1> HIDE DEF r, H, i, s
<1>11. CASE Ends(i)
    <2>1. n + 1 \notin Run(bytes, code)
        BY <1>11 DEF Run, i
    <2>2. \A x \in Run(bytes, code) : x \in 1..n
        BY <1>9, <1>10, <1>11, <2>1
    <2>3. MembersAccessed(bytes, code) = MembersTo(code, n)
        BY <1>0, <2>2, AccessedIs
    <2> QED BY <1>0, <1>7, <1>11, <2>3 DEF Over, r
<1>12. CASE ~Ends(i)
    <2>1. n + 1 \in Run(bytes, code)
        BY <1>3, <1>12 DEF Run, i
    <2>2. Executed(bytes, s, i, st, r)
        <3>1. Followed(i, H[n + 1])
            BY <2>1 DEF AllFollowed, i, H
        <3> QED BY <1>0, <1>7, <1>12, <3>1
    <2>3. 1..(n + 1) \subseteq Run(bytes, code)
        <3>1. 1..(n + 1) = 1..n \cup {n + 1}
            BY <1>0
        <3> QED BY <1>0, <2>1, <3>1
    <2>4. CASE IsWhole(bytes, s, i)
        <3>1. /\ r.pos = s + Length(i) /\ r.regs = AfterIt(i, H[n + 1])
              /\ OffsetsFound(r) = OffsetsFound(st) \cup MembersOf(i, H[n + 1])
            BY <1>0, <2>2, <2>4 DEF Executed
        <3>2. OffsetsFound(r) = MembersTo(code, n + 1)
            BY <1>0, <3>1, MembersToNext DEF i, H
        <3>3. \A x \in 1..(n + 1) : IsWhole(bytes, Starts(code)[x], code[x])
            <4>1. \A x \in 1..(n + 1) : x \in 1..n \/ x = n + 1
                BY <1>0
            <4> QED BY <1>0, <2>4, <4>1 DEF s, i
        <3>4. CASE r.pos <= L
            <4>1. (n + 1) + 1 = n + 2 /\ n + 1 \in 0..Len(code)
                BY <1>0, <1>1
            <4>2. Starts(code)[n + 2] \in Nat /\ Starts(code)[n + 2] > n + 1 /\ r.pos = Starts(code)[n + 2]
                BY <1>0, <1>8, <3>1
            <4>3. r.regs = H[n + 2]
                BY <1>8, <3>1
            <4>4. Passes(bytes, code, r, n + 1)
                BY <2>3, <3>2, <3>3, <3>4, <4>1, <4>2, <4>3 DEF Passes, H
            <4> QED BY <4>4 DEF r
        <3>5. CASE ~(r.pos <= L)
            <4>1. Starts(code)[n + 2] \in Nat /\ r.pos = Starts(code)[n + 2] /\ r.pos > L
                BY <1>0, <1>8, <3>1, <3>5
            <4>2. \A x \in Run(bytes, code) : ~(x > n + 1)
                BY <1>0, <1>9, <4>1
            <4>3. \A x \in Run(bytes, code) : x \in 1..(n + 1)
                <5>1. \A x : x \in 1..n \/ x = n + 1 => x \in 1..(n + 1)
                    BY <1>0
                <5> QED BY <1>10, <4>2, <5>1
            <4>4. MembersAccessed(bytes, code) = MembersTo(code, n + 1)
                BY <2>3, <3>3, <4>3, AccessedIs
            <4> QED BY <3>2, <4>1, <4>4 DEF Over, r
        <3> QED BY <3>4, <3>5
    <2>5. CASE ~IsWhole(bytes, s, i)
        <3>1. r.pos > L /\ OffsetsFound(r) = MembersTo(code, n)
            BY <1>0, <2>2, <2>5 DEF Executed
        <3>2. Starts(code)[n + 2] > L
            BY <1>0, <1>8, <2>5 DEF IsWhole
        <3>3. \A x \in Run(bytes, code) : ~(x > n + 1)
            <4>1. Starts(code)[n + 2] \in Nat
                BY <1>0, <1>8
            <4> QED BY <1>0, <1>9, <3>2, <4>1
        <3>4. \A x \in Run(bytes, code) : IsWhole(bytes, Starts(code)[x], code[x]) => x \in 1..n
            BY <1>10, <2>5, <3>3 DEF s, i
        <3>5. MembersAccessed(bytes, code) = MembersTo(code, n)
            BY <1>0, <3>4, AccessedIs
        <3> QED BY <3>1, <3>5 DEF Over, r
    <2> QED BY <2>4, <2>5
<1> QED BY <1>11, <1>12

(* decode_function() finds the members that the instructions access, if it follows them. *)
LEMMA DecodesAsExecuted ==
  ASSUME NEW bytes \in Seq(Byte), bytes # << >>, NEW code, IsRow(code), Assembled(bytes, code), AllFollowed(bytes, code)
  PROVE  {a.offset : a \in decode_function(bytes)} = MembersAccessed(bytes, code)
<1> DEFINE N == Len(bytes)
<1>1. N \in Nat /\ N >= 1 /\ Len(code) \in Nat
    BY DEF IsRow
<1>2. PICK st : DecodingOf(st, bytes) /\ decode_function(bytes) = st[N].accesses
    BY <1>1, DecodingExists
<1> HIDE DEF N
<1> DEFINE S == {n \in 0..N : Passes(bytes, code, st[n], n) \/ Over(bytes, code, st[n])}
<1>3. 0 \in S
    <2>1. st[0] = [pos |-> 1, regs |-> {ThisRegister}, accesses |-> {}]
        BY <1>2, Zenon DEF DecodingOf
    <2>2. st[0].pos = 1 /\ st[0].regs = {ThisRegister} /\ OffsetsFound(st[0]) = {}
        BY <2>1 DEF OffsetsFound, OffsetsIn
    <2>3. Starts(code)[1] = 1 /\ Holders(code)[1] = {ThisRegister}
        BY <1>1, StartsAre, HoldersAre
    <2>4. MembersTo(code, 0) = {} /\ 1..0 = {} /\ 0 + 1 = 1
        BY DEF MembersTo
    <2>5. Passes(bytes, code, st[0], 0)
        BY <1>1, <2>2, <2>3, <2>4 DEF Passes, N
    <2> QED BY <1>1, <2>5
<1>4. ASSUME NEW n \in 0..(N - 1), n \in S PROVE n + 1 \in S
    <2>1. st[n + 1] = IF st[n].pos > N THEN st[n] ELSE Round(bytes, st[n])
        BY <1>2, Zenon DEF DecodingOf, N
    <2>2. n + 1 \in 0..N
        BY <1>1
    <2>3. CASE Over(bytes, code, st[n])
        <3>1. st[n + 1] = st[n]
            BY <2>1, <2>3 DEF Over, N
        <3> QED BY <2>2, <2>3, <3>1
    <2>4. CASE Passes(bytes, code, st[n], n)
        <3>1. st[n + 1] = Round(bytes, st[n])
            <4>1. st[n].pos \in Nat /\ st[n].pos <= N
                BY <2>4 DEF Passes, N
            <4> QED BY <1>1, <2>1, <4>1
        <3>2. Passes(bytes, code, st[n + 1], n + 1) \/ Over(bytes, code, st[n + 1])
            BY <2>4, <3>1, RoundStep
        <3> QED BY <2>2, <3>2
    <2> QED BY <1>4, <2>3, <2>4
<1>5. 0..N \subseteq S
    <2> HIDE DEF S
    <2> QED BY <1>1, <1>3, <1>4, StepInduction
<1>6. ~Passes(bytes, code, st[N], N)
    BY <1>1 DEF Passes, N
<1>7. Over(bytes, code, st[N])
    BY <1>1, <1>5, <1>6
<1> QED BY <1>2, <1>7 DEF Over, OffsetsFound, OffsetsIn

(* What analyze_class() reports of one function is what it decodes of it. *)
LEMMA ReportedAsDecoded ==
  ASSUME NEW functions, NEW k \in DOMAIN functions, ~is_stub(functions[k].bytes)
  PROVE  ReportedOf(analyze_class(functions), k) = {a.offset : a \in decode_function(functions[k].bytes)}
<1> DEFINE accesses == [i \in {j \in DOMAIN functions : ~is_stub(functions[j].bytes)} |->
                          decode_function(functions[i].bytes)]
           all == UNION {accesses[i] : i \in DOMAIN accesses}
           Users(o) == {i \in DOMAIN accesses : \E a \in accesses[i] : a.offset = o}
           layout == analyze_class(functions)
<1>1. /\ DOMAIN layout = {a.offset : a \in all}
      /\ \A o \in DOMAIN layout : layout[o].funcs = Users(o)
    BY DEF analyze_class, Merged
<1>2. k \in DOMAIN accesses /\ accesses[k] = decode_function(functions[k].bytes)
    OBVIOUS
<1> HIDE DEF accesses, layout
<1>3. {a.offset : a \in accesses[k]} \subseteq DOMAIN layout
    BY <1>1, <1>2
<1>4. \A o : k \in Users(o) <=> o \in {a.offset : a \in accesses[k]}
    BY <1>2
<1> HIDE DEF Users
<1>5. ReportedOf(layout, k) = {a.offset : a \in accesses[k]}
    BY <1>1, <1>3, <1>4 DEF ReportedOf
<1> QED BY <1>2, <1>5 DEF layout

LEMMA LayoutIs ==
  ASSUME NEW vtables, NEW c \in DOMAIN LayoutsOf(vtables)
  PROVE  /\ \E v \in vtables : v.class = c
         /\ LayoutsOf(vtables)[c] = analyze_class((CHOOSE v \in vtables : v.class = c).functions)
BY DEF LayoutsOf, NonEmpty

-----------------------------------------------------------------------------
(* From the export to the files: what the generators leave is what the task of
   the module yields, under the name of the module.                           *)

ModulesInv ==
  /\ step = "parse" => modules = << >> /\ member_layouts = << >> /\ signatures = << >>
  /\ modules = [i \in DOMAIN modules |-> [name    |-> modules[i].name,
                                          classes |-> modules[i].classes,
                                          enums   |-> modules[i].enums]]
  /\ \E n \in Nat : DOMAIN modules = 1..n
  /\ \A i \in DOMAIN modules : /\ export # << >> /\ i \in DOMAIN export.modules
                               /\ modules[i].name = export.modules[i].name

NamesDiffer == \A i, j \in DOMAIN modules : modules[i].name = modules[j].name => i = j

FilesInv ==
  \A i \in DOMAIN modules :
    /\ modules[i].name \in DOMAIN member_layouts =>
         member_layouts[modules[i].name] = LayoutsOf(export.modules[i].vtables)
    /\ modules[i].name \in DOMAIN signatures =>
         signatures[modules[i].name] = process_module(export.modules[i].vtables)

FInv == ExportInv /\ ModulesInv /\ NamesDiffer /\ FilesInv

LEMMA FilesInit == Init => FInv
<1> SUFFICES ASSUME Init PROVE FInv
    OBVIOUS
<1>1. ExportInv
    BY ExportInvInit DEF Init
<1>2. DOMAIN << >> = {} /\ << >> = [i \in {} |-> [name    |-> << >>[i].name,
                                               classes |-> << >>[i].classes,
                                               enums   |-> << >>[i].enums]]
    OBVIOUS
<1>3. 0 \in Nat /\ DOMAIN << >> = 1..0
    OBVIOUS
<1>4. modules = << >> /\ member_layouts = << >> /\ signatures = << >>
    BY DEF Init, ExeInit, GenInit
<1>5. ModulesInv
    BY <1>2, <1>3, <1>4 DEF ModulesInv
<1> QED BY <1>1, <1>2, <1>4, <1>5 DEF FInv, NamesDiffer, FilesInv

LEMMA ExportStays == ASSUME ExportInv, UNCHANGED dumpVars PROVE ExportInv'
BY ExportFrame DEF dumpVars, schemaVars, workerVars

LEMMA DumpKeepsFiles ==
  ASSUME IInv, FInv, DumpNext, UNCHANGED <<exeVars, genVars>> PROVE FInv'
<1>1. phase # "done"
    BY DEF DumpNext, PhaseSchema, PhaseRtti, PhaseGlobals, PhasePatterns, PhaseReferences, WriteExport, ResolveRtti
<1>2. modules = << >> /\ UNCHANGED <<step, modules, member_layouts, signatures>> /\ step = "parse"
    BY <1>1 DEF IInv, Order, FInv, ModulesInv, exeVars, genVars
<1>3. ExportInv'
    BY ExportInvStep DEF FInv
<1>4. DOMAIN << >> = {}
    OBVIOUS
<1> QED BY <1>2, <1>3, <1>4 DEF FInv, ModulesInv, NamesDiffer, FilesInv

LEMMA ExeKeepsFiles ==
  ASSUME IInv, FInv, ExeNext, UNCHANGED <<dumpVars, genVars>> PROVE FInv'
<1>1. ExportInv' /\ UNCHANGED <<export, member_layouts, signatures>>
    BY ExportStays DEF FInv, genVars, dumpVars, workerVars
<1>2. CASE ParseExport
    <2>1. modules = << >> /\ member_layouts = << >> /\ signatures = << >> /\ step' # "parse"
        BY <1>2 DEF ParseExport, FInv, ModulesInv
    <2>2. CASE export = << >>
        <3>1. modules' = modules
            BY <1>2, <2>2 DEF ParseExport
        <3> QED BY <1>1, <2>1, <3>1 DEF FInv, ModulesInv, NamesDiffer, FilesInv
    <2>3. CASE export # << >>
        <3>1. modules' = [i \in DOMAIN export.modules |->
                            [name    |-> export.modules[i].name,
                             classes |-> export.modules[i].classes,
                             enums   |-> export.modules[i].enums]]
            BY <1>2, <2>3 DEF ParseExport
        <3>2. \A i, j \in DOMAIN export.modules : export.modules[i].name = export.modules[j].name => i = j
            BY <2>3 DEF FInv, ExportInv, Exported
        <3>3. NamesDiffer'
            <4>1. /\ DOMAIN modules' = DOMAIN export.modules
                  /\ \A i \in DOMAIN export.modules : modules'[i].name = export.modules[i].name
                BY <3>1
            <4> DEFINE mods == modules'
            <4>2. \A i, j \in DOMAIN mods : mods[i].name = mods[j].name => i = j
                BY <3>2, <4>1
            <4> QED BY <4>2 DEF NamesDiffer
        <3>4. ModulesInv'
            <4>1. \E n \in Nat : DOMAIN export.modules = 1..n
                BY <2>3 DEF FInv, ExportInv, Exported
            <4> QED BY <1>1, <2>1, <2>3, <3>1, <4>1 DEF ModulesInv
        <3>5. FilesInv'
            <4>1. DOMAIN << >> = {}
                OBVIOUS
            <4> QED BY <1>1, <2>1, <4>1 DEF FilesInv
        <3> QED BY <1>1, <3>3, <3>4, <3>5 DEF FInv
    <2> QED BY <2>2, <2>3
<1>3. CASE EmitModule
    <2>1. \E x : modules' \in {modules, [modules EXCEPT ![emitted + 1].classes = x]}
        BY <1>3 DEF EmitModule
    <2>2. step = "modules" /\ step' # "parse"
        BY <1>3 DEF EmitModule
    <2>3. /\ DOMAIN modules' = DOMAIN modules
          /\ \A i \in DOMAIN modules : modules'[i].name = modules[i].name
          /\ modules' = [i \in DOMAIN modules' |-> [name    |-> modules'[i].name,
                                                    classes |-> modules'[i].classes,
                                                    enums   |-> modules'[i].enums]]
        <3>1. modules = [i \in DOMAIN modules |-> [name    |-> modules[i].name,
                                                   classes |-> modules[i].classes,
                                                   enums   |-> modules[i].enums]]
            BY DEF FInv, ModulesInv
        <3> QED BY <2>1, <3>1
    <2> QED BY <1>1, <2>2, <2>3 DEF FInv, ModulesInv, NamesDiffer, FilesInv
<1>4. CASE BuildLookup \/ WriteTrees
    <2>1. modules' = modules /\ step' # "parse"
        BY <1>4 DEF BuildLookup, WriteTrees
    <2> QED BY <1>1, <2>1 DEF FInv, ModulesInv, NamesDiffer, FilesInv
<1> QED BY <1>2, <1>3, <1>4 DEF ExeNext

LEMMA TaskOfLayouts == \A i : Task("layouts", i) = LayoutsOf(export.modules[i].vtables)
BY DEF Task

(* What is stored under the name of a module is the result of that module. *)
LEMMA ByNameIs ==
  ASSUME NamesDiffer, NEW i \in DOMAIN modules, NEW empty, modules[i].name \in DOMAIN ByName(empty),
         DOMAIN pool.results \subseteq DOMAIN modules
  PROVE  i \in DOMAIN pool.results /\ ByName(empty)[modules[i].name] = pool.results[i]
<1> DEFINE kept == {x \in DOMAIN pool.results : pool.results[x] # empty}
<1>1. PICK x \in kept : modules[x].name = modules[i].name
    BY DEF ByName
<1>2. \A y \in kept : modules[y].name = modules[i].name => y = i
    BY DEF NamesDiffer
<1>3. ByName(empty)[modules[i].name] = pool.results[CHOOSE y \in kept : modules[y].name = modules[i].name]
    BY DEF ByName
<1> HIDE DEF kept
<1>4. (CHOOSE y \in kept : modules[y].name = modules[i].name) = i
    BY <1>1, <1>2
<1> QED BY <1>1, <1>2, <1>3, <1>4 DEF kept

LEMMA GenKeepsFiles ==
  ASSUME IInv, RInv, FInv, GenNext, UNCHANGED dumpVars PROVE FInv'
<1>1. ExportInv' /\ export' = export
    BY ExportStays DEF FInv, dumpVars, workerVars
<1>2. \/ modules' = modules /\ step # "parse" /\ step' # "parse"
      \/ UNCHANGED <<step, modules, member_layouts, signatures>>
    <2>1. ASSUME NEW job \in ToSet(Jobs), Skip(job) PROVE modules' = modules /\ step # "parse" /\ step' # "parse"
        BY <2>1, JobSteps, StepAfter DEF Skip
    <2>2. ASSUME Join PROVE modules' = modules /\ step # "parse" /\ step' # "parse"
        BY <2>2, JobSteps, StepAfter DEF Join, IInv, PoolBooks
    <2>3. ASSUME NEW job \in ToSet(Jobs), Start(job) PROVE UNCHANGED <<step, modules, member_layouts, signatures>>
        BY <2>3 DEF Start, exeVars
    <2>4. ASSUME NEW t \in 1..HwThreads, Take(t) \/ Store(t)
          PROVE  UNCHANGED <<step, modules, member_layouts, signatures>>
        BY <2>4 DEF Take, Store, exeVars
    <2> QED BY <2>1, <2>2, <2>3, <2>4 DEF GenNext
<1>3. modules' = modules
    BY <1>2
<1>4. ModulesInv' /\ NamesDiffer'
    BY <1>1, <1>2, <1>3 DEF FInv, ModulesInv, NamesDiffer
<1>5. FilesInv'
    <2>1. CASE Join
        <3>1. /\ member_layouts' = IF step = "layouts" THEN ByName(<< >>) ELSE member_layouts
              /\ signatures' = IF step = "signatures" THEN ByName({}) ELSE signatures
            BY <2>1 DEF Join
        <3>2. pool.running /\ \A i \in DOMAIN pool.results : pool.results[i] = Task(step, i)
            BY <2>1 DEF Join, RInv, ResultsRight
        <3>3. DOMAIN pool.results \subseteq DOMAIN modules
            BY <3>2 DEF IInv, PoolBooks, Work
        <3>4. ASSUME NEW i \in DOMAIN modules, modules[i].name \in DOMAIN member_layouts'
              PROVE  member_layouts'[modules[i].name] = LayoutsOf(export.modules[i].vtables)
            <4>1. CASE step = "layouts"
                <5>1. member_layouts' = ByName(<< >>)
                    BY <3>1, <4>1
                <5>2. i \in DOMAIN pool.results /\ member_layouts'[modules[i].name] = pool.results[i]
                    BY <3>3, <3>4, <5>1, ByNameIs DEF FInv
                <5> QED BY <3>2, <4>1, <5>2, TaskOfLayouts
            <4>2. CASE step # "layouts"
                BY <3>1, <3>4, <4>2 DEF FInv, FilesInv
            <4> QED BY <4>1, <4>2
        <3>5. ASSUME NEW i \in DOMAIN modules, modules[i].name \in DOMAIN signatures'
              PROVE  signatures'[modules[i].name] = process_module(export.modules[i].vtables)
            <4>1. CASE step = "signatures"
                <5>1. signatures' = ByName({})
                    BY <3>1, <4>1
                <5>2. i \in DOMAIN pool.results /\ signatures'[modules[i].name] = pool.results[i]
                    BY <3>3, <3>5, <5>1, ByNameIs DEF FInv
                <5> QED BY <3>2, <4>1, <5>2, TaskOfSignatures
            <4>2. CASE step # "signatures"
                BY <3>1, <3>5, <4>2 DEF FInv, FilesInv
            <4> QED BY <4>1, <4>2
        <3> QED BY <1>1, <1>3, <3>4, <3>5 DEF FilesInv
    <2>2. CASE UNCHANGED <<member_layouts, signatures>>
        BY <1>1, <1>3, <2>2 DEF FInv, FilesInv
    <2>3. ASSUME NEW job \in ToSet(Jobs), Skip(job) \/ Start(job) PROVE UNCHANGED <<member_layouts, signatures>>
        BY <2>3 DEF Skip, Start, genVars
    <2>4. ASSUME NEW t \in 1..HwThreads, Take(t) \/ Store(t) PROVE UNCHANGED <<member_layouts, signatures>>
        BY <2>4 DEF Take, Store
    <2> QED BY <2>1, <2>2, <2>3, <2>4 DEF GenNext
<1> QED BY <1>1, <1>4, <1>5 DEF FInv

LEMMA NextKeepsFiles == IInv /\ RInv /\ FInv /\ [Next]_<<dumpVars, exeVars, genVars>> => FInv'
<1> SUFFICES ASSUME IInv, RInv, FInv, [Next]_<<dumpVars, exeVars, genVars>> PROVE FInv'
    OBVIOUS
<1>1. CASE UNCHANGED <<dumpVars, exeVars, genVars>>
    <2>1. UNCHANGED <<step, modules, export, member_layouts, signatures>>
        BY <1>1 DEF dumpVars, workerVars, exeVars, genVars
    <2>2. ExportInv'
        BY <1>1, ExportStays DEF FInv
    <2> QED BY <2>1, <2>2 DEF FInv, ModulesInv, NamesDiffer, FilesInv
<1>2. CASE DumpNext /\ UNCHANGED <<exeVars, genVars>>
    BY <1>2, DumpKeepsFiles
<1>3. CASE ExeNext /\ UNCHANGED <<dumpVars, genVars>>
    BY <1>3, ExeKeepsFiles
<1>4. CASE GenNext /\ UNCHANGED dumpVars
    BY <1>4, GenKeepsFiles
<1> QED BY <1>1, <1>2, <1>3, <1>4 DEF Next

LEMMA FilesInductive == Spec => [](IInv /\ RInv /\ FInv)
<1>1. Init => RInv
    BY DEF Init, ExeInit, GenInit, Idle, RInv, ResultsRight, NotParsed, PoolsComplete
<1> QED BY <1>1, FilesInit, Inductive, NextKeepsResults, NextKeepsFiles, PTL DEF Spec

(* The bytes of every exported function are those of its instructions. *)
LEMMA ExportedRows ==
  ASSUME ExportInv, export # << >>, NEW i \in DOMAIN export.modules, NEW v \in export.modules[i].vtables,
         NEW k \in DOMAIN v.functions
  PROVE  LET code == Loaded(export.modules[i].name).text[v.functions[k].rva].code
         IN  IsRow(code) /\ v.functions[k].bytes \in Seq(Byte) /\ Assembled(v.functions[k].bytes, code)
<1> DEFINE m == export.modules[i].name
<1>1. m \in LoadedNames /\ \E f \in DOMAIN Loaded(m).text : v.functions[k] = BodyOf(m, f)
    BY DEF ExportInv, Exported
<1> HIDE DEF m
<1>2. PICK f \in DOMAIN Loaded(m).text : v.functions[k] = BodyOf(m, f)
    BY <1>1
<1>3. v.functions[k].rva = f /\ v.functions[k].bytes = Loaded(m).text[f].bytes
    BY <1>2 DEF BodyOf
<1>4. IsRow(Loaded(m).text[f].code)
    BY <1>1, LoadedIs, RowsAssumption DEF ExportInv
<1>5. Loaded(m).text[f].bytes \in Seq(Byte) /\ Assembled(Loaded(m).text[f].bytes, Loaded(m).text[f].code)
    BY <1>1, LoadedIs, BytesAssumption DEF ExportInv
<1> QED BY <1>3, <1>4, <1>5 DEF m

LEMMA FilesImply == FInv => MembersAsExecuted
<1> DEFINE F(i, c, k) == FunctionsOf(i, c)[k]
           Code(i, c, k) == Loaded(modules[i].name).text[F(i, c, k).rva].code
<1> SUFFICES ASSUME FInv, NEW i \in DOMAIN modules, modules[i].name \in DOMAIN member_layouts,
                    NEW c \in DOMAIN member_layouts[modules[i].name], NEW k \in DOMAIN FunctionsOf(i, c),
                    AllFollowed(F(i, c, k).bytes, Code(i, c, k)), ~is_stub(F(i, c, k).bytes)
             PROVE  ReportedOf(member_layouts[modules[i].name][c], k)
                      = MembersAccessed(F(i, c, k).bytes, Code(i, c, k))
    BY DEF MembersAsExecuted
<1> DEFINE vtables == export.modules[i].vtables
           v == CHOOSE x \in vtables : x.class = c
<1>1. member_layouts[modules[i].name] = LayoutsOf(vtables)
    BY DEF FInv, FilesInv
<1>2. v \in vtables /\ member_layouts[modules[i].name][c] = analyze_class(v.functions)
    <2>1. c \in DOMAIN LayoutsOf(vtables)
        BY <1>1
    <2>2. (\E x \in vtables : x.class = c) /\ LayoutsOf(vtables)[c] = analyze_class(v.functions)
        <3> HIDE DEF vtables
        <3> QED BY <2>1, LayoutIs, Zenon
    <2>3. v \in vtables
        <3> HIDE DEF vtables
        <3> QED BY <2>2
    <2> QED BY <1>1, <2>2, <2>3
<1>3. FunctionsOf(i, c) = v.functions /\ F(i, c, k) = v.functions[k]
    BY DEF FunctionsOf
<1>4. export # << >> /\ i \in DOMAIN export.modules /\ modules[i].name = export.modules[i].name /\ ExportInv
    BY DEF FInv, ModulesInv
<1> HIDE DEF v
<1>5. IsRow(Code(i, c, k)) /\ F(i, c, k).bytes \in Seq(Byte) /\ Assembled(F(i, c, k).bytes, Code(i, c, k))
    BY <1>2, <1>3, <1>4, ExportedRows
<1>6. F(i, c, k).bytes # << >>
    BY DEF is_stub
<1> HIDE DEF F, Code
<1>7. {a.offset : a \in decode_function(F(i, c, k).bytes)} = MembersAccessed(F(i, c, k).bytes, Code(i, c, k))
    BY <1>5, <1>6, DecodesAsExecuted
<1>8. ReportedOf(analyze_class(v.functions), k) = {a.offset : a \in decode_function(F(i, c, k).bytes)}
    BY <1>3, ReportedAsDecoded
<1> QED BY <1>2, <1>7, <1>8

(* What analyze_members() reads off the bytes of a function, as far as it reads, *)
(* is what the instructions encoded in them access when they run, whatever they  *)
(* are as long as AllFollowed holds: the decoder of decode_function() keeps pace *)
(* with the processor and its registers hold this when those of the processor do. *)
THEOREM MembersAreExecuted == Spec => []MembersAsExecuted
<1> QED BY FilesImply, FilesInductive, PTL
-----------------------------------------------------------------------------
(* Signatures: the least and the greatest of a set, and how long two rows of
   tokens agree.                                                              *)
LEMMA GreatestIs ==
  ASSUME NEW n \in Nat, NEW S \in SUBSET 0..n, S # {}
  PROVE  Max(S) \in S /\ \A x \in S : x <= Max(S)
<1> DEFINE T == {n - x : x \in S}
<1>1. T \in SUBSET Nat /\ T # {}
    <2>1. \A x \in S : n - x \in Nat
        OBVIOUS
    <2>2. PICK x \in S : TRUE
        OBVIOUS
    <2>3. n - x \in T
        BY <2>2
    <2> QED BY <2>1, <2>3
<1>2. PICK t \in T : \A y \in T : t <= y
    <2> HIDE DEF T
    <2> QED BY <1>1, LeastNat
<1>3. PICK x \in S : t = n - x
    BY <1>2
<1>4. ASSUME NEW y \in S PROVE x >= y
    <2>1. n - y \in T
        OBVIOUS
    <2>2. n - x <= n - y
        <3> HIDE DEF T
        <3> QED BY <1>2, <1>3, <2>1
    <2> QED BY <2>2
<1>5. \E z \in S : \A y \in S : z >= y
    BY <1>4
<1>6. Max(S) \in S /\ \A y \in S : Max(S) >= y
    BY <1>5, Zenon DEF Max
<1> QED BY <1>6

LEMMA LeastIs ==
  ASSUME NEW S \in SUBSET Nat, S # {}
  PROVE  Min(S) \in S /\ \A x \in S : Min(S) <= x
<1>1. PICK z \in S : \A y \in S : z <= y
    BY LeastNat
<1>2. Min(S) \in S /\ \A y \in S : Min(S) <= y
    BY <1>1, Zenon DEF Min
<1> QED BY <1>2

\* Two rows agree in their first k tokens.
Agree(a, b, k) == k \in 0..Len(a) /\ k \in 0..Len(b) /\ \A i \in 1..k : a[i] = b[i]

LEMMA TokenIs == ASSUME NEW a \in Seq(Nat), NEW i \in Nat, i < Len(a) PROVE i + 1 \in DOMAIN a /\ a[i + 1] \in Nat
<1>1. i + 1 \in 1..Len(a) /\ DOMAIN a = 1..Len(a) /\ Len(a) \in Nat
    OBVIOUS
<1>2. \A n \in 1..Len(a) : a[n] \in Nat
    OBVIOUS
<1> QED BY <1>1, <1>2

LEMMA DivergenceIs ==
  ASSUME NEW a \in Seq(Nat), NEW b \in Seq(Nat)
  PROVE  LET d == find_divergence(a, b)
         IN  /\ d \in Nat /\ Agree(a, b, d)
             /\ d = Len(a) \/ d = Len(b) \/ (d < Len(a) /\ d < Len(b) /\ a[d + 1] # b[d + 1])
<1> DEFINE m == Min({Len(a), Len(b)})
           differ == {i \in 1..m : a[i] # b[i]}
           d == find_divergence(a, b)
<1>1. m \in Nat /\ m <= Len(a) /\ m <= Len(b) /\ (m = Len(a) \/ m = Len(b))
    <2>1. {Len(a), Len(b)} \in SUBSET Nat /\ {Len(a), Len(b)} # {}
        OBVIOUS
    <2>2. m \in {Len(a), Len(b)} /\ \A x \in {Len(a), Len(b)} : m <= x
        BY <2>1, LeastIs, Zenon
    <2> HIDE DEF m
    <2> QED BY <2>2
<1>2. d = IF differ = {} THEN m ELSE Min(differ) - 1
    BY DEF find_divergence
<1> HIDE DEF m, d
<1>3. CASE differ = {}
    <2>1. d = m /\ \A i \in 1..m : a[i] = b[i]
        BY <1>2, <1>3
    <2> QED BY <1>1, <2>1 DEF d, Agree
<1>4. CASE differ # {}
    <2>1. Min(differ) \in differ /\ \A x \in differ : Min(differ) <= x
        <3>1. differ \in SUBSET Nat
            BY <1>1
        <3> HIDE DEF differ
        <3> QED BY <1>4, <3>1, LeastIs
    <2>2. d = Min(differ) - 1
        BY <1>2, <1>4
    <2> DEFINE x == Min(differ)
    <2>3. x \in 1..m /\ a[x] # b[x] /\ d = x - 1 /\ \A i \in 1..(x - 1) : i \notin differ
        <3>1. x \in differ /\ d = x - 1 /\ \A i \in differ : x <= i
            BY <2>1, <2>2
        <3> HIDE DEF x
        <3>2. x \in 1..m /\ a[x] # b[x]
            BY <3>1
        <3>3. \A i \in 1..(x - 1) : i \notin differ
            <4> HIDE DEF differ
            <4> QED BY <1>1, <3>1, <3>2
        <3> QED BY <3>1, <3>2, <3>3
    <2> HIDE DEF x
    <2>4. ASSUME NEW i \in 1..d PROVE a[i] = b[i]
        <3>1. i \in 1..(x - 1) /\ i \in 1..m
            BY <1>1, <2>3
        <3> QED BY <2>3, <3>1
    <2> QED BY <1>1, <2>3, <2>4 DEF Agree, d
<1> QED BY <1>3, <1>4

LEMMA AgreeIs ==
  ASSUME NEW a \in Seq(Nat), NEW b \in Seq(Nat), NEW k \in Nat
  PROVE  Agree(a, b, k) <=> k <= find_divergence(a, b) /\ k <= Len(a) /\ k <= Len(b)
<1> DEFINE d == find_divergence(a, b)
<1>1. /\ d \in Nat /\ Agree(a, b, d)
      /\ d = Len(a) \/ d = Len(b) \/ (d < Len(a) /\ d < Len(b) /\ a[d + 1] # b[d + 1])
    BY DivergenceIs
<1> HIDE DEF d
<1>2. ASSUME Agree(a, b, k) PROVE k <= d /\ k <= Len(a) /\ k <= Len(b)
    <2>1. k <= Len(a) /\ k <= Len(b) /\ \A i \in 1..k : a[i] = b[i]
        BY <1>2 DEF Agree
    <2>2. d < k => d + 1 \in 1..k
        BY <1>1
    <2> QED BY <1>1, <2>1, <2>2
<1>3. ASSUME k <= d, k <= Len(a), k <= Len(b) PROVE Agree(a, b, k)
    BY <1>1, <1>3 DEF Agree
<1> QED BY <1>2, <1>3 DEF d

\* Where the order of two rows is decided.
LEMMA LessIs ==
  ASSUME NEW a \in Seq(Nat), NEW b \in Seq(Nat)
  PROVE  TokensLess(a, b) <=>
           \E k \in Nat : Agree(a, b, k) /\ k < Len(b) /\ (k = Len(a) \/ (k < Len(a) /\ a[k + 1] < b[k + 1]))
<1>1. ASSUME TokensLess(a, b)
      PROVE  \E k \in Nat : Agree(a, b, k) /\ k < Len(b) /\ (k = Len(a) \/ (k < Len(a) /\ a[k + 1] < b[k + 1]))
    <2>1. PICK d \in DOMAIN b : /\ \A i \in 1..(d - 1) : i \in DOMAIN a /\ a[i] = b[i]
                                /\ d = Len(a) + 1 \/ (d \in DOMAIN a /\ a[d] < b[d])
        BY <1>1 DEF TokensLess
    <2>2. Agree(a, b, d - 1) /\ d - 1 \in Nat /\ d - 1 < Len(b)
        BY <2>1 DEF Agree
    <2>3. d - 1 = Len(a) \/ (d - 1 < Len(a) /\ a[(d - 1) + 1] < b[(d - 1) + 1])
        BY <2>1
    <2> QED BY <2>2, <2>3
<1>2. ASSUME NEW k \in Nat, Agree(a, b, k), k < Len(b), k = Len(a) \/ (k < Len(a) /\ a[k + 1] < b[k + 1])
      PROVE  TokensLess(a, b)
    <2>1. /\ k + 1 \in DOMAIN b
          /\ \A i \in 1..((k + 1) - 1) : i \in DOMAIN a /\ a[i] = b[i]
          /\ k + 1 = Len(a) + 1 \/ (k + 1 \in DOMAIN a /\ a[k + 1] < b[k + 1])
        BY <1>2 DEF Agree
    <2> QED BY <2>1 DEF TokensLess
<1> QED BY <1>1, <1>2

\* With the divergence as the place.
LEMMA LessAtDivergence ==
  ASSUME NEW a \in Seq(Nat), NEW b \in Seq(Nat)
  PROVE  LET d == find_divergence(a, b)
         IN  TokensLess(a, b) <=> d < Len(b) /\ (d = Len(a) \/ (d < Len(a) /\ a[d + 1] < b[d + 1]))
<1> DEFINE d == find_divergence(a, b)
<1>1. /\ d \in Nat /\ Agree(a, b, d)
      /\ d = Len(a) \/ d = Len(b) \/ (d < Len(a) /\ d < Len(b) /\ a[d + 1] # b[d + 1])
    BY DivergenceIs
<1>2. ASSUME NEW k \in Nat, Agree(a, b, k), k < Len(b), k = Len(a) \/ (k < Len(a) /\ a[k + 1] < b[k + 1])
      PROVE  k = d
    <2>1. k <= d
        BY <1>2, AgreeIs
    <2> HIDE DEF d
    <2>2. ASSUME k < d PROVE FALSE
        <3>1. k + 1 \in 1..d /\ k + 1 \in 1..Len(a)
            BY <1>1, <2>2 DEF Agree
        <3>2. a[k + 1] = b[k + 1]
            BY <1>1, <3>1 DEF Agree
        <3>3. a[k + 1] \in Nat
            BY <3>1
        <3> QED BY <1>2, <3>1, <3>2, <3>3
    <2> QED BY <1>1, <2>1, <2>2
<1> HIDE DEF d
<1> QED BY <1>1, <1>2, LessIs DEF d

LEMMA LessOrEqual ==
  ASSUME NEW a \in Seq(Nat), NEW b \in Seq(Nat)
  PROVE  TokensLess(a, b) \/ a = b \/ TokensLess(b, a)
<1> DEFINE d == find_divergence(a, b)
<1>1. /\ d \in Nat /\ Agree(a, b, d)
      /\ d = Len(a) \/ d = Len(b) \/ (d < Len(a) /\ d < Len(b) /\ a[d + 1] # b[d + 1])
    BY DivergenceIs
<1> HIDE DEF d
<1>2. CASE d = Len(a) /\ d = Len(b)
    <2>1. Len(a) = Len(b) /\ \A i \in 1..Len(a) : a[i] = b[i]
        BY <1>1, <1>2 DEF Agree
    <2> QED BY <2>1, SeqEqual
<1>3. CASE d < Len(b) /\ (d = Len(a) \/ (d < Len(a) /\ a[d + 1] < b[d + 1]))
    BY <1>1, <1>3, LessIs
<1>4. CASE d < Len(a) /\ (d = Len(b) \/ (d < Len(b) /\ b[d + 1] < a[d + 1]))
    <2>1. Agree(b, a, d)
        BY <1>1 DEF Agree
    <2> QED BY <1>1, <1>4, <2>1, LessIs
<1>5. d < Len(a) /\ d < Len(b) => a[d + 1] \in Nat /\ b[d + 1] \in Nat
    BY <1>1, TokenIs
<1>6. d <= Len(a) /\ d <= Len(b)
    BY <1>1 DEF Agree
<1> QED BY <1>1, <1>2, <1>3, <1>4, <1>5, <1>6

LEMMA LessOneWay ==
  ASSUME NEW a \in Seq(Nat), NEW b \in Seq(Nat), TokensLess(a, b)
  PROVE  a # b /\ ~TokensLess(b, a)
<1> DEFINE d == find_divergence(a, b)
           e == find_divergence(b, a)
<1>1. d \in Nat /\ e \in Nat /\ Agree(a, b, d) /\ Agree(b, a, e)
    BY DivergenceIs
<1>2. Agree(b, a, d) /\ Agree(a, b, e)
    BY <1>1 DEF Agree
<1>3. d = e
    BY <1>1, <1>2, AgreeIs
<1>4. d < Len(b) /\ (d = Len(a) \/ (d < Len(a) /\ a[d + 1] < b[d + 1]))
    BY LessAtDivergence
<1>5. TokensLess(b, a) => e < Len(a) /\ (e = Len(b) \/ (e < Len(b) /\ b[e + 1] < a[e + 1]))
    BY LessAtDivergence
<1> HIDE DEF d, e
<1>6. d < Len(a) => a[d + 1] \in Nat /\ b[d + 1] \in Nat
    BY <1>1, <1>4, TokenIs
<1> QED BY <1>1, <1>3, <1>4, <1>5, <1>6

LEMMA LessTransitive ==
  ASSUME NEW a \in Seq(Nat), NEW b \in Seq(Nat), NEW c \in Seq(Nat), TokensLess(a, b), TokensLess(b, c)
  PROVE  TokensLess(a, c)
<1>1. PICK k \in Nat : Agree(a, b, k) /\ k < Len(b) /\ (k = Len(a) \/ (k < Len(a) /\ a[k + 1] < b[k + 1]))
    BY LessIs
<1>2. PICK l \in Nat : Agree(b, c, l) /\ l < Len(c) /\ (l = Len(b) \/ (l < Len(b) /\ b[l + 1] < c[l + 1]))
    BY LessIs
<1>3. CASE k <= l
    <2>1. Agree(a, c, k) /\ k < Len(c)
        BY <1>1, <1>2, <1>3 DEF Agree
    <2>2. k < l => b[k + 1] = c[k + 1]
        BY <1>1, <1>2 DEF Agree
    <2>3. b[k + 1] \in Nat /\ c[k + 1] \in Nat /\ (k < Len(a) => a[k + 1] \in Nat)
        BY <1>1, <2>1, TokenIs
    <2>4. k < Len(a) => a[k + 1] < c[k + 1]
        <3>1. b[k + 1] <= c[k + 1]
            <4>1. CASE k < l
                BY <2>2, <2>3, <4>1
            <4>2. CASE k = l
                BY <1>1, <1>2, <2>3, <4>2
            <4> QED BY <1>3, <4>1, <4>2
        <3> QED BY <1>1, <2>3, <3>1
    <2> QED BY <1>1, <2>1, <2>4, LessIs
<1>4. CASE l < k
    <2>1. l < Len(a) /\ l < Len(b)
        BY <1>1, <1>4 DEF Agree
    <2>2. Agree(a, c, l)
        BY <1>1, <1>2, <1>4, <2>1 DEF Agree
    <2>3. a[l + 1] = b[l + 1]
        BY <1>1, <1>4 DEF Agree
    <2>4. a[l + 1] < c[l + 1]
        BY <1>2, <2>1, <2>3
    <2> QED BY <1>2, <2>1, <2>2, <2>4, LessIs
<1> QED BY <1>3, <1>4

\* What lies between two rows agrees with both as far as they do.
LEMMA BetweenAgrees ==
  ASSUME NEW a \in Seq(Nat), NEW b \in Seq(Nat), NEW x \in Seq(Nat), NEW k \in Nat, Agree(a, b, k),
         TokensLess(a, x) \/ a = x, TokensLess(x, b) \/ x = b
  PROVE  Agree(a, x, k) /\ Agree(x, b, k)
<1>1. CASE a = x \/ x = b
    BY <1>1 DEF Agree
<1>2. CASE TokensLess(a, x) /\ TokensLess(x, b)
    <2>1. PICK i \in Nat : Agree(a, x, i) /\ i < Len(x) /\ (i = Len(a) \/ (i < Len(a) /\ a[i + 1] < x[i + 1]))
        BY <1>2, LessIs
    <2>2. PICK j \in Nat : Agree(x, b, j) /\ j < Len(b) /\ (j = Len(x) \/ (j < Len(x) /\ x[j + 1] < b[j + 1]))
        BY <1>2, LessIs
    <2>3. i >= k
        <3> SUFFICES ASSUME i < k PROVE FALSE
            BY <2>1
        <3>1. a[i + 1] < x[i + 1] /\ a[i + 1] = b[i + 1] /\ i < Len(a) /\ i < Len(b)
            BY <2>1 DEF Agree
        <3>2. a[i + 1] \in Nat /\ x[i + 1] \in Nat /\ b[i + 1] \in Nat
            BY <2>1, <3>1, TokenIs
        <3>3. CASE j > i
            <4>1. x[i + 1] = b[i + 1]
                BY <2>1, <2>2, <3>3 DEF Agree
            <4> QED BY <3>1, <3>2, <4>1
        <3>4. CASE j = i
            BY <2>1, <2>2, <3>1, <3>2, <3>4
        <3>5. CASE j < i
            <4>1. x[j + 1] = a[j + 1] /\ a[j + 1] = b[j + 1]
                BY <2>1, <2>2, <3>5 DEF Agree
            <4>2. j < Len(x) /\ x[j + 1] \in Nat
                BY <2>1, <2>2, <3>5, TokenIs
            <4> QED BY <2>2, <4>1, <4>2
        <3> QED BY <3>3, <3>4, <3>5
    <2>4. Agree(a, x, k)
        BY <2>1, <2>3 DEF Agree
    <2> QED BY <2>4 DEF Agree
<1> QED BY <1>1, <1>2

-----------------------------------------------------------------------------
(* The sorted list of prefixes. *)
Row == [rva : Nat, tokens : Seq(Nat)]

LEMMA PrecedesOrders ==
  ASSUME NEW x \in Row, NEW y \in Row, NEW z \in Row
  PROVE  /\ ~Precedes(x, x)
         /\ Precedes(x, y) /\ Precedes(y, z) => Precedes(x, z)
         /\ Precedes(x, y) \/ x = y \/ Precedes(y, x)
<1>1. /\ x.rva \in Nat /\ y.rva \in Nat /\ z.rva \in Nat
      /\ x.tokens \in Seq(Nat) /\ y.tokens \in Seq(Nat) /\ z.tokens \in Seq(Nat)
      /\ x.rva = y.rva /\ x.tokens = y.tokens => x = y
    BY DEF Row
<1>2. ~Precedes(x, x)
    BY <1>1, LessOneWay DEF Precedes
<1>3. Precedes(x, y) /\ Precedes(y, z) => Precedes(x, z)
    BY <1>1, LessTransitive DEF Precedes
<1>4. Precedes(x, y) \/ x = y \/ Precedes(y, x)
    <2>1. TokensLess(x.tokens, y.tokens) \/ x.tokens = y.tokens \/ TokensLess(y.tokens, x.tokens)
        BY <1>1, LessOrEqual
    <2> QED BY <1>1, <2>1 DEF Precedes
<1> QED BY <1>2, <1>3, <1>4

\* A finite list has a first and a last row.
LEMMA FirstAndLast ==
  ASSUME NEW list \in SUBSET Row, IsFiniteSet(list), list # {}
  PROVE  /\ \E x \in list : \A y \in list : ~Precedes(y, x)
         /\ \E x \in list : \A y \in list : ~Precedes(x, y)
<1> DEFINE Outcomes(l) == /\ \E x \in l : \A y \in l : ~Precedes(y, x)
                      /\ \E x \in l : \A y \in l : ~Precedes(x, y)
           S == {n \in Nat : \A l \in SUBSET Row : IsFiniteSet(l) /\ Cardinality(l) = n + 1 => Outcomes(l)}
<1>1. 0 \in S
    <2> SUFFICES ASSUME NEW l \in SUBSET Row, IsFiniteSet(l), Cardinality(l) = 0 + 1 PROVE Outcomes(l)
        OBVIOUS
    <2>1. PICK x : l = {x}
        BY FS_Singleton
    <2>2. ~Precedes(x, x)
        BY <2>1, PrecedesOrders
    <2> QED BY <2>1, <2>2
<1>2. ASSUME NEW n \in Nat, n \in S PROVE n + 1 \in S
    <2> SUFFICES ASSUME NEW l \in SUBSET Row, IsFiniteSet(l), Cardinality(l) = (n + 1) + 1 PROVE Outcomes(l)
        OBVIOUS
    <2>1. PICK z : z \in l
        BY FS_EmptySet
    <2> DEFINE r == l \ {z}
    <2>2. IsFiniteSet(r) /\ Cardinality(r) = n + 1 /\ r \in SUBSET Row
        BY <2>1, FS_RemoveElement
    <2>3. Outcomes(r)
        BY <1>2, <2>2
    <2>4. PICK x \in r : \A y \in r : ~Precedes(y, x)
        BY <2>3
    <2>5. PICK w \in r : \A y \in r : ~Precedes(w, y)
        BY <2>3
    <2>6. l = r \cup {z} /\ z \in Row /\ x \in Row /\ w \in Row
        BY <2>1
    <2> HIDE DEF r, Outcomes
    <2>7. ~Precedes(z, z)
        BY <2>6, PrecedesOrders
    <2>8. \E a \in l : \A y \in l : ~Precedes(y, a)
        <3>1. CASE ~Precedes(z, x)
            BY <2>4, <2>6, <3>1
        <3>2. CASE Precedes(z, x)
            <4>1. \A y \in r : ~Precedes(y, z)
                BY <2>2, <2>4, <2>6, <3>2, PrecedesOrders
            <4> QED BY <2>6, <2>7, <4>1
        <3> QED BY <3>1, <3>2
    <2>9. \E a \in l : \A y \in l : ~Precedes(a, y)
        <3>1. CASE ~Precedes(w, z)
            BY <2>5, <2>6, <3>1
        <3>2. CASE Precedes(w, z)
            <4>1. \A y \in r : ~Precedes(z, y)
                BY <2>2, <2>5, <2>6, <3>2, PrecedesOrders
            <4> QED BY <2>6, <2>7, <4>1
        <3> QED BY <3>1, <3>2
    <2> QED BY <2>8, <2>9 DEF Outcomes
<1>3. Nat \subseteq S
    <2> HIDE DEF S
    <2> QED BY <1>1, <1>2, SetInduction
<1>4. Cardinality(list) \in Nat /\ Cardinality(list) # 0
    BY FS_CardinalityType, FS_EmptySet
<1>5. Cardinality(list) - 1 \in S
    <2> HIDE DEF S
    <2> QED BY <1>3, <1>4
<1> QED BY <1>4, <1>5

\* No row of the list agrees with x any further than a neighbour of x does.
LEMMA NeighbourAgrees ==
  ASSUME NEW list \in SUBSET Row, IsFiniteSet(list), NEW x \in list, NEW y \in list, y # x,
         NEW k \in Nat, Agree(x.tokens, y.tokens, k)
  PROVE  \E z \in Neighbours(list, x) : Agree(x.tokens, z.tokens, k)
<1>1. \A z \in list : z \in Row /\ z.tokens \in Seq(Nat)
    BY DEF Row
<1>2. CASE Precedes(y, x)
    <2> DEFINE B == {z \in list : Precedes(z, x)}
    <2>1. IsFiniteSet(B) /\ B \in SUBSET Row /\ B # {}
        BY <1>2, FS_Subset
    <2>2. PICK z \in B : \A w \in B : ~Precedes(z, w)
        <3> HIDE DEF B
        <3> QED BY <2>1, FirstAndLast
    <2>3. NextTo(list, z, x)
        BY <2>2 DEF NextTo
    <2>4. y = z \/ Precedes(y, z)
        BY <1>1, <1>2, <2>2, PrecedesOrders
    <2>5. TokensLess(y.tokens, z.tokens) \/ y.tokens = z.tokens
        BY <2>4 DEF Precedes
    <2>6. TokensLess(z.tokens, x.tokens) \/ z.tokens = x.tokens
        BY <2>2 DEF Precedes
    <2>7. Agree(y.tokens, x.tokens, k)
        BY DEF Agree
    <2>8. Agree(z.tokens, x.tokens, k)
        BY <1>1, <2>2, <2>5, <2>6, <2>7, BetweenAgrees
    <2>9. Agree(x.tokens, z.tokens, k)
        BY <2>8 DEF Agree
    <2> QED BY <2>2, <2>3, <2>9 DEF Neighbours
<1>3. CASE Precedes(x, y)
    <2> DEFINE B == {z \in list : Precedes(x, z)}
    <2>1. IsFiniteSet(B) /\ B \in SUBSET Row /\ B # {}
        BY <1>3, FS_Subset
    <2>2. PICK z \in B : \A w \in B : ~Precedes(w, z)
        <3> HIDE DEF B
        <3> QED BY <2>1, FirstAndLast
    <2>3. NextTo(list, x, z)
        BY <2>2 DEF NextTo
    <2>4. y = z \/ Precedes(z, y)
        BY <1>1, <1>3, <2>2, PrecedesOrders
    <2>5. TokensLess(z.tokens, y.tokens) \/ y.tokens = z.tokens
        BY <2>4 DEF Precedes
    <2>6. TokensLess(x.tokens, z.tokens) \/ z.tokens = x.tokens
        BY <2>2 DEF Precedes
    <2>8. Agree(x.tokens, z.tokens, k)
        BY <1>1, <2>2, <2>5, <2>6, BetweenAgrees
    <2> QED BY <2>2, <2>3, <2>8 DEF Neighbours
<1> QED BY <1>1, <1>2, <1>3, PrecedesOrders

\* What compute_unique_prefixes() promises of a row.
PrefixRight(list, x, prefix) ==
  IF prefix.unique
  THEN \E n \in Nat :
         /\ MinLength <= n /\ n <= Len(x.tokens) /\ prefix.pattern = SubSeq(x.tokens, 1, n)
         /\ \A y \in list : y # x => ~Agree(x.tokens, y.tokens, n)
         /\ n = MinLength \/ \E y \in list : y # x /\ Agree(x.tokens, y.tokens, n - 1)
  ELSE /\ prefix.pattern = x.tokens
       /\ Len(x.tokens) < MinLength \/ \E y \in list : y # x /\ Agree(x.tokens, y.tokens, Len(x.tokens))

LEMMA PrefixesAreRight ==
  ASSUME NEW list \in SUBSET Row, IsFiniteSet(list), NEW x \in list
  PROVE  PrefixRight(list, x, compute_unique_prefixes(list)[x])
<1> DEFINE t == x.tokens
           D(y) == find_divergence(t, y.tokens)
           N == {MinLength} \cup {D(y) + 1 : y \in Neighbours(list, x)}
           needed == Max(N)
           prefix == compute_unique_prefixes(list)[x]
<1>1. \A y \in list : y \in Row /\ y.tokens \in Seq(Nat) /\ Len(y.tokens) \in Nat
    BY DEF Row
<1>2. \A y \in Neighbours(list, x) : y \in list /\ y # x
    BY <1>1, PrecedesOrders DEF Neighbours, NextTo
<1>3. \A y \in list : D(y) \in Nat /\ D(y) <= Len(t) /\ Agree(t, y.tokens, D(y))
    <2>1. \A y \in list : D(y) \in Nat /\ Agree(t, y.tokens, D(y))
        BY <1>1, DivergenceIs
    <2>2. \A y \in list : D(y) <= Len(t)
        BY <2>1 DEF Agree
    <2> QED BY <2>1, <2>2
<1>4. needed \in N /\ (\A m \in N : m <= needed) /\ N \in SUBSET Nat
    <2> DEFINE b == MinLength + Len(t) + 1
    <2>1. b \in Nat /\ MinLength \in Nat
        BY <1>1, SignaturesAssumption
    <2>2. N \in SUBSET 0..b /\ N # {}
        <3>1. \A y \in Neighbours(list, x) : D(y) + 1 \in 0..b
            <4> HIDE DEF D
            <4> QED BY <1>1, <1>2, <1>3, <2>1
        <3>2. MinLength \in 0..b
            BY <1>1, <2>1
        <3> HIDE DEF D, b
        <3> QED BY <3>1, <3>2
    <2> HIDE DEF b, N
    <2>3. Max(N) \in N /\ \A m \in N : m <= Max(N)
        BY <2>1, <2>2, GreatestIs
    <2> QED BY <2>1, <2>2, <2>3
<1>5. /\ prefix.unique = (needed <= Len(t))
      /\ prefix.pattern = IF needed <= Len(t) THEN SubSeq(t, 1, needed) ELSE t
    BY DEF compute_unique_prefixes
<1>6. ASSUME NEW n \in Nat, n >= needed, NEW y \in list, y # x PROVE ~Agree(t, y.tokens, n)
    <2> SUFFICES ASSUME Agree(t, y.tokens, n) PROVE FALSE
        OBVIOUS
    <2>1. PICK z \in Neighbours(list, x) : Agree(t, z.tokens, n)
        BY <1>6, NeighbourAgrees
    <2>2. n <= D(z)
        BY <1>1, <1>2, <2>1, AgreeIs
    <2>3. D(z) + 1 \in N /\ D(z) \in Nat
        BY <1>2, <1>3
    <2> HIDE DEF N, needed, D
    <2> QED BY <1>4, <1>6, <2>2, <2>3
<1>7. ASSUME NEW n \in Nat, n + 1 <= needed, MinLength < needed
      PROVE  \E y \in list : y # x /\ Agree(t, y.tokens, needed - 1)
    <2>1. PICK y \in Neighbours(list, x) : needed = D(y) + 1
        <3> HIDE DEF needed, D
        <3> QED BY <1>4, <1>7, SignaturesAssumption
    <2>2. D(y) = needed - 1
        <3> HIDE DEF needed, D
        <3> QED BY <1>2, <1>3, <2>1
    <2> QED BY <1>2, <1>3, <2>2
<1>8. CASE needed <= Len(t)
    <2>1. prefix.unique /\ prefix.pattern = SubSeq(t, 1, needed)
        BY <1>5, <1>8
    <2>2. needed \in Nat /\ MinLength <= needed /\ MinLength \in Nat
        <3> HIDE DEF needed
        <3> QED BY <1>4, SignaturesAssumption
    <2>3. \A y \in list : y # x => ~Agree(t, y.tokens, needed)
        BY <1>6, <2>2
    <2>4. needed = MinLength \/ \E y \in list : y # x /\ Agree(t, y.tokens, needed - 1)
        <3> HIDE DEF needed
        <3> QED BY <1>7, <2>2
    <2> HIDE DEF needed, prefix
    <2> QED BY <1>8, <2>1, <2>2, <2>3, <2>4 DEF PrefixRight, prefix
<1>9. CASE ~(needed <= Len(t))
    <2>1. ~prefix.unique /\ prefix.pattern = t
        BY <1>5, <1>9
    <2>2. Len(t) < MinLength \/ \E y \in list : y # x /\ Agree(t, y.tokens, Len(t))
        <3> SUFFICES ASSUME MinLength <= Len(t) PROVE \E y \in list : y # x /\ Agree(t, y.tokens, Len(t))
            BY <1>1, SignaturesAssumption
        <3>1. needed \in N /\ needed > Len(t) /\ needed > MinLength
            <4> HIDE DEF needed
            <4> QED BY <1>1, <1>4, <1>9, SignaturesAssumption
        <3>2. PICK y \in Neighbours(list, x) : needed = D(y) + 1
            <4> HIDE DEF needed, D
            <4> QED BY <3>1, SignaturesAssumption
        <3>3. D(y) = Len(t)
            <4> HIDE DEF needed, D
            <4> QED BY <1>1, <1>2, <1>3, <3>1, <3>2
        <3> QED BY <1>2, <1>3, <3>3
    <2> HIDE DEF needed, prefix
    <2> QED BY <2>1, <2>2 DEF PrefixRight, prefix
<1> QED BY <1>8, <1>9

-----------------------------------------------------------------------------
(* Masks and tokens. *)
Bytes == [1..FUNC_BYTES_SIZE -> Nat \ {Masked}]

LEMMA MaskIs ==
  ASSUME NEW raw \in Bytes, 1 <= FUNC_BYTES_SIZE
  PROVE  LET M == mask_relocatable_bytes(raw)
         IN  /\ M \in [1..FUNC_BYTES_SIZE -> Nat]
             /\ M[1] = raw[1]
             /\ \A i \in 1..FUNC_BYTES_SIZE : M[i] = Masked \/ M[i] = raw[i]
             /\ \A i \in 1..(FUNC_BYTES_SIZE - 1) :
                  M[i + 1] = IF M[i] \in Relocating THEN Masked ELSE raw[i + 1]
<1> DEFINE L == Len(raw)
           Step(c, i) == IF i = 0 \/ (c # Masked /\ raw[i - 1] \in Relocating) THEN Masked ELSE raw[i]
           Is(g, n) == g = [i \in 0..n |-> IF i = 0 THEN Masked ELSE Step(g[i - 1], i)]
           S == {n \in Nat : \E g : Is(g, n)}
           f == CHOOSE g : g = [i \in 0..L |-> IF i = 0 \/ (g[i - 1] # Masked /\ raw[i - 1] \in Relocating)
                                               THEN Masked ELSE raw[i]]
           M == mask_relocatable_bytes(raw)
<1>1. L = FUNC_BYTES_SIZE /\ L \in Nat /\ DOMAIN raw = 1..L /\ \A i \in 1..L : raw[i] \in Nat /\ raw[i] # Masked
    <2>1. FUNC_BYTES_SIZE \in Nat
        BY SignaturesAssumption
    <2>2. raw \in Seq(Nat) /\ Len(raw) = FUNC_BYTES_SIZE
        BY <2>1 DEF Bytes
    <2> QED BY <2>1, <2>2 DEF Bytes
<1>2. L \in S
    <2> HIDE DEF Step, L
    <2>1. 0 \in S
        <3>1. Is([i \in 0..0 |-> Masked], 0)
            OBVIOUS
        <3> QED BY <3>1
    <2>2. ASSUME NEW n \in Nat, n \in S PROVE n + 1 \in S
        <3>1. PICK g : Is(g, n)
            BY <2>2
        <3> DEFINE h == [i \in 0..(n + 1) |-> IF i = n + 1 THEN Step(g[n], n + 1) ELSE g[i]]
        <3>2. Is(h, n + 1)
            BY <3>1
        <3> HIDE DEF h, Is
        <3> QED BY <3>2
    <2>3. Nat \subseteq S
        <3> HIDE DEF S
        <3> QED BY <2>1, <2>2, SetInduction
    <2> QED BY <1>1, <2>3
<1>3. \E g : g = [i \in 0..L |-> IF i = 0 \/ (g[i - 1] # Masked /\ raw[i - 1] \in Relocating)
                                 THEN Masked ELSE raw[i]]
    <2>1. PICK g : g = [i \in 0..L |-> IF i = 0 THEN Masked ELSE Step(g[i - 1], i)]
        BY <1>2
    <2>2. \A i \in 0..L : (IF i = 0 THEN Masked ELSE Step(g[i - 1], i))
                            = IF i = 0 \/ (g[i - 1] # Masked /\ raw[i - 1] \in Relocating) THEN Masked ELSE raw[i]
        <3> HIDE DEF L
        <3> QED OBVIOUS
    <2> DEFINE A(i) == IF i = 0 THEN Masked ELSE Step(g[i - 1], i)
               B(i) == IF i = 0 \/ (g[i - 1] # Masked /\ raw[i - 1] \in Relocating) THEN Masked ELSE raw[i]
    <2>3. \A i \in 0..L : A(i) = B(i)
        BY <2>2
    <2>4. g = [i \in 0..L |-> A(i)]
        BY <2>1
    <2>5. g = [i \in 0..L |-> B(i)]
        <3> HIDE DEF A, B, L
        <3> QED BY <2>3, <2>4
    <2> QED BY <2>5
<1>4. f = [i \in 0..L |-> IF i = 0 \/ (f[i - 1] # Masked /\ raw[i - 1] \in Relocating) THEN Masked ELSE raw[i]]
    BY <1>3
<1>5. M = [i \in DOMAIN raw |-> f[i]]
    BY DEF mask_relocatable_bytes
<1> HIDE DEF f, M, L
<1>6. f[0] = Masked
    BY <1>1, <1>4
<1>7. \A i \in 1..L : f[i] = IF f[i - 1] # Masked /\ raw[i - 1] \in Relocating THEN Masked ELSE raw[i]
    BY <1>1, <1>4
<1>8. \A i \in 1..L : M[i] = f[i] /\ (M[i] = Masked \/ M[i] = raw[i])
    BY <1>1, <1>5, <1>7
<1>9. M[1] = raw[1]
    <2>1. 1 \in 1..L
        BY <1>1
    <2>2. f[1] = IF f[1 - 1] # Masked /\ raw[1 - 1] \in Relocating THEN Masked ELSE raw[1]
        BY <1>7, <2>1
    <2> QED BY <1>6, <1>8, <2>1, <2>2
<1>10. M \in [1..L -> Nat]
    BY <1>1, <1>5, <1>8, SignaturesAssumption
<1>11. ASSUME NEW i \in 1..(L - 1) PROVE M[i + 1] = IF M[i] \in Relocating THEN Masked ELSE raw[i + 1]
    <2>1. i \in 1..L /\ i + 1 \in 1..L /\ (i + 1) - 1 = i
        BY <1>1
    <2>2. M[i + 1] = IF M[i] # Masked /\ raw[i] \in Relocating THEN Masked ELSE raw[i + 1]
        BY <1>7, <1>8, <2>1
    <2> QED BY <1>8, <2>1, <2>2, SignaturesAssumption
<1> QED BY <1>1, <1>8, <1>9, <1>10, <1>11 DEF M

LEMMA FirstTokens ==
  ASSUME NEW s, NEW n \in Nat, \A i \in 1..n : s[i] \in Nat
  PROVE  SubSeq(s, 1, n) \in Seq(Nat) /\ Len(SubSeq(s, 1, n)) = n /\ \A i \in 1..n : SubSeq(s, 1, n)[i] = s[i]
BY SubSeqProperties

\* The tokens of a function are the masked bytes, with at most the last cut off.
LEMMA TokensAre ==
  ASSUME NEW raw \in Bytes, 1 <= FUNC_BYTES_SIZE
  PROVE  LET M == mask_relocatable_bytes(raw)
             t == Tokens(raw)
         IN  /\ t \in Seq(Nat) /\ Len(t) \in 1..FUNC_BYTES_SIZE /\ Len(t) >= FUNC_BYTES_SIZE - 1
             /\ \A i \in 1..Len(t) : t[i] = M[i]
             /\ Len(t) < FUNC_BYTES_SIZE => M[FUNC_BYTES_SIZE] = Masked
             /\ t[Len(t)] # Masked
<1> DEFINE L == FUNC_BYTES_SIZE
           M == mask_relocatable_bytes(raw)
           kept == {i \in DOMAIN M : M[i] # Masked}
           n == Max(kept)
           t == Tokens(raw)
<1>1. /\ M \in [1..L -> Nat] /\ M[1] = raw[1]
      /\ \A i \in 1..(L - 1) : M[i + 1] = IF M[i] \in Relocating THEN Masked ELSE raw[i + 1]
    BY MaskIs
<1>2. L \in Nat /\ raw[1] # Masked /\ \A i \in 1..L : raw[i] # Masked
    BY SignaturesAssumption DEF Bytes
<1>3. t = SubSeq(M, 1, IF kept = {} THEN 0 ELSE Max(kept))
    BY DEF Tokens, trim_trailing_wildcards
<1> HIDE DEF M, t
<1>4. 1 \in kept /\ kept \in SUBSET 0..L
    BY <1>1, <1>2
<1>5. n \in kept /\ \A i \in kept : i <= n
    <2> HIDE DEF kept
    <2> QED BY <1>2, <1>4, GreatestIs
<1>6. n \in 1..L /\ M[n] # Masked /\ t = SubSeq(M, 1, n)
    <2>1. kept # {}
        BY <1>4
    <2> HIDE DEF n
    <2> QED BY <1>1, <1>3, <1>5, <2>1 DEF n
<1> HIDE DEF n
<1>7. t \in Seq(Nat) /\ Len(t) = n /\ \A i \in 1..n : t[i] = M[i]
    <2>1. \A i \in 1..n : M[i] \in Nat
        BY <1>1, <1>2, <1>6
    <2>2. n \in Nat
        BY <1>2, <1>6
    <2> QED BY <1>6, <2>1, <2>2, FirstTokens
<1>8. n >= L - 1 /\ (n < L => M[L] = Masked)
    <2>1. \A i \in 1..L : M[i] # Masked => i <= n
        BY <1>1, <1>5
    <2>2. CASE M[L] # Masked
        BY <1>2, <1>6, <2>1, <2>2
    <2>3. CASE M[L] = Masked
        <3>1. n # L /\ L - 1 \in 1..(L - 1)
            BY <1>2, <1>6, <2>3
        <3>2. M[(L - 1) + 1] = IF M[L - 1] \in Relocating THEN Masked ELSE raw[(L - 1) + 1]
            BY <1>1, <3>1
        <3>3. M[L - 1] \in Relocating
            BY <1>2, <2>3, <3>1, <3>2
        <3>4. L - 1 <= n
            BY <1>2, <2>1, <3>1, <3>3, SignaturesAssumption
        <3> QED BY <2>3, <3>4
    <2> QED BY <2>2, <2>3
<1> QED BY <1>2, <1>6, <1>7, <1>8 DEF M, t

\* A function that begins like another one's pattern is masked like it.
LEMMA SameMask ==
  ASSUME NEW raw \in Bytes, NEW other \in Bytes, 1 <= FUNC_BYTES_SIZE, NEW k \in 0..FUNC_BYTES_SIZE,
         \A i \in 1..k : mask_relocatable_bytes(raw)[i] \in {Masked, other[i]}
  PROVE  \A i \in 1..k : mask_relocatable_bytes(other)[i] = mask_relocatable_bytes(raw)[i]
<1> DEFINE L == FUNC_BYTES_SIZE
           M == mask_relocatable_bytes(raw)
           G == mask_relocatable_bytes(other)
           S == {n \in Nat : n \in 1..k => G[n] = M[n]}
<1>1. /\ M[1] = raw[1] /\ G[1] = other[1]
      /\ \A i \in 1..(L - 1) : M[i + 1] = IF M[i] \in Relocating THEN Masked ELSE raw[i + 1]
      /\ \A i \in 1..(L - 1) : G[i + 1] = IF G[i] \in Relocating THEN Masked ELSE other[i + 1]
    BY MaskIs
<1>2. L \in Nat /\ \A i \in 1..L : raw[i] # Masked
    BY SignaturesAssumption DEF Bytes
<1>3. \A i \in 1..k : M[i] \in {Masked, other[i]}
    OBVIOUS
<1> HIDE DEF M, G
<1>4. 0 \in S
    OBVIOUS
<1>5. ASSUME NEW n \in Nat, n \in S PROVE n + 1 \in S
    <2> SUFFICES ASSUME n + 1 \in 1..k PROVE G[n + 1] = M[n + 1]
        OBVIOUS
    <2>1. CASE n = 0
        BY <1>1, <1>2, <1>3, <2>1
    <2>2. CASE n > 0
        <3>1. n \in 1..k /\ n \in 1..(L - 1) /\ n + 1 \in 1..L
            BY <1>2, <2>2
        <3>2. G[n] = M[n]
            BY <1>5, <3>1
        <3> QED BY <1>1, <1>2, <1>3, <3>1, <3>2
    <2> QED BY <2>1, <2>2
<1>6. Nat \subseteq S
    <2> HIDE DEF S
    <2> QED BY <1>4, <1>5, SetInduction
<1> QED BY <1>6 DEF M, G

\* The beginning of a pattern matches the functions whose tokens begin with it.
LEMMA BeginningMatches ==
  ASSUME NEW raw \in Bytes, NEW other \in Bytes, 1 <= FUNC_BYTES_SIZE, NEW k \in 0..Len(Tokens(raw))
  PROVE  MatchesRaw(SubSeq(Tokens(raw), 1, k), other) <=> Agree(Tokens(raw), Tokens(other), k)
<1> DEFINE L == FUNC_BYTES_SIZE
           t == Tokens(raw)
           u == Tokens(other)
           M == mask_relocatable_bytes(raw)
           G == mask_relocatable_bytes(other)
           p == SubSeq(t, 1, k)
<1>1. /\ t \in Seq(Nat) /\ Len(t) \in 1..L /\ \A i \in 1..Len(t) : t[i] = M[i]
      /\ t[Len(t)] # Masked
    BY TokensAre
<1>2. /\ u \in Seq(Nat) /\ Len(u) \in 1..L /\ Len(u) >= L - 1 /\ \A i \in 1..Len(u) : u[i] = G[i]
      /\ Len(u) < L => G[L] = Masked
    BY TokensAre
<1>3. L \in Nat /\ other \in Seq(Nat) /\ Len(other) = L
    BY SignaturesAssumption DEF Bytes
<1>4. k \in Nat /\ k <= Len(t) /\ k <= L
    BY <1>1, <1>3
<1>5. p \in Seq(Nat) /\ DOMAIN p = 1..k /\ Len(p) = k /\ \A i \in 1..k : p[i] = t[i]
    <2>1. \A i \in 1..k : t[i] \in Nat
        BY <1>1
    <2> HIDE DEF t
    <2> QED BY <1>4, <2>1, FirstTokens
<1>6. MatchesRaw(p, other) <=> \A i \in 1..k : M[i] \in {Masked, other[i]}
    <2>1. \A i \in 1..k : p[i] = M[i]
        BY <1>1, <1>4, <1>5
    <2> HIDE DEF p, M
    <2> QED BY <1>3, <1>4, <1>5, <2>1 DEF MatchesRaw
<1>7. ASSUME \A i \in 1..k : M[i] \in {Masked, other[i]} PROVE Agree(t, u, k)
    <2>1. k \in 0..L
        BY <1>3, <1>4
    <2>2. \A i \in 1..k : G[i] = M[i]
        BY <1>7, <2>1, SameMask
    <2>3. k <= Len(u)
        <3> SUFFICES ASSUME k > Len(u) PROVE FALSE
            BY <1>2, <1>4
        <3>1. k = L /\ G[L] = Masked /\ Len(t) = L
            BY <1>1, <1>2, <1>3, <1>4
        <3> HIDE DEF t, u, M, G
        <3>2. L \in 1..k /\ L \in 1..Len(t)
            BY <1>3, <3>1
        <3>3. G[L] = M[L] /\ t[L] = M[L]
            BY <1>1, <2>2, <3>2
        <3> QED BY <1>1, <3>1, <3>3
    <2> HIDE DEF t, u, M, G
    <2>4. ASSUME NEW i \in 1..k PROVE t[i] = u[i]
        <3>1. i \in 1..Len(t) /\ i \in 1..Len(u)
            BY <1>1, <1>2, <1>4, <2>3
        <3> QED BY <1>1, <1>2, <2>2, <3>1
    <2> QED BY <1>4, <2>3, <2>4 DEF Agree
<1>8. ASSUME Agree(t, u, k) PROVE \A i \in 1..k : M[i] \in {Masked, other[i]}
    <2>1. \A i \in 1..L : G[i] = Masked \/ G[i] = other[i]
        BY MaskIs
    <2> HIDE DEF t, u, M, G
    <2> TAKE i \in 1..k
    <2>2. i \in 1..Len(t) /\ i \in 1..Len(u) /\ i \in 1..L /\ t[i] = u[i]
        <3>1. k <= Len(t) /\ k <= Len(u) /\ t[i] = u[i]
            BY <1>4, <1>8 DEF Agree
        <3> QED BY <1>1, <1>2, <1>3, <1>4, <3>1
    <2> QED BY <1>1, <1>2, <2>1, <2>2
<1> HIDE DEF p, t, u, M, G
<1> QED BY <1>6, <1>7, <1>8 DEF p, t, u

\* A function that is no stub looks like no stub for the length of a signature.
LEMMA NoStubMatches ==
  ASSUME NEW raw \in Bytes, NEW other \in Bytes, 1 <= FUNC_BYTES_SIZE, NEW k \in MinLength..Len(Tokens(raw)),
         MatchesRaw(SubSeq(Tokens(raw), 1, k), other), ~detect_stub(raw)
  PROVE  ~detect_stub(other) \/ HiddenStub(other)
<1> DEFINE L == FUNC_BYTES_SIZE
           t == Tokens(raw)
           M == mask_relocatable_bytes(raw)
           G == mask_relocatable_bytes(other)
<1> SUFFICES ASSUME NEW q \in StubPatterns, MatchesRaw(q, other), ~HiddenStub(other) PROVE FALSE
    BY DEF detect_stub
<1>1. /\ t \in Seq(Nat) /\ Len(t) \in 1..L /\ \A i \in 1..Len(t) : t[i] = M[i]
    BY TokensAre
<1>2. /\ L \in Nat /\ raw \in Seq(Nat) /\ Len(raw) = L /\ other \in Seq(Nat) /\ Len(other) = L
      /\ MinLength \in Nat /\ q \in Seq(Nat) /\ Len(q) <= MinLength
    <2>1. q \in Seq(Nat) /\ Len(q) <= MinLength /\ MinLength \in Nat /\ L \in Nat
        BY SignaturesAssumption
    <2>2. raw \in Seq(Nat) /\ Len(raw) = L
        BY <2>1 DEF Bytes
    <2>3. other \in Seq(Nat) /\ Len(other) = L
        BY <2>1 DEF Bytes
    <2> QED BY <2>1, <2>2, <2>3
<1>3. k \in 0..Len(t) /\ k \in 0..L
    BY <1>1, <1>2
<1>4. \A i \in 1..L : M[i] \in {Masked, raw[i]} /\ G[i] \in {Masked, other[i]}
    BY MaskIs
<1>5. \A i \in 1..k : M[i] \in {Masked, other[i]}
    <2>1. Agree(t, Tokens(other), k)
        BY <1>3, BeginningMatches
    <2>2. \A i \in 1..Len(Tokens(other)) : Tokens(other)[i] = G[i]
        BY TokensAre
    <2> HIDE DEF t, M, G
    <2> TAKE i \in 1..k
    <2>3. i \in 1..Len(t) /\ i \in 1..Len(Tokens(other)) /\ i \in 1..L /\ t[i] = Tokens(other)[i]
        BY <1>1, <1>2, <1>3, <2>1 DEF Agree
    <2> QED BY <1>1, <1>4, <2>2, <2>3
<1>6. \A i \in 1..k : G[i] = M[i]
    BY <1>3, <1>5, SameMask
<1>7. \A i \in DOMAIN q : q[i] = Masked \/ G[i] # Masked
    BY DEF HiddenStub
<1>8. DOMAIN q = 1..Len(q) /\ Len(q) <= L /\ Len(q) <= k /\ \A i \in DOMAIN q : q[i] \in {Masked, other[i]}
    BY <1>2, <1>3 DEF MatchesRaw
<1> HIDE DEF M, G, t
<1>9. ASSUME NEW i \in DOMAIN q PROVE q[i] \in {Masked, raw[i]}
    <2>1. i \in 1..Len(q)
        BY <1>8
    <2>2. Len(q) \in Nat
        BY <1>2
    <2>3. /\ L \in Nat /\ k \in Int /\ Len(q) <= L /\ Len(q) <= k
        BY <1>2, <1>3, <1>8
    <2>4. i \in 1..k /\ i \in 1..L
        BY <2>1, <2>2, <2>3
    <2> QED BY <1>4, <1>6, <1>7, <1>8, <2>4
<1>10. MatchesRaw(q, raw)
    BY <1>2, <1>8, <1>9 DEF MatchesRaw
<1> QED BY <1>10 DEF detect_stub

-----------------------------------------------------------------------------
(* The functions of a module are read from one text. *)
ReadFrom(vtables, text) ==
  /\ IsFiniteSet(DOMAIN text) /\ DOMAIN text \subseteq Nat
  /\ \A n \in DOMAIN text : text[n] \in Bytes
  /\ \A v \in vtables : \A k \in DOMAIN v.functions :
       v.functions[k].rva \in DOMAIN text /\ v.functions[k].raw = text[v.functions[k].rva]

LEMMA CandidatesAre ==
  ASSUME NEW vtables, NEW text, ReadFrom(vtables, text), NEW e \in Candidates(vtables)
  PROVE  /\ e.rva \in DOMAIN text /\ e.rva \in Nat /\ e.raw = text[e.rva] /\ e.raw \in Bytes
         /\ 1 <= FUNC_BYTES_SIZE
         /\ detect_stub(e.raw) \/ Len(Tokens(e.raw)) >= MinLength
<1>1. /\ \E v \in vtables : \E i \in DOMAIN v.functions : e.rva = v.functions[i].rva /\ e.raw = v.functions[i].raw
      /\ \E i \in DOMAIN e.raw : e.raw[i] # 0
      /\ detect_stub(e.raw) \/ Len(Tokens(e.raw)) >= MinLength
    BY DEF Candidates
<1>2. e.rva \in DOMAIN text /\ e.raw = text[e.rva] /\ e.raw \in Bytes
    BY <1>1 DEF ReadFrom
<1>3. \E i \in 1..FUNC_BYTES_SIZE : TRUE
    BY <1>1, <1>2 DEF Bytes
<1> QED BY <1>1, <1>2, <1>3, SignaturesAssumption DEF ReadFrom

\* Every function that is no stub has its row in the list.
RowOf(e) == [rva |-> e.rva, tokens |-> Tokens(e.raw)]
Rows(vtables) == {RowOf(e) : e \in {x \in Candidates(vtables) : ~detect_stub(x.raw)}}

LEMMA RowsAre ==
  ASSUME NEW vtables, NEW text, ReadFrom(vtables, text)
  PROVE  Rows(vtables) \in SUBSET Row /\ IsFiniteSet(Rows(vtables))
<1> DEFINE C == {x \in Candidates(vtables) : ~detect_stub(x.raw)}
           D == {e.rva : e \in C}
           f == [n \in D |-> [rva |-> n, tokens |-> Tokens(text[n])]]
<1>1. \A e \in C : /\ e.rva \in DOMAIN text /\ e.rva \in Nat /\ e.raw = text[e.rva] /\ e.raw \in Bytes
                   /\ 1 <= FUNC_BYTES_SIZE
    BY CandidatesAre
<1>2. \A e \in C : Tokens(e.raw) \in Seq(Nat)
    BY <1>1, TokensAre
<1>3. Rows(vtables) = {RowOf(e) : e \in C}
    BY DEF Rows
<1> HIDE DEF C
<1>4. Rows(vtables) \in SUBSET Row
    BY <1>1, <1>2, <1>3 DEF Row, RowOf
<1>5. IsFiniteSet(D)
    <2>1. D \subseteq DOMAIN text
        BY <1>1
    <2> QED BY <2>1, FS_Subset DEF ReadFrom
<1>6. f \in Surjection(D, Rows(vtables))
    <2>1. \A e \in C : f[e.rva] = RowOf(e)
        BY <1>1 DEF RowOf
    <2>2. \A n \in D : f[n] \in Rows(vtables)
        BY <1>3, <2>1
    <2>3. \A r \in Rows(vtables) : \E n \in D : f[n] = r
        <3> HIDE DEF f
        <3> QED BY <1>3, <2>1
    <2>4. f \in [D -> Rows(vtables)]
        BY <2>2
    <2> HIDE DEF f, D
    <2> QED BY <2>3, <2>4 DEF Surjection
<1> QED BY <1>4, <1>5, <1>6, FS_Surjection

\* The entries of the functions that are no stubs.
LEMMA EntriesAre ==
  ASSUME NEW vtables, NEW text, ReadFrom(vtables, text), NEW x \in process_module(vtables), ~x.stub
  PROVE  \E e \in Candidates(vtables) :
           /\ ~detect_stub(e.raw) /\ x.rva = e.rva
           /\ PrefixRight(Rows(vtables), RowOf(e), [unique |-> x.unique, pattern |-> x.pattern])
<1> DEFINE slots      == Candidates(vtables)
           stubs      == {e \in slots : detect_stub(e.raw)}
           candidates == slots \ stubs
           Listed(rva) == [rva |-> rva, tokens |-> Tokens((CHOOSE e \in candidates : e.rva = rva).raw)]
           list        == {Listed(e.rva) : e \in candidates}
           prefixes    == compute_unique_prefixes(list)
<1>1. process_module(vtables) =
        {[class |-> e.class, index |-> e.index, rva |-> e.rva, stub |-> TRUE, unique |-> FALSE,
          class_unique |-> FALSE, pattern |-> e.raw] : e \in stubs}
        \cup
        {[class |-> e.class, index |-> e.index, rva |-> e.rva, stub |-> FALSE,
          unique |-> prefixes[Listed(e.rva)].unique, class_unique |-> class_unique(e, candidates),
          pattern |-> prefixes[Listed(e.rva)].pattern] : e \in candidates}
    BY DEF process_module
<1>2. PICK e \in candidates :
        x.rva = e.rva /\ x.unique = prefixes[Listed(e.rva)].unique /\ x.pattern = prefixes[Listed(e.rva)].pattern
    <2> HIDE DEF stubs, candidates, prefixes, Listed
    <2> QED BY <1>1
<1>3. \A c \in candidates : Listed(c.rva) = RowOf(c)
    <2> SUFFICES ASSUME NEW c \in candidates PROVE Listed(c.rva) = RowOf(c)
        OBVIOUS
    <2> DEFINE r == CHOOSE d \in candidates : d.rva = c.rva
    <2>1. r \in candidates /\ r.rva = c.rva
        OBVIOUS
    <2> HIDE DEF r
    <2>2. r.raw = text[r.rva] /\ c.raw = text[c.rva]
        BY <2>1, CandidatesAre
    <2> QED BY <2>1, <2>2 DEF RowOf, r
<1>4. candidates = {c \in slots : ~detect_stub(c.raw)}
    OBVIOUS
<1> HIDE DEF candidates, prefixes, Listed
<1>5. list = Rows(vtables)
    BY <1>3, <1>4 DEF Rows
<1>6. PrefixRight(Rows(vtables), RowOf(e), prefixes[RowOf(e)])
    <2>1. RowOf(e) \in Rows(vtables)
        BY <1>4 DEF Rows
    <2> QED BY <1>5, <2>1, RowsAre, PrefixesAreRight DEF prefixes
<1>7. Listed(e.rva) = RowOf(e)
    BY <1>3
<1>8. PrefixRight(Rows(vtables), RowOf(e), [unique |-> x.unique, pattern |-> x.pattern])
    <2> DEFINE p == prefixes[RowOf(e)]
    <2>1. x.unique = p.unique /\ x.pattern = p.pattern
        BY <1>2, <1>7
    <2> HIDE DEF p
    <2> QED BY <1>6, <2>1 DEF PrefixRight, p
<1> QED BY <1>2, <1>4, <1>8

\* What process_module() says of the functions of a module is so.
LEMMA SignaturesAreRight ==
  ASSUME NEW vtables, NEW text, ReadFrom(vtables, text)
  PROVE  Identify(process_module(vtables), vtables)
<1> DEFINE functions  == {e \in Candidates(vtables) : ~HiddenStub(e.raw)}
           Matched(p) == {f.rva : f \in {z \in functions : MatchesRaw(p, z.raw)}}
           Right(x) == IF x.unique
                       THEN /\ Matched(x.pattern) = {x.rva}
                            /\ \A n \in MinLength..(Len(x.pattern) - 1) :
                                 Matched(SubSeq(x.pattern, 1, n)) # {x.rva}
                       ELSE \E rva \in Matched(x.pattern) : rva # x.rva
<1> SUFFICES ASSUME NEW x \in process_module(vtables), ~x.stub PROVE Right(x)
    BY DEF Identify
<1>1. PICK e \in Candidates(vtables) :
         /\ ~detect_stub(e.raw) /\ x.rva = e.rva
         /\ PrefixRight(Rows(vtables), RowOf(e), [unique |-> x.unique, pattern |-> x.pattern])
    BY EntriesAre
<1> DEFINE L == FUNC_BYTES_SIZE
           t == Tokens(e.raw)
<1>2. /\ e.rva \in DOMAIN text /\ e.raw = text[e.rva] /\ e.raw \in Bytes /\ 1 <= L
      /\ Len(t) >= MinLength /\ MinLength \in Nat
    BY <1>1, CandidatesAre, SignaturesAssumption
<1>3. t \in Seq(Nat) /\ Len(t) \in Nat
    BY <1>2, TokensAre
\* A function that is no stub is matched by as much as its tokens agree with.
<1>4. ASSUME NEW f \in Candidates(vtables), ~detect_stub(f.raw)
      PROVE  /\ f \in functions /\ RowOf(f) \in Rows(vtables)
             /\ RowOf(f).tokens = Tokens(f.raw) /\ RowOf(f).rva = f.rva
             /\ f.rva = e.rva => f.raw = e.raw
             /\ \A k \in 0..Len(t) : MatchesRaw(SubSeq(t, 1, k), f.raw) <=> Agree(t, Tokens(f.raw), k)
    <2>1. f.raw \in Bytes /\ f.raw = text[f.rva]
        BY CandidatesAre
    <2>2. ~HiddenStub(f.raw)
        BY <1>4 DEF HiddenStub, detect_stub
    <2>3. \A k \in 0..Len(t) : MatchesRaw(SubSeq(t, 1, k), f.raw) <=> Agree(t, Tokens(f.raw), k)
        BY <1>2, <2>1, BeginningMatches
    <2>4. RowOf(f) \in Rows(vtables) /\ RowOf(f).tokens = Tokens(f.raw) /\ RowOf(f).rva = f.rva
        BY <1>4 DEF Rows, RowOf
    <2> QED BY <1>2, <2>1, <2>2, <2>3, <2>4
\* No other function is.
<1>5. ASSUME NEW f \in functions, NEW k \in MinLength..Len(t), MatchesRaw(SubSeq(t, 1, k), f.raw)
      PROVE  ~detect_stub(f.raw) /\ Agree(t, Tokens(f.raw), k)
    <2>1. f \in Candidates(vtables) /\ f.raw \in Bytes /\ ~HiddenStub(f.raw)
        BY CandidatesAre
    <2>2. ~detect_stub(f.raw)
        BY <1>1, <1>2, <1>5, <2>1, NoStubMatches
    <2>3. k \in 0..Len(t)
        BY <1>2, <1>3
    <2> QED BY <1>4, <1>5, <2>1, <2>2, <2>3
<1>6. ASSUME NEW r \in Rows(vtables), r # RowOf(e), NEW k \in 0..Len(t), Agree(t, r.tokens, k)
      PROVE  \E rva \in Matched(SubSeq(t, 1, k)) : rva # e.rva
    <2>1. PICK f \in Candidates(vtables) : ~detect_stub(f.raw) /\ r = RowOf(f)
        BY DEF Rows
    <2>2. f \in functions /\ MatchesRaw(SubSeq(t, 1, k), f.raw) /\ r.tokens = Tokens(f.raw)
        BY <1>4, <1>6, <2>1
    <2>3. f.rva # e.rva
        <3>1. f.rva = e.rva => f.raw = e.raw
            BY <1>4, <2>1
        <3> QED BY <1>6, <2>1, <3>1 DEF RowOf
    <2>4. f.rva \in Matched(SubSeq(t, 1, k))
        BY <2>2
    <2> QED BY <2>3, <2>4
<1>7. e \in functions /\ RowOf(e).tokens = t
    BY <1>1, <1>4
<1> HIDE DEF functions, t
<1>8. CASE x.unique
    <2>1. PICK n \in Nat :
            /\ MinLength <= n /\ n <= Len(t) /\ x.pattern = SubSeq(t, 1, n)
            /\ \A y \in Rows(vtables) : y # RowOf(e) => ~Agree(t, y.tokens, n)
            /\ n = MinLength \/ \E y \in Rows(vtables) : y # RowOf(e) /\ Agree(t, y.tokens, n - 1)
        BY <1>1, <1>7, <1>8 DEF PrefixRight
    <2>2. n \in MinLength..Len(t) /\ n \in 0..Len(t)
        BY <1>2, <1>3, <2>1
    <2>3. e.rva \in Matched(x.pattern)
        <3>1. Agree(t, t, n)
            BY <1>3, <2>2 DEF Agree
        <3>2. MatchesRaw(SubSeq(t, 1, n), e.raw)
            BY <1>1, <1>4, <2>2, <3>1 DEF t
        <3> QED BY <1>7, <2>1, <3>2
    <2>4. ASSUME NEW f \in functions, MatchesRaw(x.pattern, f.raw) PROVE f.rva = e.rva
        <3>1. ~detect_stub(f.raw) /\ Agree(t, Tokens(f.raw), n)
            BY <1>5, <2>1, <2>2, <2>4
        <3>2. f \in Candidates(vtables)
            BY DEF functions
        <3>3. RowOf(f) \in Rows(vtables) /\ RowOf(f).tokens = Tokens(f.raw)
            BY <1>4, <3>1, <3>2
        <3>4. RowOf(f) = RowOf(e)
            BY <2>1, <3>1, <3>3
        <3> QED BY <3>4 DEF RowOf
    <2>5. Matched(x.pattern) = {x.rva}
        BY <1>1, <2>3, <2>4
    <2>6. ASSUME NEW m \in MinLength..(Len(x.pattern) - 1) PROVE Matched(SubSeq(x.pattern, 1, m)) # {x.rva}
        <3>1. Len(x.pattern) = n /\ \A i \in 1..n : x.pattern[i] = t[i] /\ t[i] \in Nat
            <4>1. \A i \in 1..n : t[i] \in Nat
                BY <1>3, <2>2
            <4> QED BY <2>1, <4>1, FirstTokens
        <3>2. m \in Nat /\ m <= n - 1 /\ MinLength < n /\ m \in 0..Len(t)
            BY <1>2, <1>3, <2>2, <3>1
        <3>3. PICK y \in Rows(vtables) : y # RowOf(e) /\ Agree(t, y.tokens, n - 1)
            BY <1>2, <2>1, <3>2
        <3>4. Agree(t, y.tokens, m)
            BY <3>2, <3>3 DEF Agree
        <3>5. SubSeq(x.pattern, 1, m) = SubSeq(t, 1, m)
            <4>1. \A i \in 1..m : x.pattern[i] = t[i] /\ x.pattern[i] \in Nat /\ t[i] \in Nat
                BY <3>1, <3>2
            <4>2. /\ SubSeq(x.pattern, 1, m) \in Seq(Nat) /\ Len(SubSeq(x.pattern, 1, m)) = m
                  /\ \A i \in 1..m : SubSeq(x.pattern, 1, m)[i] = x.pattern[i]
                BY <3>2, <4>1, FirstTokens
            <4>3. /\ SubSeq(t, 1, m) \in Seq(Nat) /\ Len(SubSeq(t, 1, m)) = m
                  /\ \A i \in 1..m : SubSeq(t, 1, m)[i] = t[i]
                BY <3>2, <4>1, FirstTokens
            <4> QED BY <4>1, <4>2, <4>3, SeqEqual
        <3>6. \E rva \in Matched(SubSeq(t, 1, m)) : rva # e.rva
            BY <1>6, <3>2, <3>3, <3>4
        <3> HIDE DEF Matched
        <3> QED BY <1>1, <3>5, <3>6
    <2> HIDE DEF Matched
    <2> QED BY <1>8, <2>5, <2>6
<1>9. CASE ~x.unique
    <2>1. x.pattern = t /\ \E y \in Rows(vtables) : y # RowOf(e) /\ Agree(t, y.tokens, Len(t))
        BY <1>1, <1>2, <1>3, <1>7, <1>9 DEF PrefixRight
    <2>2. PICK y \in Rows(vtables) : y # RowOf(e) /\ Agree(t, y.tokens, Len(t))
        BY <2>1
    <2>3. \E rva \in Matched(SubSeq(t, 1, Len(t))) : rva # e.rva
        <3>1. Len(t) \in 0..Len(t)
            BY <1>3
        <3> HIDE DEF Matched
        <3> QED BY <1>6, <2>2, <3>1
    <2>4. SubSeq(t, 1, Len(t)) = t
        <3>1. \A i \in 1..Len(t) : t[i] \in Nat
            BY <1>3
        <3>2. /\ SubSeq(t, 1, Len(t)) \in Seq(Nat) /\ Len(SubSeq(t, 1, Len(t))) = Len(t)
              /\ \A i \in 1..Len(t) : SubSeq(t, 1, Len(t))[i] = t[i]
            BY <1>3, <3>1, FirstTokens
        <3> QED BY <1>3, <3>2, SeqEqual
    <2> HIDE DEF Matched
    <2> QED BY <1>1, <1>9, <2>1, <2>3, <2>4
<1> QED BY <1>8, <1>9

\* The functions of a module in the export are those of its text.
LEMMA ExportIsRead ==
  ASSUME ExportInv, export # << >>, NEW i \in DOMAIN export.modules
  PROVE  \E text : ReadFrom(export.modules[i].vtables, text)
<1> DEFINE m == export.modules[i].name
           vtables == export.modules[i].vtables
           text == [n \in DOMAIN Loaded(m).text |-> Loaded(m).text[n].raw]
<1>1. ASSUME NEW v \in vtables, NEW k \in DOMAIN v.functions
      PROVE  m \in LoadedNames /\ \E f \in DOMAIN Loaded(m).text : v.functions[k] = BodyOf(m, f)
    BY DEF ExportInv, Exported
<1>2. CASE m \in LoadedNames
    <2>1. /\ IsFiniteSet(DOMAIN Loaded(m).text) /\ DOMAIN Loaded(m).text \subseteq Nat
          /\ \A n \in DOMAIN Loaded(m).text : Loaded(m).text[n].raw \in Bytes
        BY <1>2, LoadedIs, BytesAssumption DEF ExportInv, Bytes
    <2>2. DOMAIN text = DOMAIN Loaded(m).text /\ \A n \in DOMAIN text : text[n] = Loaded(m).text[n].raw
        OBVIOUS
    <2> HIDE DEF text
    <2>3. ASSUME NEW v \in vtables, NEW k \in DOMAIN v.functions
          PROVE  v.functions[k].rva \in DOMAIN text /\ v.functions[k].raw = text[v.functions[k].rva]
        <3>1. PICK f \in DOMAIN Loaded(m).text : v.functions[k] = BodyOf(m, f)
            BY <1>1
        <3>2. v.functions[k].rva = f /\ v.functions[k].raw = Loaded(m).text[f].raw
            BY <3>1 DEF BodyOf
        <3> QED BY <2>2, <3>1, <3>2
    <2>4. ReadFrom(vtables, text)
        BY <2>1, <2>2, <2>3 DEF ReadFrom
    <2> QED BY <2>4
<1>3. CASE m \notin LoadedNames
    <2> DEFINE none == [n \in {} |-> 0]
    <2>1. DOMAIN none = {} /\ IsFiniteSet({})
        BY FS_EmptySet
    <2>2. \A v \in vtables : DOMAIN v.functions = {}
        BY <1>1, <1>3
    <2> HIDE DEF none, vtables, m
    <2>3. ReadFrom(vtables, none)
        BY <2>1, <2>2 DEF ReadFrom
    <2> QED BY <2>3 DEF vtables
<1> QED BY <1>2, <1>3

LEMMA SignaturesImply == FInv => SignaturesIdentify
<1> SUFFICES ASSUME FInv, NEW i \in DOMAIN modules, modules[i].name \in DOMAIN signatures
             PROVE  Identify(signatures[modules[i].name], export.modules[i].vtables)
    BY DEF SignaturesIdentify
<1>1. signatures[modules[i].name] = process_module(export.modules[i].vtables)
    BY DEF FInv, FilesInv
<1>2. PICK text : ReadFrom(export.modules[i].vtables, text)
    BY ExportIsRead DEF FInv, ModulesInv
<1> QED BY <1>1, <1>2, SignaturesAreRight

(* In every module, a signature that is said to be unique matches one function *)
(* and could not be shorter, and one that is not is matched by another one,    *)
(* whatever the functions look like: to compare a pattern with its neighbours  *)
(* in the sorted list is to compare it with all (compute_unique_prefixes).     *)
THEOREM SignaturesAlwaysIdentify == Spec => []SignaturesIdentify
<1> QED BY SignaturesImply, FilesInductive, PTL
-----------------------------------------------------------------------------
(* The headers of the two SDKs. *)

(* The header of a parent that a header includes lies in a module that has a
   class of that name.                                                       *)
LEMMA IncludeLies ==
  ASSUME NEW mods, \E n \in Nat : DOMAIN mods = 1..n, NEW i \in DOMAIN mods, NEW lookup, NEW classes,
         NEW headers, headers = HeadersOf(mods, lookup, mods[i], classes),
         NEW path \in DOMAIN headers, NEW inc \in headers[path],
         NEW d \in ToSet(mods[i].classes), d.name = inc[3]
  PROVE  /\ inc = <<inc[1], SubfolderOf(class_subfolder(mods, lookup), inc[3]), inc[3]>>
         /\ \E j \in DOMAIN mods : inc[1] = mods[j].name /\ \E c \in ToSet(mods[j].classes) : c.name = inc[3]
<1> DEFINE sub == class_subfolder(mods, lookup)
           to_module == class_to_module(mods)
<1>1. PICK name, parent : inc = compute_include_path(mods, sub, mods[i].name, name, parent)
    <2> DEFINE c == CHOOSE x \in classes : x.name = path[3]
    <2>1. inc \in IF c.parent \in DOMAIN lookup
                  THEN {compute_include_path(mods, sub, mods[i].name, c.name, c.parent)} ELSE {}
        BY DEF HeadersOf
    <2> HIDE DEF c, sub
    <2> QED BY <2>1
<1>2. inc = <<IF to_module[name] = to_module[parent] THEN mods[i].name ELSE to_module[parent],
              SubfolderOf(sub, parent), parent>>
    BY <1>1 DEF compute_include_path
<1> HIDE DEF sub, to_module
<1>3. /\ inc[3] = parent /\ inc = <<inc[1], SubfolderOf(sub, inc[3]), inc[3]>>
      /\ inc[1] = mods[i].name \/ inc[1] = to_module[parent]
    BY <1>2
<1>4. \E j \in DOMAIN mods : to_module[parent] = mods[j].name /\ \E c \in ToSet(mods[j].classes) : c.name = parent
    <2> DEFINE has == {j \in DOMAIN mods : \E c \in ToSet(mods[j].classes) : c.name = parent}
    <2>0. PICK n \in Nat : DOMAIN mods = 1..n
        OBVIOUS
    <2>1. i \in has /\ has \in SUBSET 0..n
        BY <1>3, <2>0
    <2>2. parent \in ClassNames(mods)
        BY <1>3 DEF ClassNames
    <2>3. to_module[parent] = mods[Max(has)].name
        BY <2>2 DEF to_module, class_to_module
    <2>4. Max(has) \in has
        <3> HIDE DEF has
        <3> QED BY <2>1, GreatestIs
    <2> QED BY <2>3, <2>4
<1> QED BY <1>3, <1>4 DEF sub

LEMMA HeaderOf ==
  ASSUME NEW mods, NEW lookup, NEW mod, NEW classes, NEW c \in classes, NEW path,
         path = <<mod.name, SubfolderOf(class_subfolder(mods, lookup), c.name), c.name>>
  PROVE  path \in DOMAIN HeadersOf(mods, lookup, mod, classes)
BY DEF HeadersOf

LEMMA InternalHeadersOf ==
  ASSUME NEW mods, NEW exported, NEW lookup, NEW strings, NEW layouts, NEW index, NEW i
  PROVE  process_internal_module(mods, exported, lookup, strings, layouts, index, i).headers
           = HeadersOf(mods, lookup, mods[i], ToSet(mods[i].classes))
BY DEF process_internal_module

(* What generate_sdk() and generate_internal_sdk() have written. *)
SdkOf(i) == process_sdk_module(modules, ClassLookup, i)

InternalHeaders(i) == HeadersOf(modules, ClassLookup, modules[i], ToSet(modules[i].classes))

SdkInv ==
  /\ sdk.modules # {} =>
       /\ step \in {"internal_sdk", "done"}
       /\ sdk.modules = {SdkOf(i) : i \in DOMAIN modules}
  /\ internal_sdk # {} =>
       /\ step = "done"
       /\ \A r \in internal_sdk : \E i \in DOMAIN modules : r.module = modules[i].name /\ r.headers = InternalHeaders(i)
       /\ \A i \in DOMAIN modules : \E r \in internal_sdk : r.module = modules[i].name /\ r.headers = InternalHeaders(i)

LEMMA SdkHeadersAre ==
  \A i : SdkOf(i).module = modules[i].name /\ SdkOf(i).headers = HeadersOf(modules, ClassLookup, modules[i], UsefulOf(modules[i]))
BY DEF SdkOf, process_sdk_module

LEMMA SdkFrame ==
  ASSUME SdkInv, UNCHANGED <<modules, global_class_lookup, sdk, internal_sdk>>,
         step' = step \/ (step = "internal_sdk" /\ step' = "done") \/ step \notin {"internal_sdk", "done"}
  PROVE  SdkInv'
<1>1. ClassLookup' = ClassLookup
    BY DEF ClassLookup
<1>2. \A i : SdkOf(i)' = SdkOf(i) /\ InternalHeaders(i)' = InternalHeaders(i)
    BY <1>1 DEF SdkOf, InternalHeaders
<1> QED BY <1>1, <1>2 DEF SdkInv

LEMMA JoinKeepsSdk == ASSUME IInv, RInv, SdkInv, UNCHANGED dumpVars, Join PROVE SdkInv'
<1>1. /\ UNCHANGED <<modules, global_class_lookup>> /\ pool.running /\ AllJoined
      /\ step \in ToSet(Jobs) /\ step' = NextStep[step]
    BY DEF Join, IInv, PoolBooks
<1>2. /\ DOMAIN pool.results = Work(step)
      /\ \A i \in Work(step) : pool.results[i] = Task(step, i)
    BY <1>1 DEF IInv, PoolBooks, AllJoined, RInv, ResultsRight
<1>3. ClassLookup' = ClassLookup
    BY <1>1 DEF ClassLookup
<1>4. \A i : SdkOf(i)' = SdkOf(i) /\ InternalHeaders(i)' = InternalHeaders(i)
    BY <1>1, <1>3 DEF SdkOf, InternalHeaders
<1>5. CASE step \in {"layouts", "signatures"}
    <2>1. UNCHANGED <<sdk, internal_sdk>>
        BY <1>5 DEF Join
    <2> QED BY <1>1, <1>5, <2>1, SdkFrame
<1>6. CASE step = "sdk"
    <2>1. sdk'.modules = Results /\ internal_sdk' = internal_sdk /\ step' = "internal_sdk"
        BY <1>1, <1>6, StepAfter DEF Join
    <2>2. internal_sdk' = {}
        BY <1>6, <2>1 DEF SdkInv
    <2>3. Work("sdk") = DOMAIN modules
        BY DEF Work
    <2>4. \A i : Task("sdk", i) = SdkOf(i)
        BY DEF Task, SdkOf
    <2>5. Results = {SdkOf(i) : i \in DOMAIN modules}
        BY <1>2, <1>6, <2>3, <2>4 DEF Results
    <2> QED BY <1>1, <1>4, <2>1, <2>2, <2>5 DEF SdkInv
<1>7. CASE step = "internal_sdk"
    <2>1. sdk' = sdk /\ internal_sdk' = Results /\ step' = "done"
        BY <1>1, <1>7, StepAfter DEF Join
    <2>2. Work("internal_sdk") = DOMAIN modules
        BY DEF Work
    <2>3. \A i : Task("internal_sdk", i).module = modules[i].name /\ Task("internal_sdk", i).headers = InternalHeaders(i)
        <3>1. \A i : Task("internal_sdk", i).headers = InternalHeaders(i)
            BY InternalHeadersOf DEF Task, InternalHeaders
        <3> QED BY <3>1, TaskOfInternalSdk
    <2>4. /\ \A r \in Results : \E i \in DOMAIN modules : r.module = modules[i].name /\ r.headers = InternalHeaders(i)
          /\ \A i \in DOMAIN modules : \E r \in Results : r.module = modules[i].name /\ r.headers = InternalHeaders(i)
        BY <1>2, <1>7, <2>2, <2>3 DEF Results
    <2> QED BY <1>1, <1>4, <2>1, <2>4, <1>7 DEF SdkInv
<1> QED BY <1>1, <1>5, <1>6, <1>7, JobSteps

LEMMA NextKeepsSdk == IInv /\ RInv /\ SdkInv /\ [Next]_<<dumpVars, exeVars, genVars>> => SdkInv'
<1> SUFFICES ASSUME IInv, RInv, SdkInv, [Next]_<<dumpVars, exeVars, genVars>> PROVE SdkInv'
    OBVIOUS
<1>1. CASE UNCHANGED <<exeVars, genVars>>
    BY <1>1, SdkFrame DEF exeVars, genVars
<1>2. CASE ExeNext /\ UNCHANGED <<dumpVars, genVars>>
    <2>1. step \in {"parse", "lookup", "modules", "trees"} /\ UNCHANGED <<sdk, internal_sdk>>
        BY <1>2 DEF ExeNext, ParseExport, BuildLookup, EmitModule, WriteTrees, genVars
    <2> QED BY <2>1 DEF SdkInv
<1>3. ASSUME NEW job \in ToSet(Jobs), Skip(job) PROVE SdkInv'
    BY <1>3, JobSteps, StepAfter, SdkFrame DEF Skip, genVars
<1>4. ASSUME NEW job \in ToSet(Jobs), Start(job) PROVE SdkInv'
    BY <1>4, SdkFrame DEF Start, exeVars
<1>5. ASSUME NEW t \in 1..HwThreads, Take(t) \/ Store(t) PROVE SdkInv'
    BY <1>5, SdkFrame DEF Take, Store, exeVars
<1> QED BY <1>1, <1>2, <1>3, <1>4, <1>5, JoinKeepsSdk DEF Next, GenNext

LEMMA SdkInductive == Spec => [](IInv /\ RInv /\ FInv /\ SdkInv)
<1>1. Init => SdkInv
    BY DEF Init, GenInit, NoSdk, SdkInv
<1> QED BY <1>1, FilesInductive, NextKeepsSdk, PTL DEF Spec

LEMMA SdkImplies == FInv /\ SdkInv => IncludedIsWritten
<1> SUFFICES ASSUME FInv, SdkInv, NEW results \in {sdk.modules, internal_sdk}, NEW r \in results,
                    NEW path \in DOMAIN r.headers, NEW inc \in r.headers[path],
                    NEW p \in Slots(modules), modules[p[1]].name = r.module, At(modules, p).name = inc[3],
                    results = sdk.modules => \A q \in Named(modules, inc[3]) : Useful(At(modules, q))
             PROVE  \E x \in results : inc \in DOMAIN x.headers
    BY DEF IncludedIsWritten
<1>1. PICK n \in Nat : DOMAIN modules = 1..n
    BY DEF FInv, ModulesInv
<1>2. p[1] \in DOMAIN modules /\ p[2] \in DOMAIN modules[p[1]].classes
    BY DEF Slots
<1> DEFINE d == At(modules, p)
<1>3. d \in ToSet(modules[p[1]].classes)
    BY <1>2 DEF At, ToSet
<1>4. ASSUME NEW j \in DOMAIN modules, NEW c \in ToSet(modules[j].classes), c.name = inc[3], results = sdk.modules
      PROVE  c \in UsefulOf(modules[j])
    <2>1. PICK k \in DOMAIN modules[j].classes : c = modules[j].classes[k]
        BY DEF ToSet
    <2>2. <<j, k>> \in Slots(modules)
        BY DEF Slots
    <2>3. At(modules, <<j, k>>) = c
        BY <2>1 DEF At
    <2>4. <<j, k>> \in Named(modules, inc[3])
        BY <1>4, <2>2, <2>3 DEF Named
    <2> QED BY <1>4, <2>3, <2>4 DEF UsefulOf
<1>5. CASE results = sdk.modules
    <2>1. PICK i \in DOMAIN modules : r = SdkOf(i)
        BY <1>5 DEF SdkInv
    <2>2. r.module = modules[i].name /\ r.headers = HeadersOf(modules, ClassLookup, modules[i], UsefulOf(modules[i]))
        BY <2>1, SdkHeadersAre
    <2>3. i = p[1]
        BY <1>2, <2>2 DEF FInv, NamesDiffer
    <2>4. /\ inc = <<inc[1], SubfolderOf(class_subfolder(modules, ClassLookup), inc[3]), inc[3]>>
          /\ \E j \in DOMAIN modules : inc[1] = modules[j].name /\ \E c \in ToSet(modules[j].classes) : c.name = inc[3]
        <3> HIDE DEF d
        <3>1. d \in ToSet(modules[i].classes) /\ d.name = inc[3]
            BY <1>3, <2>3 DEF d
        <3>2. \E m \in Nat : DOMAIN modules = 1..m
            BY <1>1
        <3> QED BY <2>2, <3>1, <3>2, IncludeLies
    <2>5. PICK j \in DOMAIN modules : inc[1] = modules[j].name /\ \E c \in ToSet(modules[j].classes) : c.name = inc[3]
        BY <2>4
    <2>9. PICK c \in ToSet(modules[j].classes) : c.name = inc[3]
        BY <2>5
    <2>6. c \in UsefulOf(modules[j])
        BY <1>4, <1>5, <2>9
    <2>7. inc \in DOMAIN HeadersOf(modules, ClassLookup, modules[j], UsefulOf(modules[j]))
        <3>1. inc = <<modules[j].name, SubfolderOf(class_subfolder(modules, ClassLookup), c.name), c.name>>
            BY <2>4, <2>5, <2>9
        <3> QED BY <2>6, <3>1, HeaderOf, Zenon
    <2>8. inc \in DOMAIN SdkOf(j).headers /\ SdkOf(j) \in results
        BY <1>5, <2>7, SdkHeadersAre DEF SdkInv
    <2> QED BY <2>8
<1>6. CASE results = internal_sdk
    <2>1. PICK i \in DOMAIN modules : r.module = modules[i].name /\ r.headers = InternalHeaders(i)
        BY <1>6 DEF SdkInv
    <2>2. r.headers = HeadersOf(modules, ClassLookup, modules[i], ToSet(modules[i].classes))
        BY <2>1 DEF InternalHeaders
    <2>3. i = p[1]
        BY <1>2, <2>1 DEF FInv, NamesDiffer
    <2>4. /\ inc = <<inc[1], SubfolderOf(class_subfolder(modules, ClassLookup), inc[3]), inc[3]>>
          /\ \E j \in DOMAIN modules : inc[1] = modules[j].name /\ \E c \in ToSet(modules[j].classes) : c.name = inc[3]
        <3> HIDE DEF d
        <3>1. d \in ToSet(modules[i].classes) /\ d.name = inc[3]
            BY <1>3, <2>3 DEF d
        <3>2. \E m \in Nat : DOMAIN modules = 1..m
            BY <1>1
        <3> QED BY <2>2, <3>1, <3>2, IncludeLies
    <2>5. PICK j \in DOMAIN modules : inc[1] = modules[j].name /\ \E c \in ToSet(modules[j].classes) : c.name = inc[3]
        BY <2>4
    <2>6. PICK c \in ToSet(modules[j].classes) : c.name = inc[3]
        BY <2>5
    <2>7. inc \in DOMAIN InternalHeaders(j)
        <3>1. inc = <<modules[j].name, SubfolderOf(class_subfolder(modules, ClassLookup), c.name), c.name>>
            BY <2>4, <2>5, <2>6
        <3>2. inc \in DOMAIN HeadersOf(modules, ClassLookup, modules[j], ToSet(modules[j].classes))
            BY <2>6, <3>1, HeaderOf, Zenon
        <3> QED BY <3>2 DEF InternalHeaders
    <2>8. \E x \in internal_sdk : x.headers = InternalHeaders(j)
        BY <1>6 DEF SdkInv
    <2> QED BY <1>6, <2>7, <2>8
<1> QED BY <1>5, <1>6

(* The header that a header of either SDK includes from its own module is      *)
(* written as well, whatever the modules are and whichever class_lookup and    *)
(* class_to_module make of names that several modules use.                     *)
THEOREM IncludesAreWritten == Spec => []IncludedIsWritten
<1> QED BY SdkInductive, SdkImplies, PTL

-----------------------------------------------------------------------------
(* The headers of --sdk: the classes of the modules are those of the schema.    *)

\* No module has a name twice, each class is one of the schema, and class_lookup
\* leads to one of them.
ClassInv ==
  /\ CachedInv /\ ClassesInv
  /\ ClassRows(modules)
  /\ \A n \in DOMAIN global_class_lookup : global_class_lookup[n] \in Slots(modules)

LEMMA SortedRow ==
  ASSUME NEW classes, ClassRow(classes), NEW key \in [DOMAIN classes -> Nat]
  PROVE  ClassRow(SortedBy(classes, key)) /\ DOMAIN SortedBy(classes, key) = DOMAIN classes
<1> DEFINE n == Len(classes)
           sorted == SortedBy(classes, key)
<1>1. n \in Nat /\ DOMAIN classes = 1..n
    BY DEF ClassRow, IsRow
<1>2. PICK p : InPlace(p, key, n) /\ sorted = [i \in 1..n |-> classes[p[i]]]
    BY <1>1, SortedIs
<1> HIDE DEF n, sorted
<1>3. /\ DOMAIN sorted = 1..n /\ \A i \in 1..n : p[i] \in 1..n /\ sorted[i] = classes[p[i]]
      /\ \A i, j \in 1..n : p[i] = p[j] => i = j
    <2>1. p \in Seq(1..n) /\ Len(p) = n /\ \A i, j \in 1..n : p[i] = p[j] => i = j
        BY <1>2, Zenon DEF InPlace
    <2>2. \A i \in 1..n : p[i] \in 1..n
        BY <1>1, <2>1
    <2> QED BY <1>2, <2>1, <2>2
<1>4. IsRow(sorted)
    BY <1>1, <1>2 DEF IsRow
<1>5. \A i, j \in DOMAIN sorted : sorted[i].name = sorted[j].name => i = j
    BY <1>1, <1>3 DEF ClassRow
<1>6. \A j \in DOMAIN sorted : \E e \in ClassInfos : IsClass(sorted[j], e)
    BY <1>1, <1>3 DEF ClassRow
<1> QED BY <1>1, <1>3, <1>4, <1>5, <1>6 DEF ClassRow, sorted

LEMMA RanksAre ==
  ASSUME game \in Games, NEW classes, ClassRow(classes)
  PROVE  [k \in DOMAIN classes |-> RankOf(classes[k].name)] \in [DOMAIN classes -> Nat]
<1> SUFFICES ASSUME NEW k \in DOMAIN classes PROVE RankOf(classes[k].name) \in Nat
    OBVIOUS
<1>1. PICK e \in ClassInfos : IsClass(classes[k], e)
    BY DEF ClassRow
<1>2. classes[k].name \in ToSet(NameOrder)
    BY <1>1, NamesAssumption DEF IsClass, ClassInfos
<1>3. \E r \in DOMAIN NameOrder : NameOrder[r] = classes[k].name
    BY <1>2 DEF ToSet
<1>4. RankOf(classes[k].name) \in DOMAIN NameOrder
    BY <1>3 DEF RankOf
<1> QED BY <1>4, NamesAssumption DEF IsRow

\* Of the slots of a name one is the first.
LEMMA FirstSlot ==
  ASSUME NEW mods, ClassRows(mods), \E n \in Nat : DOMAIN mods = 1..n,
         NEW P, P \subseteq Slots(mods), P # {}
  PROVE  \E p \in P : \A q \in P : Before(p, q)
<1> DEFINE I == {p[1] : p \in P}
<1>1. \A p \in P : /\ p[1] \in DOMAIN mods /\ p[2] \in DOMAIN mods[p[1]].classes
                   /\ p = <<p[1], p[2]>> /\ p[1] \in Nat /\ p[2] \in Nat
    <2>1. \A p \in P : p[1] \in DOMAIN mods /\ p[2] \in DOMAIN mods[p[1]].classes /\ p = <<p[1], p[2]>>
        BY DEF Slots
    <2>2. \A i \in DOMAIN mods : i \in Nat
        OBVIOUS
    <2>3. \A i \in DOMAIN mods : \A j \in DOMAIN mods[i].classes : j \in Nat
        BY DEF ClassRows, ClassRow, IsRow
    <2> QED BY <2>1, <2>2, <2>3
<1>2. I \in SUBSET Nat /\ I # {}
    BY <1>1
<1>3. PICK i \in I : \A x \in I : i <= x
    <2> HIDE DEF I
    <2> QED BY <1>2, LeastNat
<1> DEFINE J == {p[2] : p \in {q \in P : q[1] = i}}
<1>4. J \in SUBSET Nat /\ J # {}
    BY <1>1, <1>3
<1>5. PICK j \in J : \A x \in J : j <= x
    <2> HIDE DEF J
    <2> QED BY <1>4, LeastNat
<1>6. PICK p \in P : p[1] = i /\ p[2] = j
    BY <1>5
<1>7. ASSUME NEW q \in P PROVE Before(p, q)
    <2>1. i \in Nat /\ q[1] \in Nat /\ i <= q[1]
        BY <1>1, <1>3, <1>6
    <2>2. q[1] = i => j <= q[2]
        BY <1>5
    <2> QED BY <1>6, <2>1, <2>2 DEF Before
<1> QED BY <1>7

LEMMA LookupLeads ==
  ASSUME ClassRows(modules), \E n \in Nat : DOMAIN modules = 1..n, NEW n \in Names(modules)
  PROVE  (CHOOSE p \in Named(modules, n) : \A q \in Named(modules, n) : Before(p, q)) \in Slots(modules)
<1>1. Named(modules, n) \subseteq Slots(modules) /\ Named(modules, n) # {}
    BY DEF Names, Named
<1>2. \E p \in Named(modules, n) : \A q \in Named(modules, n) : Before(p, q)
    BY <1>1, FirstSlot
<1> QED BY <1>1, <1>2

LEMMA ClassInvInit == Init => ClassInv
<1> SUFFICES ASSUME Init PROVE ClassInv
    OBVIOUS
<1>1. CachedInv /\ ClassesInv
    BY CachedInvInit, ClassesInvInit DEF Init
<1>2. modules = << >> /\ global_class_lookup = << >> /\ DOMAIN << >> = {}
    BY DEF Init, ExeInit
<1> QED BY <1>1, <1>2 DEF ClassInv, ClassRows

LEMMA DumpKeepsClasses == ASSUME FInv, ClassInv, [DumpNext]_dumpVars PROVE CachedInv' /\ ClassesInv'
BY CachedInvStep, ClassesInvStep DEF FInv, ClassInv

LEMMA ClassFrame ==
  ASSUME FInv, ClassInv, UNCHANGED <<dumpVars, modules, global_class_lookup>> PROVE ClassInv'
<1>1. CachedInv' /\ ClassesInv' /\ game' = game
    BY DumpKeepsClasses DEF dumpVars, schemaVars
<1>2. ClassRows(modules)'
    BY <1>1, RowStays DEF ClassInv, ClassRows, ClassRow
<1>3. Slots(modules)' = Slots(modules)
    BY DEF Slots
<1> QED BY <1>1, <1>2, <1>3 DEF ClassInv

LEMMA ExeKeepsClasses ==
  ASSUME FInv, ClassInv, ExeNext, UNCHANGED dumpVars PROVE ClassInv'
<1>1. CachedInv' /\ ClassesInv' /\ game' = game /\ export' = export
    BY DumpKeepsClasses DEF dumpVars, schemaVars, workerVars
<1>2. ASSUME ClassRows(modules') PROVE ClassRows(modules)'
    BY <1>1, <1>2, RowStays DEF ClassRows, ClassRow
<1>3. CASE ParseExport
    <2>1. global_class_lookup' = global_class_lookup /\ modules = << >>
        BY <1>3 DEF ParseExport, FInv, ModulesInv
    <2>2. DOMAIN global_class_lookup = {}
        <3>1. Slots(<< >>) = {}
            BY DEF Slots
        <3> QED BY <2>1, <3>1 DEF ClassInv
    <2>3. CASE modules' = modules
        BY <1>1, <1>2, <2>1, <2>2, <2>3 DEF ClassInv
    <2>4. CASE export # << >> /\ modules' = [i \in DOMAIN export.modules |->
                                                [name    |-> export.modules[i].name,
                                                 classes |-> export.modules[i].classes,
                                                 enums   |-> export.modules[i].enums]]
        <3>1. ClassRows(modules')
            BY <2>4 DEF ClassInv, ClassesInv, ClassRows
        <3> QED BY <1>1, <1>2, <2>1, <2>2, <3>1 DEF ClassInv
    <2> QED BY <1>3, <2>3, <2>4 DEF ParseExport
<1>4. CASE BuildLookup
    <2>1. /\ modules' = modules
          /\ global_class_lookup' =
               [n \in Names(modules) |->
                  CHOOSE p \in Named(modules, n) : \A q \in Named(modules, n) : Before(p, q)]
        BY <1>4 DEF BuildLookup
    <2>2. \A n \in DOMAIN global_class_lookup' : global_class_lookup'[n] \in Slots(modules)
        BY <2>1, LookupLeads DEF ClassInv, FInv, ModulesInv
    <2>3. Slots(modules)' = Slots(modules)
        BY <2>1 DEF Slots
    <2> QED BY <1>1, <1>2, <2>1, <2>2, <2>3 DEF ClassInv
<1>5. CASE EmitModule
    <2> DEFINE i == emitted + 1
               old == modules[i].classes
               key == [k \in DOMAIN old |-> RankOf(old[k].name)]
               sorted == SortedBy(old, key)
    <2>1. /\ modules' \in {modules, [modules EXCEPT ![i].classes = sorted]}
          /\ global_class_lookup' = global_class_lookup
        BY <1>5 DEF EmitModule
    <2>2. CASE modules' = modules
        BY <2>1, <2>2, ClassFrame
    <2>3. CASE modules' = [modules EXCEPT ![i].classes = sorted] /\ i \notin DOMAIN modules
        <3>1. modules = [j \in DOMAIN modules |-> [name    |-> modules[j].name,
                                                   classes |-> modules[j].classes,
                                                   enums   |-> modules[j].enums]]
            BY DEF FInv, ModulesInv
        <3> HIDE DEF sorted, i
        <3>2. modules' = modules
            BY <2>3, <3>1
        <3> QED BY <2>1, <3>2, ClassFrame
    <2>4. CASE modules' = [modules EXCEPT ![i].classes = sorted] /\ i \in DOMAIN modules
        <3>1. ClassRow(old)
            BY <2>4 DEF ClassInv, ClassRows
        <3>2. key \in [DOMAIN old -> Nat]
            <4> HIDE DEF old
            <4> QED BY <3>1, RanksAre DEF FInv, ExportInv
        <3>3. ClassRow(sorted) /\ DOMAIN sorted = DOMAIN old
            <4> HIDE DEF old, key
            <4> QED BY <3>1, <3>2, SortedRow
        <3> HIDE DEF sorted, i
        <3>4. /\ DOMAIN modules' = DOMAIN modules
              /\ \A j \in DOMAIN modules : modules'[j].classes = IF j = i THEN sorted ELSE modules[j].classes
            <4>1. modules = [j \in DOMAIN modules |-> [name    |-> modules[j].name,
                                                       classes |-> modules[j].classes,
                                                       enums   |-> modules[j].enums]]
                BY DEF FInv, ModulesInv
            <4> QED BY <2>4, <4>1
        <3>5. ClassRows(modules')
            BY <3>3, <3>4 DEF ClassInv, ClassRows
        <3>6. \A j \in DOMAIN modules : DOMAIN modules'[j].classes = DOMAIN modules[j].classes
            BY <3>3, <3>4
        <3>7. Slots(modules)' = Slots(modules)
            BY <3>4, <3>6 DEF Slots
        <3> QED BY <1>1, <1>2, <2>1, <3>5, <3>7 DEF ClassInv
    <2> QED BY <2>1, <2>2, <2>3, <2>4
<1>6. CASE WriteTrees
    BY <1>6, ClassFrame DEF WriteTrees
<1> QED BY <1>3, <1>4, <1>5, <1>6 DEF ExeNext

LEMMA NextKeepsClasses == IInv /\ FInv /\ ClassInv /\ [Next]_<<dumpVars, exeVars, genVars>> => ClassInv'
<1> SUFFICES ASSUME IInv, FInv, ClassInv, [Next]_<<dumpVars, exeVars, genVars>> PROVE ClassInv'
    OBVIOUS
<1>1. CASE DumpNext /\ UNCHANGED <<exeVars, genVars>>
    <2>1. phase # "done"
        BY <1>1 DEF DumpNext, PhaseSchema, PhaseRtti, PhaseGlobals, PhasePatterns, PhaseReferences, WriteExport, ResolveRtti
    <2>2. modules = << >> /\ modules' = << >> /\ global_class_lookup' = global_class_lookup
        BY <1>1, <2>1 DEF IInv, Order, FInv, ModulesInv, exeVars
    <2>3. CachedInv' /\ ClassesInv'
        BY <1>1, DumpKeepsClasses
    <2>4. ClassRows(modules)' /\ Slots(modules)' = Slots(modules)
        BY <2>2 DEF ClassRows, Slots
    <2> QED BY <2>2, <2>3, <2>4 DEF ClassInv
<1>2. CASE ExeNext /\ UNCHANGED <<dumpVars, genVars>>
    BY <1>2, ExeKeepsClasses
<1>3. CASE GenNext /\ UNCHANGED dumpVars
    <2>1. UNCHANGED <<modules, global_class_lookup>>
        <3>1. ASSUME NEW job \in ToSet(Jobs), Skip(job) \/ Start(job) PROVE UNCHANGED <<modules, global_class_lookup>>
            BY <3>1 DEF Skip, Start, exeVars
        <3>2. ASSUME NEW t \in 1..HwThreads, Take(t) \/ Store(t) PROVE UNCHANGED <<modules, global_class_lookup>>
            BY <3>2 DEF Take, Store, exeVars
        <3>3. ASSUME Join PROVE UNCHANGED <<modules, global_class_lookup>>
            BY <3>3 DEF Join
        <3> QED BY <1>3, <3>1, <3>2, <3>3 DEF GenNext
    <2> QED BY <1>3, <2>1, ClassFrame
<1>4. CASE UNCHANGED <<dumpVars, exeVars, genVars>>
    BY <1>4, ClassFrame DEF exeVars
<1> QED BY <1>1, <1>2, <1>3, <1>4 DEF Next

LEMMA ClassInductive == Spec => [](IInv /\ FInv /\ SdkInv /\ ClassInv)
BY ClassInvInit, SdkInductive, NextKeepsClasses, PTL DEF Spec

-----------------------------------------------------------------------------
(* The struct of a class: the members of a header lie where their fields are.   *)

\* A member is a padding or stands for a field, and at is where each begins, the
\* last element where the next one would.
Members(fields) == [name : {"_pad"} \cup {fields[k].name : k \in DOMAIN fields}, size : Nat]

LaidOut(at, base, members, end, fields) ==
  /\ members \in Seq(Members(fields))
  /\ at \in [1..(Len(members) + 1) -> Nat]
  /\ at[1] = base /\ at[Len(members) + 1] = end
  /\ \A i \in 1..Len(members) :
       /\ at[i + 1] = at[i] + members[i].size
       /\ members[i].name = "_pad" \/ \E k \in DOMAIN fields : members[i].name = fields[k].name /\ at[i] = fields[k].offset

\* There is such an at for the members and the cursor of emit_fields.
Consistent(base, members, end, fields) == \E at : LaidOut(at, base, members, end, fields)

LEMMA OneMember ==
  ASSUME NEW base, NEW members, NEW end, NEW fields, Consistent(base, members, end, fields),
         NEW x \in Members(fields),
         x.name = "_pad" \/ \E k \in DOMAIN fields : x.name = fields[k].name /\ end = fields[k].offset
  PROVE  Consistent(base, Append(members, x), end + x.size, fields)
<1> DEFINE l == Len(members)
           more == Append(members, x)
<1>1. PICK at : LaidOut(at, base, members, end, fields)
    BY DEF Consistent
<1>2. /\ members \in Seq(Members(fields)) /\ l \in Nat /\ at \in [1..(l + 1) -> Nat]
      /\ at[1] = base /\ at[l + 1] = end
    BY <1>1 DEF LaidOut
<1>3. \A i \in 1..l :
         /\ at[i + 1] = at[i] + members[i].size
         /\ members[i].name = "_pad" \/ \E k \in DOMAIN fields : members[i].name = fields[k].name /\ at[i] = fields[k].offset
    BY <1>1 DEF LaidOut
<1>4. /\ more \in Seq(Members(fields)) /\ Len(more) = l + 1
      /\ more[l + 1] = x /\ \A i \in 1..l : more[i] = members[i]
    BY <1>2, AppendProperties
<1>5. x.size \in Nat /\ end \in Nat
    BY <1>2 DEF Members
<1> DEFINE to == [i \in 1..(l + 2) |-> IF i = l + 2 THEN end + x.size ELSE at[i]]
<1> HIDE DEF l, more
<1>6. to \in [1..(l + 1 + 1) -> Nat] /\ to[1] = base /\ to[l + 1 + 1] = end + x.size
    BY <1>2, <1>5
<1>7. /\ \A i \in 1..(l + 1) : to[i] = at[i]
      /\ \A i \in 1..l : to[i + 1] = at[i + 1]
      /\ to[l + 1 + 1] = at[l + 1] + x.size
    BY <1>2, <1>5
<1> HIDE DEF to
<1>8. ASSUME NEW i \in 1..(l + 1)
      PROVE  /\ to[i + 1] = to[i] + more[i].size
             /\ \/ more[i].name = "_pad"
                \/ \E k \in DOMAIN fields : more[i].name = fields[k].name /\ to[i] = fields[k].offset
    <2>1. CASE i \in 1..l
        <3>1. to[i] = at[i] /\ to[i + 1] = at[i + 1] /\ more[i] = members[i]
            BY <1>4, <1>7, <2>1
        <3> QED BY <1>3, <2>1, <3>1
    <2>2. CASE i = l + 1
        <3>1. to[i] = end /\ to[i + 1] = end + x.size /\ more[i] = x
            BY <1>2, <1>4, <1>7, <2>2
        <3> QED BY <3>1
    <2> QED BY <1>2, <2>1, <2>2
<1>9. LaidOut(to, base, more, end + x.size, fields)
    BY <1>4, <1>6, <1>8 DEF LaidOut
<1> QED BY <1>9 DEF Consistent, more

LEMMA Padded ==
  ASSUME NEW base, NEW members, NEW end \in Nat, NEW fields, Consistent(base, members, end, fields),
         NEW to \in Nat, end <= to
  PROVE  Consistent(base, members \o Pad(end, to), to, fields)
<1>1. members \in Seq(Members(fields))
    BY DEF Consistent, LaidOut
<1>2. CASE end = to
    <2>1. Pad(end, to) = << >>
        BY <1>2 DEF Pad
    <2>2. members \o << >> = members
        BY <1>1, ConcatEmptySeq
    <2> QED BY <1>2, <2>1, <2>2
<1>3. CASE to > end
    <2> DEFINE x == [name |-> "_pad", size |-> to - end]
    <2>1. Pad(end, to) = <<x>>
        BY <1>3 DEF Pad
    <2>2. x \in Members(fields) /\ x.name = "_pad" /\ end + x.size = to
        BY <1>3 DEF Members
    <2> HIDE DEF x
    <2>3. Append(members, x) = members \o <<x>>
        BY <1>1, <2>2, AppendIsConcat, Zenon
    <2>4. Consistent(base, Append(members, x), end + x.size, fields)
        BY <2>2, OneMember
    <2> QED BY <2>1, <2>2, <2>3, <2>4
<1> QED BY <1>2, <1>3

\* Fields that lie in the class and are declared with the size of the schema.
Plain(enums, fields, total) ==
  /\ IsRow(fields)
  /\ \A k \in DOMAIN fields :
       /\ fields[k].offset \in Nat /\ fields[k].size \in Nat \ {0}
       /\ fields[k].offset + fields[k].size <= total
       /\ fields[k].kind # "bits" /\ schema_to_cpp_type(enums, fields[k]) = fields[k].size

\* The state of the loop of generate_struct_header.
Emitted(st, base, fields, total) ==
  /\ st.cursor \in Nat /\ st.cursor <= total
  /\ Consistent(base, st.members, st.cursor, fields)

LEMMA EmitNext ==
  ASSUME NEW enums, NEW fields, NEW total \in Nat, Plain(enums, fields, total), NEW base,
         NEW st, Emitted(st, base, fields, total), NEW k \in DOMAIN fields
  PROVE  Emitted(emit_next(enums, st, fields[k]), base, fields, total)
<1> DEFINE f == fields[k]
           x == [name |-> f.name, size |-> f.size]
           padded == st.members \o Pad(st.cursor, f.offset)
<1>1. /\ f.offset \in Nat /\ f.size \in Nat \ {0} /\ f.offset + f.size <= total
      /\ f.kind # "bits" /\ schema_to_cpp_type(enums, f) = f.size
    BY DEF Plain
<1>2. CASE f.offset < st.cursor
    BY <1>2 DEF emit_next
<1>3. CASE ~ (f.offset < st.cursor)
    <2>1. emit_next(enums, st, f) = [cursor  |-> f.offset + f.size, members |-> Append(padded, x)]
        BY <1>1, <1>3 DEF emit_next, emit_field
    <2>2. st.cursor \in Nat /\ st.cursor <= f.offset /\ Consistent(base, st.members, st.cursor, fields)
        BY <1>1, <1>3 DEF Emitted
    <2>3. Consistent(base, padded, f.offset, fields)
        BY <1>1, <2>2, Padded
    <2>4. x \in Members(fields) /\ x.size = f.size /\ x.name = fields[k].name /\ f.offset = fields[k].offset
        BY <1>1 DEF Members
    <2> HIDE DEF x, padded, f
    <2>5. Consistent(base, Append(padded, x), f.offset + f.size, fields)
        BY <2>3, <2>4, OneMember
    <2>6. f.offset + f.size \in Nat
        BY <1>1
    <2>7. Emitted(emit_next(enums, st, f), base, fields, total)
        BY <1>1, <2>1, <2>5, <2>6 DEF Emitted
    <2> QED BY <2>7 DEF f
<1> QED BY <1>2, <1>3

\* c[0], c[1], ... are the states behind the first n fields.
EmitsOf(c, enums, start, fields, n) ==
  /\ c[0] = [cursor |-> start, members |-> << >>]
  /\ \A i \in 0..(n - 1) : c[i + 1] = emit_next(enums, c[i], fields[i + 1])

LEMMA EmitsExist ==
  ASSUME NEW enums, NEW start, NEW fields, Len(fields) \in Nat
  PROVE  \E c : EmitsOf(c, enums, start, fields, Len(fields)) /\ emit_fields(enums, start, fields) = c[Len(fields)]
<1> DEFINE N == Len(fields)
           Start0 == [cursor |-> start, members |-> << >>]
           Step(x, i) == emit_next(enums, x, fields[i])
           Is(g, n) == g = [i \in 0..n |-> IF i = 0 THEN Start0 ELSE Step(g[i - 1], i)]
           T == {n \in Nat : \E g : Is(g, n)}
           f == CHOOSE g : Is(g, N)
<1>1. N \in T
    <2> HIDE DEF Step, N, Start0
    <2>1. 0 \in T
        <3>1. Is([i \in 0..0 |-> Start0], 0)
            OBVIOUS
        <3> QED BY <3>1
    <2>2. ASSUME NEW n \in Nat, n \in T PROVE n + 1 \in T
        <3>1. PICK g : Is(g, n)
            BY <2>2
        <3> DEFINE h == [i \in 0..(n + 1) |-> IF i = n + 1 THEN Step(g[n], n + 1) ELSE g[i]]
        <3>2. Is(h, n + 1)
            BY <3>1
        <3> HIDE DEF h, Is
        <3> QED BY <3>2
    <2>3. Nat \subseteq T
        <3> HIDE DEF T
        <3> QED BY <2>1, <2>2, SetInduction
    <2> QED BY <2>3 DEF N
<1>2. Is(f, N)
    BY <1>1
<1>3. emit_fields(enums, start, fields) = f[N]
    BY DEF emit_fields
<1>4. EmitsOf(f, enums, start, fields, N)
    <2>1. N \in Nat
        OBVIOUS
    <2>2. f[0] = Start0 /\ \A i \in 0..(N - 1) : f[i + 1] = Step(f[i], i + 1)
        <3> HIDE DEF f, N, Step, Start0
        <3> QED BY <1>2, <2>1
    <2> HIDE DEF f, N
    <2> QED BY <2>2, Zenon DEF EmitsOf
<1> QED BY <1>3, <1>4

LEMMA FieldsEmitted ==
  ASSUME NEW enums, NEW fields, NEW total \in Nat, Plain(enums, fields, total), NEW base \in Nat, base <= total
  PROVE  Emitted(emit_fields(enums, base, fields), base, fields, total)
<1> DEFINE N == Len(fields)
<1>1. N \in Nat /\ DOMAIN fields = 1..N
    BY DEF Plain, IsRow
<1>2. PICK c : EmitsOf(c, enums, base, fields, N) /\ emit_fields(enums, base, fields) = c[N]
    BY <1>1, EmitsExist
<1> HIDE DEF N
<1> DEFINE T == {i \in 0..N : Emitted(c[i], base, fields, total)}
<1>3. 0 \in T
    <2>1. c[0] = [cursor |-> base, members |-> << >>]
        BY <1>2, Zenon DEF EmitsOf
    <2>2. c[0].cursor = base /\ c[0].members = << >>
        BY <2>1
    <2>3. LaidOut([i \in 1..1 |-> base], base, << >>, base, fields)
        <3>1. << >> \in Seq(Members(fields)) /\ Len(<< >>) = 0
            OBVIOUS
        <3>2. [i \in 1..1 |-> base] \in [1..(0 + 1) -> Nat] /\ [i \in 1..1 |-> base][1] = base
            OBVIOUS
        <3>3. 0 + 1 = 1 /\ \A i \in 1..0 : FALSE
            OBVIOUS
        <3> QED BY <3>1, <3>2, <3>3 DEF LaidOut
    <2>4. Consistent(base, << >>, base, fields)
        BY <2>3 DEF Consistent
    <2> QED BY <1>1, <2>2, <2>4 DEF Emitted
<1>4. ASSUME NEW i \in 0..(N - 1), i \in T PROVE i + 1 \in T
    <2>1. i + 1 \in 0..N /\ i + 1 \in DOMAIN fields
        BY <1>1
    <2>2. c[i + 1] = emit_next(enums, c[i], fields[i + 1])
        BY <1>2 DEF EmitsOf
    <2>3. Emitted(c[i], base, fields, total)
        BY <1>4
    <2>4. Emitted(c[i + 1], base, fields, total)
        BY <2>1, <2>2, <2>3, EmitNext
    <2> QED BY <2>1, <2>4
<1>5. N \in T
    <2>1. 0..N \subseteq T
        <3> HIDE DEF T
        <3> QED BY <1>1, <1>3, <1>4, StepInduction
    <2> QED BY <1>1, <2>1
<1> QED BY <1>2, <1>5

\* Where the compiler puts the members is where they were meant to lie.
LEMMA OffsetsAre ==
  ASSUME NEW base, NEW members, NEW end, NEW fields, NEW at, LaidOut(at, base, members, end, fields)
  PROVE  \A i \in 1..(Len(members) + 1) : OffsetsOf(base, members)[i] = at[i]
<1> DEFINE l == Len(members)
           Is(g) == g = [i \in 1..(l + 1) |-> IF i = 1 THEN base ELSE g[i - 1] + members[i - 1].size]
           g0 == CHOOSE g : Is(g)
<1>1. /\ l \in Nat /\ at \in [1..(l + 1) -> Nat] /\ at[1] = base
      /\ \A i \in 1..l : at[i + 1] = at[i] + members[i].size
    BY DEF LaidOut
<1>2. Is(at)
    <2> HIDE DEF l
    <2>1. ASSUME NEW i \in 1..(l + 1) PROVE at[i] = IF i = 1 THEN base ELSE at[i - 1] + members[i - 1].size
        <3>1. CASE i = 1
            BY <1>1, <3>1
        <3>2. CASE i # 1
            <4>1. i - 1 \in 1..l /\ (i - 1) + 1 = i
                BY <1>1, <3>2
            <4>2. at[(i - 1) + 1] = at[i - 1] + members[i - 1].size
                BY <1>1, <4>1
            <4> QED BY <3>2, <4>1, <4>2
        <3> QED BY <3>1, <3>2
    <2> QED BY <1>1, <2>1
<1>3. Is(g0)
    BY <1>2
<1>4. OffsetsOf(base, members) = g0
    BY DEF OffsetsOf
<1> HIDE DEF g0, l
<1>5. /\ g0[1] = base
      /\ \A i \in 1..l : g0[i + 1] = g0[i] + members[i].size
    BY <1>1, <1>3
<1> DEFINE T == {i \in 0..l : g0[i + 1] = at[i + 1]}
<1>6. 0 \in T
    BY <1>1, <1>5
<1>7. ASSUME NEW i \in 0..(l - 1), i \in T PROVE i + 1 \in T
    <2>1. i + 1 \in 1..l /\ i + 1 \in 0..l
        BY <1>1
    <2>2. g0[i + 1 + 1] = g0[i + 1] + members[i + 1].size /\ at[i + 1 + 1] = at[i + 1] + members[i + 1].size
        BY <1>1, <1>5, <2>1
    <2>3. g0[i + 1] = at[i + 1]
        BY <1>7
    <2> QED BY <2>1, <2>2, <2>3
<1>8. 0..l \subseteq T
    <2> HIDE DEF T
    <2> QED BY <1>1, <1>6, <1>7, StepInduction
<1>9. ASSUME NEW i \in 1..(l + 1) PROVE g0[i] = at[i]
    <2>1. i - 1 \in 0..l /\ (i - 1) + 1 = i
        BY <1>1
    <2>2. g0[(i - 1) + 1] = at[(i - 1) + 1]
        BY <1>8, <2>1
    <2> QED BY <2>1, <2>2
<1> QED BY <1>4, <1>9 DEF l

\* A field of a name stands once among the fields of a class, and none is called
\* like a padding.
NamedOnce(fields) ==
  /\ \A i \in DOMAIN fields : fields[i].name # "_pad"
  /\ \A i, j \in DOMAIN fields : fields[i].name = fields[j].name => i = j

LEMMA HeaderAsserts ==
  ASSUME NEW enums, NEW lookup, NEW c, NEW base \in Nat,
         base = IF c.parent \in DOMAIN lookup THEN lookup[c.parent].size ELSE 0,
         c.size \in Nat, base <= c.size, Plain(enums, c.fields, c.size), NamedOnce(c.fields)
  PROVE  AssertsOf(base, generate_struct_header(enums, lookup, c), c)
<1> DEFINE key == [i \in DOMAIN c.fields |-> c.fields[i].offset]
           n == Len(c.fields)
           fields == ByOffset(c.fields)
           body == emit_fields(enums, base, fields)
           members == body.members \o Pad(body.cursor, c.size)
<1>1. n \in Nat /\ DOMAIN c.fields = 1..n /\ key \in [1..n -> Nat]
    BY DEF Plain, IsRow
<1>2. PICK p : InPlace(p, key, n) /\ fields = [i \in 1..n |-> c.fields[p[i]]]
    <2> HIDE DEF key
    <2> QED BY <1>1, SortedIs DEF ByOffset, key
<1>3. \A i \in 1..n : p[i] \in 1..n
    <2>1. p \in Seq(1..n) /\ Len(p) = n
        BY <1>2, Zenon DEF InPlace
    <2> HIDE DEF n
    <2> QED BY <1>1, <2>1
<1> HIDE DEF n, key, fields
<1>4. DOMAIN fields = 1..n /\ Len(fields) = n /\ \A k \in 1..n : fields[k] = c.fields[p[k]]
    BY <1>1, <1>2
<1>5. Plain(enums, fields, c.size)
    <2>1. IsRow(fields)
        BY <1>1, <1>4 DEF IsRow
    <2>2. ASSUME NEW k \in DOMAIN fields
          PROVE  /\ fields[k].offset \in Nat /\ fields[k].size \in Nat \ {0}
                 /\ fields[k].offset + fields[k].size <= c.size
                 /\ fields[k].kind # "bits" /\ schema_to_cpp_type(enums, fields[k]) = fields[k].size
        <3>1. p[k] \in DOMAIN c.fields /\ fields[k] = c.fields[p[k]]
            BY <1>1, <1>3, <1>4
        <3> QED BY <3>1 DEF Plain
    <2> QED BY <2>1, <2>2 DEF Plain
<1>6. Emitted(body, base, fields, c.size)
    BY <1>5, FieldsEmitted
<1> HIDE DEF body
<1>7. Consistent(base, members, c.size, fields)
    BY <1>6, Padded DEF Emitted
<1>8. generate_struct_header(enums, lookup, c) = members
    BY DEF generate_struct_header, body, fields
<1> HIDE DEF members
<1>9. PICK at : LaidOut(at, base, members, c.size, fields)
    BY <1>7 DEF Consistent
<1>10. \A i \in 1..(Len(members) + 1) : OffsetsOf(base, members)[i] = at[i]
    BY <1>9, OffsetsAre
<1>11. members \in Seq(Members(fields)) /\ Len(members) \in Nat /\ DOMAIN members = 1..Len(members)
    BY <1>9 DEF LaidOut
<1>12. OffsetsOf(base, members)[Len(members) + 1] = c.size
    <2>1. Len(members) + 1 \in 1..(Len(members) + 1)
        BY <1>11
    <2> QED BY <1>9, <1>10, <2>1 DEF LaidOut
<1>13. ASSUME NEW i \in DOMAIN members, NEW f \in ToSet(c.fields), members[i].name = f.name
       PROVE  OffsetsOf(base, members)[i] = f.offset
    <2>1. PICK j \in 1..n : f = c.fields[j]
        BY <1>1 DEF ToSet
    <2>2. i \in 1..Len(members) /\ i \in 1..(Len(members) + 1)
        BY <1>11
    <2>3. members[i].name # "_pad"
        BY <1>1, <1>13, <2>1 DEF NamedOnce
    <2>4. PICK k \in DOMAIN fields : members[i].name = fields[k].name /\ at[i] = fields[k].offset
        BY <1>9, <2>2, <2>3 DEF LaidOut
    <2>5. p[k] \in 1..n /\ fields[k] = c.fields[p[k]]
        BY <1>3, <1>4, <2>4
    <2>6. p[k] = j
        BY <1>1, <1>13, <2>1, <2>4, <2>5 DEF NamedOnce
    <2> QED BY <1>10, <2>1, <2>2, <2>4, <2>5, <2>6
<1>14. AssertsOf(base, members, c)
    BY <1>12, <1>13 DEF AssertsOf
<1> QED BY <1>8, <1>14

\* What the schema says of a class is what a header can be made of.
LEMMA ClassFields ==
  ASSUME game \in Games, NEW e \in ClassInfos, NEW c, IsClass(c, e)
  PROVE  /\ c.size \in Nat /\ IsRow(c.fields) /\ NamedOnce(c.fields)
         /\ \A i \in DOMAIN c.fields : c.fields[i].offset \in Nat /\ c.fields[i].size \in Nat
<1> DEFINE all == game.infos[e].fields
           S == {f \in ToSet(all) : f.name # Unprintable}
           fields == Kept(all, S)
<1>1. /\ game.infos[e].size \in Nat /\ IsRow(all)
      /\ \A i \in DOMAIN all : all[i].offset \in Nat /\ all[i].size \in Nat /\ all[i].name # "_pad"
      /\ \A i, j \in DOMAIN all : all[i].name = all[j].name => i = j \/ all[i].name = Unprintable
    BY FieldsAssumption DEF ClassInfos
<1>2. c.size = game.infos[e].size /\ c.fields = fields
    BY DEF IsClass, NamedOnly
<1>3. Len(all) \in Nat /\ DOMAIN all = 1..Len(all)
    BY <1>1 DEF IsRow
<1>4. PICK q : TakenFrom(q, fields, all, S, Len(all))
    BY <1>3, KeptPlaces
<1>5. \A f \in S : f.name # Unprintable
    OBVIOUS
<1> HIDE DEF S, all, fields
<1>6. /\ fields \in Seq(S) /\ q \in [1..Len(fields) -> 1..Len(all)]
      /\ \A i, j \in 1..Len(fields) : q[i] = q[j] => i = j
      /\ \A i \in 1..Len(fields) : fields[i] = all[q[i]]
    BY <1>4 DEF TakenFrom
<1>7. Len(fields) \in Nat /\ DOMAIN fields = 1..Len(fields) /\ \A i \in 1..Len(fields) : fields[i] \in S
    BY <1>6
<1>8. IsRow(fields)
    BY <1>7 DEF IsRow
<1>9. \A i \in 1..Len(fields) : q[i] \in DOMAIN all /\ fields[i] = all[q[i]] /\ fields[i].name # Unprintable
    BY <1>3, <1>5, <1>6, <1>7
<1>10. NamedOnce(fields)
    <2>1. \A i \in DOMAIN fields : fields[i].name # "_pad"
        BY <1>1, <1>7, <1>9
    <2>2. ASSUME NEW i \in DOMAIN fields, NEW j \in DOMAIN fields, fields[i].name = fields[j].name PROVE i = j
        <3>1. all[q[i]].name = all[q[j]].name /\ all[q[i]].name # Unprintable
              /\ q[i] \in DOMAIN all /\ q[j] \in DOMAIN all
            BY <1>7, <1>9, <2>2
        <3>2. q[i] = q[j]
            BY <1>1, <3>1
        <3> QED BY <1>6, <1>7, <3>2
    <2> QED BY <2>1, <2>2 DEF NamedOnce
<1>11. \A i \in DOMAIN fields : fields[i].offset \in Nat /\ fields[i].size \in Nat
    BY <1>1, <1>7, <1>9
<1> QED BY <1>1, <1>2, <1>8, <1>10, <1>11

\* A header of --sdk lies in the folder of the module that has written it.
LEMMA PathOf ==
  ASSUME FInv, SdkInv, NEW path \in SdkPaths
  PROVE  \E i \in DOMAIN modules : /\ WrittenBy(path) = SdkOf(i) /\ path \in DOMAIN SdkOf(i).headers
                                  /\ path[1] = modules[i].name
<1>1. ASSUME NEW j, path \in DOMAIN SdkOf(j).headers PROVE path[1] = modules[j].name
    <2>1. path \in DOMAIN HeadersOf(modules, ClassLookup, modules[j], UsefulOf(modules[j]))
        BY <1>1, SdkHeadersAre
    <2>2. \E c \in UsefulOf(modules[j]) :
             path = <<modules[j].name, SubfolderOf(class_subfolder(modules, ClassLookup), c.name), c.name>>
        BY <2>1 DEF HeadersOf
    <2> QED BY <2>2
<1>2. PICK r \in sdk.modules : path \in DOMAIN r.headers
    BY DEF SdkPaths
<1>3. WrittenBy(path) \in sdk.modules /\ path \in DOMAIN WrittenBy(path).headers
    BY <1>2 DEF WrittenBy
<1>4. PICK i \in DOMAIN modules : WrittenBy(path) = SdkOf(i)
    BY <1>3 DEF SdkInv
<1> QED BY <1>1, <1>3, <1>4

\* The struct that a header of a module declares, and what it includes, are those
\* of its class.
LEMMA StructIs ==
  ASSUME FInv, ClassInv, NEW i \in DOMAIN modules, NEW path \in DOMAIN SdkOf(i).headers,
         path[1] = modules[i].name
  PROVE  LET c == ClassAt(path)
         IN  /\ SdkOf(i).structs[path] = generate_struct_header(all_enums(modules), ClassLookup, c)
             /\ SdkOf(i).headers[path]
                  = IF c.parent \in DOMAIN ClassLookup
                    THEN {compute_include_path(modules, class_subfolder(modules, ClassLookup), modules[i].name,
                                               c.name, c.parent)} ELSE {}
             /\ c \in ToSet(modules[i].classes) /\ c.name = path[3]
<1> DEFINE mod == modules[i]
           name == path[3]
           headers == HeadersOf(modules, ClassLookup, mod, UsefulOf(mod))
           d == CHOOSE c \in UsefulOf(mod) : c.name = name
           own == {At(modules, p) : p \in {q \in Slots(modules) : modules[q[1]].name = mod.name}}
           Includes(c) == IF c.parent \in DOMAIN ClassLookup
                          THEN {compute_include_path(modules, class_subfolder(modules, ClassLookup), mod.name,
                                                     c.name, c.parent)} ELSE {}
<1>1. /\ SdkOf(i).headers = headers
      /\ SdkOf(i).structs = [x \in DOMAIN headers |->
                               generate_struct_header(all_enums(modules), ClassLookup,
                                 CHOOSE c \in UsefulOf(mod) : c.name = x[3])]
    BY DEF SdkOf, process_sdk_module
<1>2. path \in DOMAIN headers /\ SdkOf(i).structs[path] = generate_struct_header(all_enums(modules), ClassLookup, d)
    <2> HIDE DEF headers
    <2> QED BY <1>1
<1>11. headers[path] = Includes(d)
    BY <1>2 DEF HeadersOf
<1>3. \E c \in UsefulOf(mod) : c.name = name
    BY <1>2 DEF HeadersOf
<1>4. d \in UsefulOf(mod) /\ d.name = name
    BY <1>3
<1>5. d \in ToSet(mod.classes)
    BY <1>4 DEF UsefulOf
<1>6. own = ToSet(mod.classes)
    <2>1. ASSUME NEW c \in own PROVE c \in ToSet(mod.classes)
        <3>1. PICK p \in Slots(modules) : modules[p[1]].name = mod.name /\ c = At(modules, p)
            OBVIOUS
        <3>2. p[1] \in DOMAIN modules /\ p[2] \in DOMAIN modules[p[1]].classes
            BY DEF Slots
        <3>3. p[1] = i
            BY <3>1, <3>2 DEF FInv, NamesDiffer
        <3> QED BY <3>1, <3>2, <3>3 DEF At, ToSet
    <2>2. ASSUME NEW c \in ToSet(mod.classes) PROVE c \in own
        <3>1. PICK j \in DOMAIN mod.classes : c = mod.classes[j]
            BY DEF ToSet
        <3>2. <<i, j>> \in Slots(modules) /\ At(modules, <<i, j>>) = c /\ modules[<<i, j>>[1]].name = mod.name
            BY <3>1 DEF Slots, At
        <3> QED BY <3>2
    <2> HIDE DEF own
    <2> QED BY <2>1, <2>2
<1>7. \A a, b \in ToSet(mod.classes) : a.name = b.name => a = b
    BY DEF ToSet, ClassInv, ClassRows, ClassRow
<1> HIDE DEF d, own, Includes
<1>8. \A c \in own : c.name = name => c = d
    BY <1>4, <1>5, <1>6, <1>7
<1>9. ClassAt(path) = CHOOSE c \in own : c.name = name
    BY DEF ClassAt, own
<1>10. ClassAt(path) = d
    BY <1>4, <1>5, <1>6, <1>8, <1>9
<1>12. SdkOf(i).headers[path] = Includes(d)
    BY <1>1, <1>11
<1> QED BY <1>2, <1>4, <1>5, <1>10, <1>12 DEF Includes

LEMMA LookupClasses ==
  ASSUME ClassInv, NEW n \in DOMAIN ClassLookup PROVE \E e \in ClassInfos : IsClass(ClassLookup[n], e)
<1> DEFINE p == global_class_lookup[n]
<1>1. n \in DOMAIN global_class_lookup /\ ClassLookup[n] = At(modules, p)
    BY DEF ClassLookup
<1>2. p[1] \in DOMAIN modules /\ p[2] \in DOMAIN modules[p[1]].classes
    BY <1>1 DEF ClassInv, Slots
<1>3. ClassRow(modules[p[1]].classes)
    BY <1>2 DEF ClassInv, ClassRows
<1> QED BY <1>1, <1>2, <1>3 DEF At, ClassRow

\* The struct in the header that is included has the size that the generator has
\* taken for the base.
LEMMA BaseIs ==
  ASSUME FInv, SdkInv, ClassInv, NEW path \in SdkPaths, BaseIsSure(path)
  PROVE  LET c == ClassAt(path)
         IN  IncludedSize(path) = IF c.parent \in DOMAIN ClassLookup THEN ClassLookup[c.parent].size ELSE 0
<1> DEFINE c == ClassAt(path)
<1>1. PICK i \in DOMAIN modules : WrittenBy(path) = SdkOf(i) /\ path \in DOMAIN SdkOf(i).headers
                                /\ path[1] = modules[i].name
    BY PathOf
<1> DEFINE inc == compute_include_path(modules, class_subfolder(modules, ClassLookup), modules[i].name, c.name, c.parent)
<1>2. IncludedBy(path) = IF c.parent \in DOMAIN ClassLookup THEN {inc} ELSE {}
    BY <1>1, StructIs DEF IncludedBy
<1>3. inc[3] = c.parent
    BY DEF compute_include_path
<1>4. /\ c.parent \in DOMAIN ClassLookup =>
           \A p \in Named(modules, c.parent) : At(modules, p).size = ClassLookup[c.parent].size
      /\ \A x \in IncludedBy(path) : Compiles(x)
    BY DEF BaseIsSure
<1> HIDE DEF inc, c
<1>5. CASE c.parent \in DOMAIN ClassLookup
    <2>1. IncludedBy(path) = {inc} /\ Compiles(inc)
        BY <1>2, <1>4, <1>5
    <2>2. inc \in SdkPaths
        <3>1. ReadFor(inc) \subseteq SdkPaths
            BY <2>1 DEF Compiles
        <3>2. inc \in ReadFor(inc)
            BY DEF ReadFor
        <3> QED BY <3>1, <3>2
    <2>3. PICK j \in DOMAIN modules : inc \in DOMAIN SdkOf(j).headers /\ inc[1] = modules[j].name
        BY <2>2, PathOf
    <2>4. ClassAt(inc) \in ToSet(modules[j].classes) /\ ClassAt(inc).name = c.parent
        BY <1>3, <2>3, StructIs
    <2>5. PICK k \in DOMAIN modules[j].classes : ClassAt(inc) = modules[j].classes[k]
        BY <2>4 DEF ToSet
    <2>6. <<j, k>> \in Named(modules, c.parent) /\ At(modules, <<j, k>>) = ClassAt(inc)
        BY <2>4, <2>5 DEF Named, Slots, At
    <2>7. ClassAt(inc).size = ClassLookup[c.parent].size
        BY <1>4, <1>5, <2>6
    <2>8. (CHOOSE x \in IncludedBy(path) : TRUE) = inc /\ IncludedBy(path) # {}
        BY <2>1
    <2>9. IncludedSize(path) = ClassAt(inc).size
        BY <2>8, Zenon DEF IncludedSize
    <2> QED BY <1>5, <2>7, <2>9 DEF c
<1>6. CASE c.parent \notin DOMAIN ClassLookup
    <2>1. IncludedBy(path) = {}
        BY <1>2, <1>6
    <2>2. IncludedSize(path) = 0
        BY <2>1 DEF IncludedSize
    <2> QED BY <1>6, <2>2 DEF c
<1> QED BY <1>5, <1>6

LEMMA AssertsImply == FInv /\ SdkInv /\ ClassInv => PlainAssertsHold
<1> SUFFICES ASSUME FInv, SdkInv, ClassInv, NEW path \in SdkPaths, BaseIsSure(path),
                    LET c == ClassAt(path)
                    IN  \A f \in ToSet(c.fields) : /\ f.kind # "bits"
                                                   /\ f.size = schema_to_cpp_type(all_enums(modules), f)
                                                   /\ f.size > 0 /\ f.offset + f.size <= c.size
             PROVE  AssertsOfHeader(path)
    BY DEF PlainAssertsHold
<1> DEFINE c == ClassAt(path)
           base == IF c.parent \in DOMAIN ClassLookup THEN ClassLookup[c.parent].size ELSE 0
           enums == all_enums(modules)
<1>1. PICK i \in DOMAIN modules : WrittenBy(path) = SdkOf(i) /\ path \in DOMAIN SdkOf(i).headers
                                /\ path[1] = modules[i].name
    BY PathOf
<1>2. SdkOf(i).structs[path] = generate_struct_header(enums, ClassLookup, c) /\ c \in ToSet(modules[i].classes)
    BY <1>1, StructIs
<1>9. IncludedSize(path) = base
    BY BaseIs
<1>10. c.parent \in DOMAIN ClassLookup => ClassLookup[c.parent].size <= c.size
    BY DEF BaseIsSure
<1> HIDE DEF c
<1>3. PICK e \in ClassInfos : IsClass(c, e)
    BY <1>2 DEF ToSet, ClassInv, ClassRows, ClassRow
<1>4. game \in Games
    BY DEF FInv, ExportInv
<1>5. /\ c.size \in Nat /\ IsRow(c.fields) /\ NamedOnce(c.fields)
      /\ \A k \in DOMAIN c.fields : c.fields[k].offset \in Nat /\ c.fields[k].size \in Nat
    BY <1>3, <1>4, ClassFields
<1>6. base \in Nat /\ base <= c.size
    <2>1. CASE c.parent \in DOMAIN ClassLookup
        <3>1. PICK x \in ClassInfos : IsClass(ClassLookup[c.parent], x)
            BY <2>1, LookupClasses
        <3>2. ClassLookup[c.parent].size \in Nat
            BY <1>4, <3>1, ClassFields
        <3> QED BY <1>10, <2>1, <3>2
    <2>2. CASE c.parent \notin DOMAIN ClassLookup
        BY <1>5, <2>2
    <2> QED BY <2>1, <2>2
<1>7. Plain(enums, c.fields, c.size)
    <2>1. ASSUME NEW k \in DOMAIN c.fields
          PROVE  /\ c.fields[k].offset \in Nat /\ c.fields[k].size \in Nat \ {0}
                 /\ c.fields[k].offset + c.fields[k].size <= c.size
                 /\ c.fields[k].kind # "bits" /\ schema_to_cpp_type(enums, c.fields[k]) = c.fields[k].size
        <3>1. c.fields[k] \in ToSet(c.fields)
            BY DEF ToSet
        <3> QED BY <1>5, <3>1 DEF c
    <2> QED BY <1>5, <2>1 DEF Plain
<1>8. AssertsOf(base, generate_struct_header(enums, ClassLookup, c), c)
    <2> HIDE DEF enums
    <2> QED BY <1>5, <1>6, <1>7, HeaderAsserts
<1> QED BY <1>1, <1>2, <1>8, <1>9 DEF AssertsOfHeader, c

(* The static_asserts that are written into a header of --sdk hold when its class
   has no bitfields and its fields lie inside it and are declared with the size
   the schema gives: whatever the gaps, and however many fields share a place.
   The struct stands on the one of the header that is included, which a lookup
   has chosen that is not the one of the size its members were laid out for; so
   the classes with the name of the parent must agree on their size, what is
   included must be written, and satisfy its own asserts.                      *)
THEOREM PlainAssertsStayTrue == Spec => []PlainAssertsHold
<1> QED BY ClassInductive, AssertsImply, PTL

-----------------------------------------------------------------------------
(* FLATTENED and the full layouts: the fields of the line of bases.             *)

\* The classes that collect has passed after each of n rounds.
StepsOfWalk(walk, local, global, class, n) ==
  walk = [k \in 0..n |-> IF k = 0 THEN CollectStart(class) ELSE CollectFrom(local, global, walk[k - 1])]

LEMMA CollectExists ==
  ASSUME NEW N \in Nat, N = 2 * Cardinality(DOMAIN m_cache) + 1, NEW local, NEW global, NEW class
  PROVE  \E walk : /\ StepsOfWalk(walk, local, global, class, N)
                   /\ collect(local, global, class) = InFieldOrder(walk[N].fields)
<1> DEFINE Opening == CollectStart(class)
           Step(x) == CollectFrom(local, global, x)
           Is(g, n) == g = [k \in 0..n |-> IF k = 0 THEN Opening ELSE Step(g[k - 1])]
           S == {n \in Nat : \E g : Is(g, n)}
           f == CHOOSE g : Is(g, N)
<1>1. N \in S
    <2> HIDE DEF Step, Opening
    <2>1. 0 \in S
        <3>1. Is([k \in 0..0 |-> Opening], 0)
            OBVIOUS
        <3> QED BY <3>1
    <2>2. ASSUME NEW n \in Nat, n \in S PROVE n + 1 \in S
        <3>1. PICK g : Is(g, n)
            BY <2>2
        <3> DEFINE h == [k \in 0..(n + 1) |-> IF k = n + 1 THEN Step(g[n]) ELSE g[k]]
        <3>2. Is(h, n + 1)
            BY <3>1
        <3> HIDE DEF h, Is
        <3> QED BY <3>2
    <2>3. Nat \subseteq S
        <3> HIDE DEF S
        <3> QED BY <2>1, <2>2, SetInduction
    <2> QED BY <2>3
<1>2. Is(f, N)
    BY <1>1
<1>3. collect(local, global, class) = InFieldOrder(f[N].fields)
    BY DEF collect
<1>4. StepsOfWalk(f, local, global, class, N)
    <2> HIDE DEF f
    <2> QED BY <1>2 DEF StepsOfWalk
<1>5. PICK g : g = f
    OBVIOUS
<1> HIDE DEF f
<1> QED BY <1>3, <1>4, <1>5

\* What is shown of the own fields of a class.
Shown(c) == {[field |-> f, defined_in |-> c.info] : f \in ToSet(c.fields)}

\* The classes of the line are in the module, each with its first base as parent.
Lined(local, decl, class) ==
  /\ class \in DOMAIN decl /\ FirstBases(decl) /\ NoName \notin DOMAIN decl
  /\ \A c \in LineOf(decl, class) :
       /\ c \in DOMAIN local /\ local[c].name = c /\ local[c].parent = ParentIn(decl, c)
       /\ IsRow(local[c].fields)
       /\ \A i \in DOMAIN local[c].fields : local[c].fields[i].offset \in Nat

\* The rounds so far have passed a beginning of the line, and no class twice.
Collected(w, local, decl, class, k) ==
  /\ w.visited \subseteq LineOf(decl, class)
  /\ w.at \in LineOf(decl, class) \cup {NoName}
  /\ class \in w.visited \cup {w.at}
  /\ \A d \in w.visited : ParentIn(decl, d) \in w.visited \cup {w.at}
  /\ w.fields \in Seq(ToSet(w.fields)) /\ ToSet(w.fields) = UNION {Shown(local[d]) : d \in w.visited}
  /\ IsFiniteSet(w.visited)
  /\ w.at \in w.visited \cup {NoName} \/ Cardinality(w.visited) = k

\* The next class of the line is passed, or the walk has ended.
LEMMA CollectsOne ==
  ASSUME NEW local, NEW global, NEW decl, NEW class, Lined(local, decl, class),
         NEW k \in Nat, NEW w, Collected(w, local, decl, class, k)
  PROVE  Collected(CollectFrom(local, global, w), local, decl, class, k + 1)
<1> DEFINE line == LineOf(decl, class)
           found == IF w.at \in w.visited \cup {NoName} THEN {} ELSE FindIn(local, global, w.at)
<1>1. CASE w.at \in w.visited \cup {NoName}
    <2>1. CollectFrom(local, global, w) = w
        BY <1>1 DEF CollectFrom
    <2> QED BY <1>1, <2>1 DEF Collected
<1>2. CASE w.at \notin w.visited \cup {NoName}
    <2> DEFINE at == w.at
               c == local[at]
               own == [i \in DOMAIN c.fields |-> [field |-> c.fields[i], defined_in |-> c.info]]
               new == [at |-> c.parent, visited |-> w.visited \cup {at, c.name}, fields |-> w.fields \o own]
    <2>1. at \in line /\ at \in DOMAIN local /\ c.name = at /\ c.parent = ParentIn(decl, at) /\ IsRow(c.fields)
        BY <1>2 DEF Collected, Lined
    <2>2. FindIn(local, global, at) = {c}
        BY <2>1 DEF FindIn
    <2>3. found = {c} /\ found # {} /\ (CHOOSE x \in found : TRUE) = c
        BY <1>2, <2>2
    <2>4. CollectFrom(local, global, w) = new
        <3>1. CollectFrom(local, global, w)
               = LET cls == CHOOSE x \in found : TRUE
                 IN  IF found = {} THEN w
                     ELSE [at      |-> cls.parent,
                           visited |-> w.visited \cup {w.at, cls.name},
                           fields  |-> w.fields \o [i \in DOMAIN cls.fields |->
                                         [field |-> cls.fields[i], defined_in |-> cls.info]]]
            BY DEF CollectFrom
        <3> HIDE DEF found, c
        <3> QED BY <2>3, <3>1
    <2>5. own \in Seq(ToSet(own)) /\ ToSet(own) = Shown(c)
        <3> HIDE DEF c
        <3>1. Len(c.fields) \in Nat /\ DOMAIN c.fields = 1..Len(c.fields) /\ DOMAIN own = DOMAIN c.fields
            BY <2>1 DEF IsRow
        <3>2. own \in Seq(ToSet(own))
            <4>1. \A i \in DOMAIN own : own[i] \in ToSet(own)
                BY DEF ToSet
            <4>2. own = [i \in 1..Len(c.fields) |-> own[i]]
                BY <3>1
            <4> HIDE DEF own
            <4> QED BY <3>1, <4>1, <4>2
        <3>3. ASSUME NEW x PROVE x \in ToSet(own) <=> x \in Shown(c)
            BY <3>1 DEF ToSet, Shown
        <3> QED BY <3>2, <3>3
    <2>6. new.at = ParentIn(decl, at) /\ new.visited = w.visited \cup {at} /\ new.fields = w.fields \o own
        BY <2>1
    <2>7. new.fields \in Seq(ToSet(new.fields)) /\ ToSet(new.fields) = ToSet(w.fields) \cup Shown(c)
        <3>1. w.fields \in Seq(ToSet(w.fields))
            BY DEF Collected
        <3>2. PICK a, b, x : a = w.fields /\ b = own /\ x = new.fields
            OBVIOUS
        <3>3. x = a \o b /\ a \in Seq(ToSet(a)) /\ b \in Seq(ToSet(b)) /\ ToSet(b) = Shown(c)
            BY <2>5, <2>6, <3>1, <3>2
        <3>4. x \in Seq(ToSet(x)) /\ ToSet(x) = ToSet(a) \cup ToSet(b)
            BY <3>3, RowsConcatenate, Zenon
        <3> HIDE DEF own, new, c
        <3> QED BY <3>2, <3>3, <3>4
    <2> HIDE DEF new, own, c
    <2>8. ToSet(new.fields) = UNION {Shown(local[d]) : d \in new.visited}
        <3>1. ToSet(w.fields) = UNION {Shown(local[d]) : d \in w.visited}
            BY DEF Collected
        <3> QED BY <2>6, <2>7, <3>1 DEF c
    <2>9. ParentIn(decl, at) \in line \cup {NoName}
        <3>1. \A x \in line : decl[x].bases # << >> => decl[x].bases[1] \in line
            BY LineHas DEF Lined
        <3> QED BY <2>1, <3>1 DEF ParentIn
    <2>10. IsFiniteSet(new.visited) /\ Cardinality(new.visited) = k + 1
        <3>1. IsFiniteSet(w.visited) /\ Cardinality(w.visited) = k /\ at \notin w.visited
            BY <1>2 DEF Collected
        <3>2. IsFiniteSet(w.visited \cup {at}) /\ Cardinality(w.visited \cup {at}) = Cardinality(w.visited) + 1
            BY <3>1, FS_AddElement
        <3> QED BY <2>6, <3>1, <3>2
    <2> QED BY <2>1, <2>4, <2>6, <2>7, <2>8, <2>9, <2>10 DEF Collected
<1> QED BY <1>1, <1>2

\* collect shows the fields of the line, in the order of their offsets.
LEMMA CollectIs ==
  ASSUME NEW local, NEW global, NEW decl, NEW class, Lined(local, decl, class),
         IsFiniteSet(DOMAIN m_cache), IsFiniteSet(LineOf(decl, class)),
         Cardinality(LineOf(decl, class)) <= Cardinality(DOMAIN m_cache),
         NEW shown, shown = collect(local, global, class)
  PROVE  /\ ToSet(shown) = UNION {Shown(local[c]) : c \in LineOf(decl, class)}
         /\ \A i, j \in DOMAIN shown : i < j => shown[i].field.offset <= shown[j].field.offset
<1> DEFINE line == LineOf(decl, class)
           size == Cardinality(DOMAIN m_cache)
           N == 2 * size + 1
<1>1. size \in Nat /\ Cardinality(line) \in Nat /\ Cardinality(line) <= size
    BY FS_CardinalityType
<1>2. N \in Nat /\ N > size
    BY <1>1
<1>3. PICK walk : StepsOfWalk(walk, local, global, class, N) /\ shown = InFieldOrder(walk[N].fields)
    BY <1>2, CollectExists
<1>4. class \in line /\ line \subseteq DOMAIN decl
    BY LineHas DEF Lined
<1> DEFINE S == {k \in 0..N : Collected(walk[k], local, decl, class, k)}
<1> HIDE DEF N
<1>5. 0 \in S
    <2>1. walk[0] = CollectStart(class) /\ 0 \in 0..N
        BY <1>2, <1>3 DEF StepsOfWalk
    <2>2. /\ walk[0].at = class /\ walk[0].visited = {} /\ walk[0].fields = << >>
        BY <2>1 DEF CollectStart
    <2>3. ToSet(<< >>) = {} /\ << >> \in Seq({})
        BY DEF ToSet
    <2>4. IsFiniteSet({}) /\ Cardinality({}) = 0
        BY FS_EmptySet
    <2>5. Collected(walk[0], local, decl, class, 0)
        BY <1>4, <2>2, <2>3, <2>4 DEF Collected
    <2> QED BY <2>1, <2>5
<1>6. ASSUME NEW k \in 0..(N - 1), k \in S PROVE k + 1 \in S
    <2>1. k + 1 \in 0..N /\ walk[k + 1] = CollectFrom(local, global, walk[k]) /\ k \in Nat
        BY <1>2, <1>3 DEF StepsOfWalk
    <2> QED BY <1>6, <2>1, CollectsOne
<1>7. Collected(walk[N], local, decl, class, N)
    <2>1. 0..N \subseteq S
        <3> HIDE DEF S
        <3> QED BY <1>2, <1>5, <1>6, StepInduction
    <2> QED BY <1>2, <2>1
<1>8. PICK w : w = walk[N]
    OBVIOUS
<1>9. w.at \in w.visited \cup {NoName}
    <2>1. Cardinality(w.visited) <= Cardinality(line)
        BY <1>7, <1>8, FS_Subset DEF Collected
    <2>2. Cardinality(w.visited) # N
        BY <1>1, <1>2, <2>1
    <2> QED BY <1>7, <1>8, <2>2 DEF Collected
<1>10. w.visited = line
    <2>1. w.visited \in SUBSET DOMAIN decl /\ class \in w.visited
        BY <1>4, <1>7, <1>8, <1>9 DEF Collected, Lined
    <2>2. ASSUME NEW d \in w.visited, decl[d].bases # << >> PROVE decl[d].bases[1] \in w.visited
        <3>1. decl[d].bases[1] \in w.visited \cup {NoName}
            BY <1>7, <1>8, <1>9, <2>2 DEF Collected, ParentIn
        <3>2. decl[d].bases[1] # NoName
            BY <2>1, <2>2 DEF Lined, FirstBases
        <3> QED BY <3>1, <3>2
    <2>3. line \subseteq w.visited
        BY <2>1, <2>2, LineLeast
    <2> QED BY <1>7, <1>8, <2>3 DEF Collected
<1>11. IsRow(w.fields) /\ ToSet(w.fields) = UNION {Shown(local[c]) : c \in line}
    <2>1. w.fields \in Seq(ToSet(w.fields)) /\ ToSet(w.fields) = UNION {Shown(local[c]) : c \in line}
        BY <1>7, <1>8, <1>10 DEF Collected
    <2>2. \A A : \A s \in Seq(A) : IsRow(s)
        BY DEF IsRow
    <2> QED BY <2>1, <2>2, Zenon
<1> DEFINE key == [i \in DOMAIN w.fields |-> w.fields[i].field.offset]
<1>12. key \in [DOMAIN w.fields -> Nat]
    <2>1. ASSUME NEW i \in DOMAIN w.fields PROVE w.fields[i].field.offset \in Nat
        <3>1. PICK c \in line : w.fields[i] \in Shown(local[c])
            BY <1>11 DEF ToSet
        <3>2. PICK f \in ToSet(local[c].fields) : w.fields[i].field = f
            BY <3>1 DEF Shown
        <3> QED BY <3>2 DEF ToSet, Lined
    <2> QED BY <2>1
<1>13. shown = SortedBy(w.fields, key)
    BY <1>3, <1>8 DEF InFieldOrder
<1> HIDE DEF key
<1>14. /\ DOMAIN shown = DOMAIN w.fields /\ IsRow(shown) /\ ToSet(shown) = ToSet(w.fields)
       /\ \E p : /\ \A i \in DOMAIN w.fields : p[i] \in DOMAIN w.fields /\ shown[i] = w.fields[p[i]]
                 /\ \A i, j \in DOMAIN w.fields : i < j => key[p[i]] <= key[p[j]]
    <2>1. PICK s, k, sorted : s = w.fields /\ k = key /\ sorted = shown
        OBVIOUS
    <2>2. IsRow(s) /\ k \in [DOMAIN s -> Nat] /\ sorted = SortedBy(s, k)
        BY <1>11, <1>12, <1>13, <2>1
    <2>3. /\ DOMAIN sorted = DOMAIN s /\ IsRow(sorted) /\ ToSet(sorted) = ToSet(s)
          /\ \E p : /\ \A i \in DOMAIN s : p[i] \in DOMAIN s /\ sorted[i] = s[p[i]]
                    /\ \A i, j \in DOMAIN s : i < j => k[p[i]] <= k[p[j]]
        BY <2>2, SortedKeeps
    <2> QED BY <2>1, <2>3
<1>15. ASSUME NEW i \in DOMAIN shown, NEW j \in DOMAIN shown, i < j
       PROVE  shown[i].field.offset <= shown[j].field.offset
    <2>1. PICK p : /\ \A k \in DOMAIN w.fields : p[k] \in DOMAIN w.fields /\ shown[k] = w.fields[p[k]]
                   /\ \A k, l \in DOMAIN w.fields : k < l => key[p[k]] <= key[p[l]]
        BY <1>14
    <2>2. key[p[i]] <= key[p[j]] /\ p[i] \in DOMAIN w.fields /\ p[j] \in DOMAIN w.fields
        BY <1>14, <1>15, <2>1
    <2>3. key[p[i]] = shown[i].field.offset /\ key[p[j]] = shown[j].field.offset
        BY <1>14, <2>1, <2>2 DEF key
    <2> QED BY <2>2, <2>3
<1> QED BY <1>11, <1>14, <1>15

\* The file and the modules show what is cached, and what has been flattened so
\* far is what was declared.
FlatInv ==
  /\ LineInv
  /\ AllCached(modules)
  /\ FlattenedIsDeclared
  /\ step = "parse" => flattened = << >>
  /\ step \in {"parse", "lookup"} => emitted = 0
  /\ step \in {"lookup", "modules"} => emitted + 1 \in DOMAIN modules

LEMMA FlatInvInit == Init => FlatInv
<1> SUFFICES ASSUME Init PROVE FlatInv
    OBVIOUS
<1>1. LineInv
    BY LineInvInit DEF Init
<1>2. modules = << >> /\ flattened = << >> /\ emitted = 0 /\ step = "parse" /\ DOMAIN << >> = {}
    BY DEF Init, ExeInit
<1> QED BY <1>1, <1>2 DEF FlatInv, AllCached, FlattenedIsDeclared

\* What is said of the classes of a module does not depend on their order.
LEMMA CachedInAnyOrder ==
  ASSUME NEW m, NEW a, NEW b, ToSet(a) = ToSet(b), IsCached(m, a) PROVE IsCached(m, b)
<1>1. \A s : \A x : x \in ToSet(s) <=> \E j \in DOMAIN s : s[j] = x
    BY DEF ToSet
<1>2. ASSUME NEW j \in DOMAIN b PROVE RowShows(m, b[j])
    <2>1. PICK l \in DOMAIN a : a[l] = b[j]
        BY <1>1
    <2> QED BY <2>1 DEF IsCached
<1>3. ASSUME NEW k \in DOMAIN m_cache, k[1] = m PROVE \E j \in DOMAIN b : b[j].name = k[2]
    <2>1. PICK l \in DOMAIN a : a[l].name = k[2]
        BY <1>3 DEF IsCached
    <2>2. PICK j \in DOMAIN b : b[j] = a[l]
        BY <1>1
    <2> QED BY <2>1, <2>2
<1> QED BY <1>2, <1>3 DEF IsCached

\* A step that leaves the cache and what is flattened.
LEMMA FlatFrame ==
  ASSUME FlatInv, UNCHANGED dumpVars
  PROVE  /\ LineInv' /\ \A mods : AllCached(mods)' = AllCached(mods)
         /\ \A k : HasLine(k)' = HasLine(k) /\ \A e : DeclaredIn(e)' = DeclaredIn(e)
         /\ flattened' = flattened => FlattenedIsDeclared'
<1>1. UNCHANGED <<game, m_cache, m_dumped_modules, m_rtti_map, export, phase>>
    BY DEF dumpVars, schemaVars, workerVars
<1>2. \A m : Loaded(m)' = Loaded(m)
    BY <1>1 DEF Loaded
<1>3. \A m, c : RowShows(m, c)' = RowShows(m, c)
    BY <1>1 DEF RowShows
<1>4. \A m, classes : IsCached(m, classes)' = IsCached(m, classes)
    BY <1>1, <1>3 DEF IsCached
<1>5. \A mods : AllCached(mods)' = AllCached(mods)
    BY <1>4 DEF AllCached
<1>6. LineInv'
    BY <1>1, LineFrame DEF FlatInv
<1>7. (\A k : HasLine(k)' = HasLine(k)) /\ \A e : DeclaredIn(e)' = DeclaredIn(e)
    BY <1>1, <1>2 DEF HasLine, DeclaredIn
<1>8. ASSUME flattened' = flattened PROVE FlattenedIsDeclared'
    BY <1>1, <1>2, <1>7, <1>8 DEF FlatInv, FlattenedIsDeclared
<1> QED BY <1>5, <1>6, <1>7, <1>8

\* The line of a class that is cached under its module has no more classes than
\* the cache.
LEMMA LineIsFinite ==
  ASSUME game \in Games, Taken(m_cache), NEW k, HasLine(k)
  PROVE  LET line == LineOf(Loaded(k[1]).decl, k[2])
         IN  IsFiniteSet(line) /\ Cardinality(line) <= Cardinality(DOMAIN m_cache)
<1> DEFINE line == LineOf(Loaded(k[1]).decl, k[2])
           f == [c \in line |-> <<k[1], c>>]
<1>1. \A c \in line : <<k[1], c>> \in DOMAIN m_cache
    BY DEF HasLine
<1>2. IsFiniteSet(DOMAIN m_cache)
    BY CacheIsFinite
<1> HIDE DEF line
<1>3. f \in [line -> DOMAIN m_cache] /\ \A a, b \in line : f[a] = f[b] => a = b
    BY <1>1
<1> HIDE DEF f
<1>4. f \in Injection(line, DOMAIN m_cache)
    BY <1>3 DEF Injection, IsInjective
<1>5. IsFiniteSet(line) /\ Cardinality(line) <= Cardinality(DOMAIN m_cache)
    BY <1>2, <1>4, FS_Injection
<1> QED BY <1>5 DEF line

\* The lookup of the classes of a module by name.
LookupOf(classes) == [n \in {c.name : c \in ToSet(classes)} |-> CHOOSE c \in ToSet(classes) : c.name = n]

\* In the lookup of a module the classes of a line stand with their first bases.
LEMMA LocalLine ==
  ASSUME ExportInv, CachedInv, LineInv, phase = "done",
         NEW m, NEW classes, ClassRow(classes), IsCached(m, classes),
         NEW n, HasLine(<<m, n>>)
  PROVE  /\ Lined(LookupOf(classes), Loaded(m).decl, n)
         /\ \A c \in LineOf(Loaded(m).decl, n) : Shown(LookupOf(classes)[c]) = DeclaredIn(m_cache[<<m, c>>].info)
<1> DEFINE decl == Loaded(m).decl
           line == LineOf(decl, n)
           local == LookupOf(classes)
<1>0. /\ game \in Games /\ Taken(m_cache) /\ <<m, n>>[1] = m /\ <<m, n>>[2] = n
    BY DEF ExportInv, CachedInv
<1>1. n \in DOMAIN decl /\ \A c \in line : <<m, c>> \in DOMAIN m_cache /\ ReadableBases(decl, c)
    BY <1>0 DEF HasLine
<1>2. \A a, b \in ToSet(classes) : a.name = b.name => a = b
    BY DEF ClassRow, ToSet
<1>3. \A c \in ToSet(classes) : c.name \in DOMAIN local /\ local[c.name] = c
    <2> TAKE c \in ToSet(classes)
    <2>1. c.name \in DOMAIN local /\ local[c.name] = CHOOSE x \in ToSet(classes) : x.name = c.name
        BY DEF LookupOf
    <2> QED BY <1>2, <2>1
<1> HIDE DEF local
<1>4. ASSUME NEW c \in line
      PROVE  \E j \in DOMAIN classes : c \in DOMAIN local /\ local[c] = classes[j] /\ classes[j].name = c
    <2>1. <<m, c>> \in DOMAIN m_cache /\ <<m, c>>[1] = m /\ <<m, c>>[2] = c
        BY <1>1
    <2>2. PICK j \in DOMAIN classes : classes[j].name = <<m, c>>[2]
        BY <2>1 DEF IsCached
    <2>3. classes[j] \in ToSet(classes) /\ classes[j].name = c
        BY <2>1, <2>2 DEF ToSet
    <2> QED BY <1>3, <2>3
<1> DEFINE e(c) == m_cache[<<m, c>>].info
<1>5. m \in LoadedNames
    <2>1. <<m, n>> \in DOMAIN m_cache
        <3>1. n \in line
            BY <1>1 DEF LineOf
        <3> QED BY <1>1, <3>1
    <2> QED BY <1>0, <2>1 DEF Taken
<1>6. FirstBases(decl) /\ NoName \notin DOMAIN decl
    BY <1>0, <1>5, DeclIs
<1>7. n \in line /\ line \subseteq DOMAIN decl
    BY <1>1, <1>6, LineHas
<1>8. Recovered(m_rtti_map, m)
    <2>1. <<m, n>> \in DOMAIN m_cache
        BY <1>1, <1>7
    <2>2. m \in ToSet(m_dumped_modules)
        BY <1>0, <2>1 DEF LineInv
    <2> QED BY <2>2 DEF LineInv
<1> HIDE DEF line, decl
<1>9. ASSUME NEW c \in line
      PROVE  /\ c \in DOMAIN local /\ local[c].name = c /\ local[c].parent = ParentIn(decl, c)
             /\ IsRow(local[c].fields)
             /\ \A i \in DOMAIN local[c].fields : local[c].fields[i].offset \in Nat
             /\ Shown(local[c]) = DeclaredIn(e(c))
    <2>1. PICK j \in DOMAIN classes : c \in DOMAIN local /\ local[c] = classes[j] /\ classes[j].name = c
        BY <1>4
    <2>2. PICK x : x = classes[j]
        OBVIOUS
    <2>3. /\ RowShows(m, x) /\ x.name = c /\ local[c] = x
        BY <2>1, <2>2 DEF IsCached
    <2>4. x.info = e(c) /\ x.fields = m_cache[<<m, c>>].fields
        BY <2>3 DEF RowShows
    <2>5. x.parent = ParentIn(decl, c)
        <3>1. <<m, c>> \in DOMAIN m_rtti_map /\ m_rtti_map[<<m, c>>].parent = ParentIn(decl, c)
            BY <1>1, <1>7, <1>8 DEF Recovered, decl
        <3> QED BY <2>3, <3>1 DEF RowShows
    <2>6. PICK i \in ClassInfos : IsClass(x, i)
        BY <2>1, <2>2 DEF ClassRow
    <2>7. IsRow(x.fields) /\ \A f \in DOMAIN x.fields : x.fields[f].offset \in Nat
        BY <1>0, <2>6, ClassFields
    <2>8. Shown(x) = DeclaredIn(e(c))
        BY <2>4, <2>6 DEF Shown, DeclaredIn, IsClass
    <2> QED BY <2>1, <2>3, <2>5, <2>7, <2>8
<1>10. Lined(local, decl, n)
    BY <1>1, <1>6, <1>9 DEF Lined, line
<1> QED BY <1>9, <1>10 DEF decl, line, local

\* What FlattenedIsDeclared says of one class.
FlatRight(k, shown) ==
  HasLine(k) =>
    /\ ToSet(shown) = UNION {DeclaredIn(m_cache[<<k[1], c>>].info) : c \in LineOf(Loaded(k[1]).decl, k[2])}
    /\ \A i, j \in DOMAIN shown : i < j => shown[i].field.offset <= shown[j].field.offset

LEMMA FlattenedOne ==
  ASSUME ExportInv, CachedInv, LineInv, phase = "done",
         NEW m, NEW classes, ClassRow(classes), IsCached(m, classes),
         NEW global, NEW n
  PROVE  FlatRight(<<m, n>>, collect(LookupOf(classes), global, n))
<1> SUFFICES ASSUME HasLine(<<m, n>>) PROVE FlatRight(<<m, n>>, collect(LookupOf(classes), global, n))
    BY DEF FlatRight
<1> DEFINE local == LookupOf(classes)
<1> HIDE DEF local
<1>1. /\ Lined(local, Loaded(m).decl, n)
      /\ \A c \in LineOf(Loaded(m).decl, n) : Shown(local[c]) = DeclaredIn(m_cache[<<m, c>>].info)
    BY LocalLine DEF local
<1>2. PICK line : line = LineOf(Loaded(m).decl, n)
    OBVIOUS
<1>3. IsFiniteSet(DOMAIN m_cache)
    BY CacheIsFinite DEF ExportInv, CachedInv
<1>4. IsFiniteSet(line) /\ Cardinality(line) <= Cardinality(DOMAIN m_cache)
    <2>1. PICK k : k = <<m, n>> /\ k[1] = m /\ k[2] = n
        OBVIOUS
    <2>2. HasLine(k) /\ game \in Games /\ Taken(m_cache)
        BY <2>1 DEF ExportInv, CachedInv
    <2>3. /\ IsFiniteSet(LineOf(Loaded(k[1]).decl, k[2]))
          /\ Cardinality(LineOf(Loaded(k[1]).decl, k[2])) <= Cardinality(DOMAIN m_cache)
        BY <2>2, LineIsFinite
    <2> QED BY <1>2, <2>1, <2>3
<1>5. PICK decl, shown : decl = Loaded(m).decl /\ shown = collect(local, global, n)
    OBVIOUS
<1>6. /\ Lined(local, decl, n) /\ line = LineOf(decl, n)
      /\ \A c \in line : Shown(local[c]) = DeclaredIn(m_cache[<<m, c>>].info)
    BY <1>1, <1>2, <1>5
<1>7. /\ ToSet(shown) = UNION {Shown(local[c]) : c \in line}
      /\ \A i, j \in DOMAIN shown : i < j => shown[i].field.offset <= shown[j].field.offset
    BY <1>3, <1>4, <1>5, <1>6, CollectIs
<1>8. ToSet(shown) = UNION {DeclaredIn(m_cache[<<m, c>>].info) : c \in line}
    BY <1>6, <1>7
<1>9. <<m, n>>[1] = m /\ <<m, n>>[2] = n
    OBVIOUS
<1>10. FlatRight(<<m, n>>, shown)
    BY <1>2, <1>7, <1>8, <1>9 DEF FlatRight
<1> QED BY <1>5, <1>10 DEF local

\* One round of the output loop.
LEMMA EmitKeepsFlat ==
  ASSUME IInv, FInv, ClassInv, FlatInv, UNCHANGED dumpVars, EmitModule PROVE FlatInv'
<1> DEFINE i == emitted + 1
           m == modules[i].name
           old == modules[i].classes
           sorted == SortedBy(old, [k \in DOMAIN old |-> RankOf(old[k].name)])
           mods == [modules EXCEPT ![i].classes = sorted]
           local == [n \in {c.name : c \in ToSet(sorted)} |-> CHOOSE c \in ToSet(sorted) : c.name = n]
           names == {x \in DOMAIN local : IsFlattened(local[x])}
           global == [n \in DOMAIN global_class_lookup |-> At(mods, global_class_lookup[n])]
<1>1. /\ step = "modules" /\ emitted' = i
      /\ step' = IF i = Len(modules) THEN "layouts" ELSE "modules"
      /\ \/ modules' = modules /\ flattened' = flattened
         \/ /\ modules' = mods
            /\ flattened' = [k \in DOMAIN flattened \cup {<<m, n>> : n \in names} |->
                               IF k \in DOMAIN flattened THEN flattened[k] ELSE collect(local, global, k[2])]
    BY DEF EmitModule
<1>2. /\ i \in DOMAIN modules /\ phase = "done" /\ game \in Games
      /\ ExportInv /\ CachedInv /\ LineInv
    BY <1>1 DEF FlatInv, IInv, Order, FInv, ClassInv, ExportInv
<1>3. /\ LineInv' /\ \A x : AllCached(x)' = AllCached(x)
      /\ \A k : HasLine(k)' = HasLine(k) /\ \A e : DeclaredIn(e)' = DeclaredIn(e)
    BY FlatFrame
<1>4. i \in Nat /\ (i # Len(modules) => i + 1 \in DOMAIN modules)
    <2>1. PICK n \in Nat : DOMAIN modules = 1..n
        BY DEF FInv, ModulesInv
    <2>2. modules = [x \in 1..n |-> [name    |-> modules[x].name,
                                     classes |-> modules[x].classes,
                                     enums   |-> modules[x].enums]]
        BY <2>1 DEF FInv, ModulesInv
    <2>3. Len(modules) = n
        BY <2>2
    <2> HIDE DEF i
    <2> QED BY <1>2, <2>1, <2>3
<1>5. DOMAIN modules' = DOMAIN modules
    <2> HIDE DEF i, sorted
    <2> QED BY <1>1
<1>6. /\ step' \notin {"parse", "lookup"} /\ (step' = "modules" => emitted' + 1 \in DOMAIN modules')
    <2> HIDE DEF i
    <2> QED BY <1>1, <1>4, <1>5
<1>7. ClassRow(old) /\ IsCached(m, old)
    BY <1>2 DEF ClassInv, ClassRows, FlatInv, AllCached
<1>8. ClassRow(sorted) /\ IsCached(m, sorted)
    <2> DEFINE key == [k \in DOMAIN old |-> RankOf(old[k].name)]
    <2>1. key \in [DOMAIN old -> Nat] /\ sorted = SortedBy(old, key)
        <3> HIDE DEF old
        <3> QED BY <1>2, <1>7, RanksAre
    <2>2. IsRow(old)
        BY <1>7 DEF ClassRow
    <2> HIDE DEF old, key, sorted, m
    <2>3. ClassRow(SortedBy(old, key))
        BY <1>7, <2>1, SortedRow
    <2>4. ToSet(sorted) = ToSet(old)
        BY <2>1, <2>2, SortedKeeps
    <2> QED BY <1>7, <2>1, <2>3, <2>4, CachedInAnyOrder
<1>9. AllCached(modules')
    <2> HIDE DEF sorted, i
    <2>1. /\ DOMAIN mods = DOMAIN modules
          /\ \A j \in DOMAIN modules : /\ mods[j].name = modules[j].name
                                       /\ mods[j].classes = IF j = i THEN sorted ELSE modules[j].classes
        <3>1. modules = [j \in DOMAIN modules |-> [name    |-> modules[j].name,
                                                   classes |-> modules[j].classes,
                                                   enums   |-> modules[j].enums]]
            BY DEF FInv, ModulesInv
        <3> QED BY <3>1
    <2> HIDE DEF mods
    <2>2. AllCached(mods)
        BY <1>8, <2>1 DEF AllCached, FlatInv
    <2> QED BY <1>1, <2>2 DEF FlatInv
<1>10. ASSUME NEW k \in DOMAIN flattened' PROVE FlatRight(k, flattened'[k])
    <2>1. ASSUME NEW x \in DOMAIN flattened PROVE FlatRight(x, flattened[x])
        BY DEF FlatInv, FlattenedIsDeclared, FlatRight
    <2>2. CASE flattened' = flattened
        BY <2>1, <2>2
    <2>3. CASE flattened' = [x \in DOMAIN flattened \cup {<<m, n>> : n \in names} |->
                               IF x \in DOMAIN flattened THEN flattened[x] ELSE collect(local, global, x[2])]
        <3>1. CASE k \in DOMAIN flattened
            <4> HIDE DEF local, global, m, names
            <4> QED BY <2>1, <2>3, <3>1
        <3>2. CASE k \notin DOMAIN flattened
            <4>1. PICK n \in names : k = <<m, n>>
                <5> HIDE DEF local, global, m, names
                <5> QED BY <2>3, <3>2
            <4>2. flattened'[k] = collect(local, global, n)
                <5> HIDE DEF local, global, m, names
                <5> QED BY <2>3, <3>2, <4>1
            <4>3. PICK l, g : l = local /\ g = global
                OBVIOUS
            <4> HIDE DEF m, sorted, global, names
            <4>4. l = LookupOf(sorted)
                BY <4>3 DEF LookupOf
            <4> HIDE DEF local
            <4>5. FlatRight(<<m, n>>, collect(l, g, n))
                BY <1>2, <1>8, <4>4, FlattenedOne
            <4> QED BY <4>1, <4>2, <4>3, <4>5
        <3> QED BY <3>1, <3>2
    <2> QED BY <1>1, <2>2, <2>3
<1>11. FlattenedIsDeclared'
    <2>1. UNCHANGED <<game, m_cache>> /\ \A x : Loaded(x)' = Loaded(x)
        BY DEF dumpVars, schemaVars, Loaded
    <2> QED BY <1>3, <1>10, <2>1 DEF FlattenedIsDeclared, FlatRight
<1> QED BY <1>3, <1>6, <1>9, <1>11 DEF FlatInv

LEMMA NextKeepsFlat ==
  IInv /\ FInv /\ ClassInv /\ FlatInv /\ [Next]_<<dumpVars, exeVars, genVars>> => FlatInv'
<1> SUFFICES ASSUME IInv, FInv, ClassInv, FlatInv, [Next]_<<dumpVars, exeVars, genVars>> PROVE FlatInv'
    OBVIOUS
<1>1. CASE DumpNext /\ UNCHANGED <<exeVars, genVars>>
    <2>1. phase # "done"
        BY <1>1 DEF DumpNext, PhaseSchema, PhaseRtti, PhaseGlobals, PhasePatterns, PhaseReferences, WriteExport, ResolveRtti
    <2>2. step = "parse" /\ modules = << >> /\ flattened = << >> /\ UNCHANGED <<step, modules, flattened, emitted>>
        BY <1>1, <2>1 DEF IInv, Order, FInv, ModulesInv, FlatInv, exeVars
    <2>3. LineInv'
        BY <1>1, LineInvStep DEF FInv, ClassInv, FlatInv
    <2>4. DOMAIN << >> = {}
        OBVIOUS
    <2>5. AllCached(modules)' /\ FlattenedIsDeclared'
        BY <2>2, <2>4 DEF AllCached, FlattenedIsDeclared
    <2> QED BY <2>2, <2>3, <2>5 DEF FlatInv
<1>2. CASE ExeNext /\ UNCHANGED <<dumpVars, genVars>>
    <2>0. /\ LineInv' /\ \A mods : AllCached(mods)' = AllCached(mods)
          /\ flattened' = flattened => FlattenedIsDeclared'
        BY <1>2, FlatFrame
    <2>1. CASE ParseExport
        <3>1. /\ step = "parse" /\ modules = << >> /\ UNCHANGED <<emitted, flattened>>
              /\ \/ step' = "done" /\ modules' = modules
                 \/ /\ step' = "lookup" /\ export # << >>
                    /\ modules' = [i \in DOMAIN export.modules |->
                                     [name    |-> export.modules[i].name,
                                      classes |-> export.modules[i].classes,
                                      enums   |-> export.modules[i].enums]]
            BY <2>1 DEF ParseExport, FInv, ModulesInv
        <3>2. AllCached(modules') /\ (step' = "lookup" => 1 \in DOMAIN modules')
            <4>1. CASE modules' = modules /\ step' = "done"
                BY <4>1 DEF FlatInv
            <4>2. CASE /\ export # << >>
                       /\ modules' = [i \in DOMAIN export.modules |->
                                        [name    |-> export.modules[i].name,
                                         classes |-> export.modules[i].classes,
                                         enums   |-> export.modules[i].enums]]
                BY <4>2 DEF FlatInv, LineInv, AllCached
            <4> QED BY <3>1, <4>1, <4>2
        <3>3. emitted' = 0
            BY <3>1 DEF FlatInv
        <3> QED BY <2>0, <3>1, <3>2, <3>3 DEF FlatInv
    <2>2. CASE EmitModule
        BY <1>2, <2>2, EmitKeepsFlat
    <2>3. CASE BuildLookup
        BY <2>0, <2>3 DEF BuildLookup, FlatInv
    <2>4. CASE WriteTrees
        BY <2>0, <2>4 DEF WriteTrees, FlatInv
    <2> QED BY <1>2, <2>1, <2>2, <2>3, <2>4 DEF ExeNext
<1>3. CASE (GenNext \/ UNCHANGED <<exeVars, genVars>>) /\ UNCHANGED dumpVars
    <2>1. UNCHANGED <<modules, flattened, emitted>> /\ (step' = step \/ step' \notin {"parse", "lookup", "modules"})
        <3>1. ASSUME NEW job \in ToSet(Jobs), Skip(job)
              PROVE  UNCHANGED <<modules, flattened, emitted>> /\ step' \notin {"parse", "lookup", "modules"}
            BY <3>1, JobSteps, StepAfter DEF Skip
        <3>2. ASSUME NEW job \in ToSet(Jobs), Start(job) PROVE UNCHANGED <<modules, flattened, emitted, step>>
            BY <3>2 DEF Start, exeVars
        <3>3. ASSUME NEW t \in 1..HwThreads, Take(t) \/ Store(t) PROVE UNCHANGED <<modules, flattened, emitted, step>>
            BY <3>3 DEF Take, Store, exeVars
        <3>4. ASSUME Join
              PROVE  UNCHANGED <<modules, flattened, emitted>> /\ step' \notin {"parse", "lookup", "modules"}
            <4>1. step \in ToSet(Jobs) /\ step' = NextStep[step]
                BY <3>4 DEF Join, IInv, PoolBooks
            <4>2. step' \notin {"parse", "lookup", "modules"}
                BY <4>1, JobSteps, StepAfter
            <4> QED BY <3>4, <4>2 DEF Join
        <3>5. CASE UNCHANGED <<exeVars, genVars>>
            BY <3>5 DEF exeVars
        <3> QED BY <1>3, <3>1, <3>2, <3>3, <3>4, <3>5 DEF GenNext
    <2>2. /\ LineInv' /\ AllCached(modules)' /\ FlattenedIsDeclared'
        BY <1>3, <2>1, FlatFrame DEF FlatInv
    <2> QED BY <2>1, <2>2 DEF FlatInv
<1> QED BY <1>1, <1>2, <1>3 DEF Next

LEMMA FlatInductive == Spec => [](IInv /\ FInv /\ ClassInv /\ FlatInv)
BY FlatInvInit, ClassInductive, NextKeepsFlat, PTL DEF Spec

(* Wherever a class is flattened that has its line of bases in its own module,
   it shows exactly their fields in the order of the offsets, whatever other modules hold
   under the same names, in whichever order the worker met the classes and the
   exe sorted and passed the modules.                                          *)
THEOREM FlattenedStaysDeclared == Spec => []FlattenedIsDeclared
<1>1. FlatInv => FlattenedIsDeclared
    BY DEF FlatInv
<1> QED BY <1>1, FlatInductive, PTL
==============================================================================
