# TLA+ models of dezlock-dump

dezlock-dump is a Windows program that injects a worker DLL into a running Source 2 game,
lets the worker export the schema, RTTI, globals and more as JSON, turns the JSON into SDK
headers and other files, and, with `--live`, keeps serving the game's memory to a browser.
This directory models the parts in which processes, threads and messages meet, and the way of the
data from the memory of the game through the export to the generated files and live answers. TLC checks
the models on small instances; TLAPS proves the main invariants for all of them.

Every module names the source it models; `PROJECT.json` maps every definition to its lines.

## 1. Inventory

### 1.1 Components

| Component | State | Operations | Talks to |
|---|---|---|---|
| Export handshake (`main.cpp` `main`, `worker.cpp` `worker_thread`) | files `dezlock-done`, JSON, `live.cfg` in the temp directory | delete, inject, poll, read; export, write JSON, write done marker | injector; worker over files |
| Injector (`src/injector.cpp`) | memory and threads in the game | map image, run loader shell, wait, free | the game process |
| Worker pipe server (`worker.cpp` `run_pipe_server`) | one pipe instance, the request being served | create, accept, READ, MODULE_BASE, SHUTDOWN, unload | `PipeClient` over a named pipe |
| `PipeClient` (`src/live-bridge.cpp`) | `m_pipe`, `m_mtx` | connect, read, module_base, shutdown, connected | worker; called by two threads of the exe |
| `SubManager` | `m_subs`, `m_next_id`, `m_running`, its thread | subscribe, unsubscribe, stop, loop | `PipeClient`, `SchemaCache`, `WsServer::broadcast` |
| `SchemaCache` | modules, indexes, wrapper cache | load, find, flat_fields, resolve_wrapper, search | both threads of the exe |
| RTTI cache (`resolve_rtti_cached`) | address to name map, module list | look up, read, store | `PipeClient` |
| `CommandDispatcher` | entity-system configuration | dispatch, probe, entity and memory commands | all of the above |
| `WsServer` (`src/ws-server.cpp`) | connection maps, asio thread | register, remove, send, broadcast, stop | the viewers |
| `run_live_server` (`main.cpp`) | `pipe_ok`, `g_shutdown` | start everything, poll, shut down | all of the above |
| `LiveClient` (`viewer/src/lib/live-client.ts`) | socket, pending calls, timers, diff listeners | connect, disconnect, send, subscribe, unsubscribe | `WsServer` |
| Entity inspector (`entity-inspector-pane.tsx`) | selected entity, subscription id, shown values | effect, clean-up, refresh | `LiveClient` |
| Worker export (`worker.cpp` `worker_thread`, `write_export`) | results of the phases | schema, RTTI, globals, patterns, interfaces, strings, export | `SchemaManager`, the scanners |
| Schema walk (`schema-manager.cpp`) | `m_cache`, `m_enum_cache`, dumped modules | dump a module, find a class | the game's hash tables |
| RTTI, global, pattern, interface, string, protobuf scanners | results | walks over memory images | the worker export |
| `main.cpp` after the export (`output-generator.cpp`) | `modules`, the lookup of classes | parse, look up, flatten, write trees | the generators |
| Member analysis (`analyze-members.cpp`, `vfunc-namer.cpp`) | layouts | decode functions, merge, name | the generators |
| Signature generator (`src/generate-signatures.cpp`) | work queue, threads | workers pick modules and scan | files |
| SDK generators (`import-schema.cpp`, `generate-internal-sdk.cpp`) | headers, pools of threads | headers, includes, padding, asserts | files |
| Logger (`src/log.cpp`) | file handle, mutex | init, write, shutdown | every thread of the exe |
| Command line, console, version check, viewer pages | | formatting, console and HTTP I/O | |

### 1.2 How the parts interact

    exe (main.cpp)                      game process
      main() -- files in %TEMP% ---------> worker_thread()        ExportHandshake
      main() -- injector ----------------> worker DLL
      PipeClient -- named pipe ----------> run_pipe_server()      LivePipe
        ^        ^
        |        +-- SubManager thread --- reads objects          Subscriptions
        +-- WebSocket thread (asio): CommandDispatcher
                |            |
               answers   broadcasts                               LiveClient
                v            v
      browser: LiveClient -> entity inspector, class view         EntityInspector

    in the worker: schema -> RTTI -> globals -> patterns          SchemaWalk, RttiHierarchy,
                   -> references -> export file                   Scanners, WorkerDump
    in the exe:    parse -> lookup -> text files                  ExeOutput
                   -> layouts, signatures, SDK, internal SDK      MemberLayouts, Signatures, SdkHeaders,
                      (each by a pool of threads)                 InternalSdk, Generators
                   -> SchemaCache, RTTI cache, entity commands    LiveReads

The exe has three threads in live mode: the main thread (setup, a poll every 100 ms, shutdown),
the asio thread (accepts viewers, handles one message at a time, answers it before the next) and
the thread of `SubManager`. The last two share one `PipeClient` behind a mutex, the RTTI cache behind another
(`s_rtti_mtx`, which is not held while a name is looked for), and `SchemaCache` behind none: it is loaded
before the threads start, except for its index of wrapper classes. The generators run before live mode, each
with a pool of threads that is joined before the next begins. The worker is one thread in the game. A viewer is
a single JavaScript event loop. Any of the three processes may end at any time.

### 1.3 What is hard here

* one request/response exchange of several transfers shared by two threads, with exits of either
  process between any two transfers (`LivePipe`);
* pointers into `m_subs` used after the mutex was released, while `unsubscribe` erases and
  `subscribe` reuses the node (`Subscriptions`);
* ids that are only unique within one run of the exe, calls given up after 5 s whose answers come
  later, connections abandoned with calls under way (`LiveClient`);
* continuations that go on after what they were begun for has gone, and two message sources whose
  order is not that of the reads behind them (`EntityInspector`);
* a handshake over files that outlive both processes (`ExportHandshake`);
* a code page in the game freed while a thread may run in it (`ExportHandshake`);
* classes recovered from memory in an order the linker chose, hash tables that hold classes of other
  modules, hash maps whose order decides what the export says first (`WorkerDump` and what it extends);
* pointers into a vector that is sorted afterwards (`ExeOutput`); pools of threads over a shared
  counter (`Generators`); paddings, includes and prefixes that are wrong by one (`SdkHeaders`, `Signatures`);
* a cache filled from two threads, with failures kept, and a probe whose reads may fail (`LiveReads`).

The hazards with their lines are in `PROJECT.json` (`hazards`); each names the properties
that catch it, or says why none does.

### 1.4 What makes each component correct

| Component | Promise |
|---|---|
| Export handshake | the exe reads the whole export of its own worker; a worker stays only if asked to; the exe never waits for ever |
| Pipe | a call returns what the memory held at one instant, never another call's answer; the mutex is released; a worker left alone unloads |
| SubManager | the diffs of a subscription add up to its snapshot, are minimal, are about its own object, and catch up with the game; stop() joins |
| Dispatcher, WsServer, LiveClient | a call is executed and settles at most once, with its own result; it settles; listeners hear of their own object; subscriptions are not lost track of |
| Entity inspector | what is shown is the selected entity's, and its present values; nothing is left running |
| Injector | the page of the loader is freed only when no thread runs in it |
| Schema walk | the cache holds a module's own classes, and with a class its bases |
| RTTI | parent, bases and functions are those that were compiled, whatever the order in the image |
| Scanners | exactly the first occurrence is reported; a derived pattern follows its base; every walk stops |
| Output | the flattened fields of a class are its own and its bases', under their names |
| Generators | every module that had work has its result; a signature identifies its function and is the shortest; of a function made of instructions the decoder follows, exactly the accessed members are reported; the header of a parent is written; the asserts hold |
| SchemaCache, RTTI cache | a class is read with its declared fields; a name that is there is the right one, whichever thread came first |
| Entity probe and list | when no read fails, the entities of the game under their names |
| Logger | no message is written to a closed file |

## 2. Plan

Written, in the order of importance:

1. the live part: `LivePipe` (abstract: `RemoteMemory`), `Subscriptions`, `LiveClient` (abstract: `RemoteCalls`),
   `ExportHandshake` with the injector, `EntityInspector`;
2. the dump, as one chain of modules each of which extends the one before:
   `SchemaWalk`, `RttiHierarchy`, `Scanners` -> `WorkerDump` -> `ExeOutput` -> (with `Signatures`, `MemberLayouts` on `X86`, `SdkHeaders`,
   `InternalSdk`) `Generators` -> `LiveReads`, instantiated by `MCDump`;
3. proofs of the invariants of the live part, of both refinements, of the pools of threads, and of what the worker
   exports, the exe flattens, the generators write and a live session reads and names.

Left, in the order of what it would add:

1. the watch of `class-view.tsx`, on the same exe as `EntityInspector`; two viewers over one `SubManager`, where one may erase
   the subscription of the other and both outlive the end of the subscription thread;
2. `mem.read`, `mem.write`, `mem.deref`, `entity.search` and the search commands in `LiveReads`;
3. the wire format of `protobuf-scanner.cpp`;
4. what the probes of `probe_entity_config` need of the memory for `EntitiesFound`, stated as an assumption, and a proof from it.

## 3. The modules

### 3.1 RemoteMemory and LivePipe (`live-bridge.cpp`, `worker.cpp`, `main.cpp`)

`LivePipe` has one action for each `WriteFile` and `ReadFile` of an exchange. `pc[t]` is where
thread t is in `PipeClient::read` or `module_base`; `mtx` is `m_mtx`; `wpc` is where
`run_pipe_server` is; `toWorker` and `toExe` are the two byte streams, one element per write;
`mpc` and `pipe_ok` are `run_live_server`. `GameExit` and `ExeDies` may happen between any two
steps; an exception that unwinds `run_live_server` has the effects of `ExeDies`, because the destructors
close the same handles. A read of the game's memory is one action: the words of an object are copied without
a lock, and the model promises atomicity only for one word; objects stand for words.
`RemoteMemory` is the abstract promise: an answer is determined at one instant of the call, or the
call fails.

### 3.2 Subscriptions (`SubManager`)

`cell` are the heap nodes of `m_subs`, `subs` those in the map; `due` are the pointers that
the loop collected under the mutex and uses afterwards. `Unsubscribe` frees a cell that the loop
may still hold, `Subscribe` may put another subscription there (`reused` records this), `Crash` is an access to the
freed cell that ends the exe, and reading one is a choice over what may be found. The
loop asks `m_running` (`Tick`), sleeps, collects what is due, then reads, copies field by field while the game writes, compares, stores the snapshot and pushes:
five states, with the viewers' actions between any two. `Throws` is an exception that ends the thread.

### 3.3 RemoteCalls and LiveClient (`live-client.ts`, `ws-server.cpp`, `dispatch`)

One viewer and the exe. A task of the browser is one action, with the continuations of the
promises it settles; `up` and `down` are the queues of each connection; `conns` is `id_to_hdl` of the
server; `serving` is the answer the asio thread is about to send while the subscription thread
broadcasts. The viewer may abandon a connection with calls under way, time calls out, reconnect,
and find an exe that was started anew (`run`), whose ids begin with 1 again. `RemoteCalls` is what
`send` promises.

### 3.4 ExportHandshake (`main.cpp`, `worker.cpp`)

The exe is started again and again, with or without `--live`, or with `--schema` (straight to the
pipe, without an injection); each run has its worker. The files are `cfg` (dezlock-live.cfg),
`json` (dezlock-export.json with who wrote it and whether it is complete) and `done`
(dezlock-done). `DeleteFile` fails on a file that is open. With the output written the marker goes too (`Generated`). Every file operation is an action of its own, except that the
worker's reading and deleting of the configuration is one, as is opening and closing of a file that is
written in one go. The exe may be closed and the game may end at any step. `overlap` records the
runs that began while a worker was still at work: for these the files say nothing, and the
properties are about the others. Two exes at the same time are not modelled.

The injector is part of it: `Inject` puts an image and a page with the loader's code into the game and starts a thread there
(`thread`, `image`, `shell`). That thread creates the one of the worker (`Loads`), or finds nothing to load (`LoadFails`), and
returns. The exe sees its end (`Injected`, `InjectionFails`) or stops waiting for it and frees the page under it
(`InjectionTimesOut`); a thread that goes on there ends the game (`Faults`).

### 3.5 EntityInspector (`entity-inspector-pane.tsx`)

Effects are numbered; `cur` is the one that is not cancelled, `mounted` the first of the pane
that is open (a pane that is closed and opened again has new references). An entity has one field,
whose value is an age. `subId`, `timer` are the references of the pane; `value` is what it shows.
Of the exe there are the two threads: `answer` was read by one and not sent yet, `diff` by the other.
The connection stays open; `LiveClient` models its loss. An answer that was read before a diff may be shown after it
(`Data`): the pane then shows the older value until the field changes again, and nothing promises otherwise.

### 3.6 The dump (`SchemaWalk` to `LiveReads`)

One behaviour goes from the memory of the game to the files and to the answers of a live session, with the variables of all the
modules; each module adds those of its part. The game is a record that is chosen once and not changed by the program: its modules,
the classes they were compiled from (which the worker never sees), hash tables of the schema, images, instructions, words of data,
and for live mode its words by address. Where the code walks a hash map, the model takes any order.

| Module | State | Actions and operators |
|---|---|---|
| `Rows` | | selecting from and joining sequences, as recursive functions that can be reasoned about |
| `SchemaWalk` | `m_cache`, `m_enum_cache`, `m_dumped_modules` | `collect_utltshash_entries` (buckets, both chains, free list), `enumerate_scope` with its rounds over bases, `enumerate_enums`, `dump_all_modules`, `find_class` |
| `RttiHierarchy` | | `build_rtti_hierarchy`, its four passes over the descriptors, locators and `.rdata`; `Compiled` builds an image from declared classes in a given order |
| `Scanners` | | globals, patterns with their derived entries, interface lists, string references |
| `WorkerDump` | `phase`, `m_rtti_map`, `unresolved`, `discovered`, `patterns`, `refs`, `export` | one action per phase of `worker_thread`, `ResolveRtti` per class; `WriteExport` |
| `ExeOutput` | `step`, `modules`, `global_class_lookup`, `emitted`, `flattened`, `trees` | `ParseExport`, `BuildLookup`, `EmitModule` (sort, then flatten: under FLATTENED the classes with a chain of three names or more, as full layout those with a parent), `WriteTrees`; a pointer into a vector is the pair of module and slot |
| `Signatures`, `MemberLayouts`, `SdkHeaders`, `InternalSdk` | | `process_module`, `compute_unique_prefixes`, `decode_function` on bytes, headers with their cursor, includes, naming of virtual functions |
| `X86` | | no part of the program: how instructions are encoded, what they access and which registers they write, after the manual of the processor |
| `Generators` | `opts`, `pool`, results of the four generators | `Skip`, `Start`, `Take`, `Store`, `Join`; the atomic counter is the set of modules that are `left` and what each thread `held` |
| `LiveReads` | `cache`, `s_rtti_cache`, `m_ent_config`, `jobs`, `entities` | `LoadCache`, `ReadObject`, `LookUp` and `Walk` per pointer and thread, `ProbeEntityConfig`, `EntityList` |

Reference definitions beside them say what the results should be: `AsDeclared`, `Line`, `Identify`, `MembersAccessed` (the
instructions of a function executed one after the other, with the processor of `X86`), `AssertsOf`.

The analysis of a function is given its bytes. Which instructions they are only `X86` knows (`Assembled`); `decode_function` finds them or loses its place,
as the code does: it leaves a ModRM byte that names registers behind an unknown 0F opcode, passes over a rip-relative operand of an SSE move as if it had no displacement,
and forgets the index of a SIB byte. `Followed` lists what it needs of an instruction to come to the same result as the processor. For `Signatures`
a function has a second, shorter row of cells (`raw`), in which an address or an opcode is one cell; the two rows are separate views of a function and no property relates them.

Operators called "Variant" in a module are plausible slips of the code, kept beside the definition they
would replace; each shows that a property can fail.

## 4. The runs

| Run | Bounds | Shows |
|---|---|---|
| LivePipe | two threads and main, one good and one faulting address, one module loaded and one not, two values | `IInv`, `FramingInSync`, `NothingLeftOver`, that it implements `RemoteMemory`, and `LockReleased`, `WorkerUnloads`, `ShutdownReturns` |
| LivePipeGone | one value | violated: `GameExitNoticed`; no failed transfer closes `m_pipe`, so `connected()` stays true |
| Subscriptions | two cells, two ids, two fields, two values, one object and one faulting address, one store | `IInv`, `KnownIsSnapshot`, `DiffsAreDeltas`, `DiffsAreOwn` for cells not reused under the loop; `CatchesUp`, `StopJoins` |
| SubscriptionsReuse | one cell, two ids, two objects, two fields | violated: `AllDiffsAreOwn`; a reused cell gets the diffs of the old object |
| LiveClient | two calls, two connections, two runs of the exe, one subscription per run, one diff | `IInv`, `HearsOwn`, `LeaksOnlyGivenUp`, and that it implements `RemoteCalls` |
| LiveClientRuns | as above, two diffs | violated: `HearsOwnAlways`; listeners outlive the run their id belongs to |
| ExportHandshake | two runs, over files that earlier use may have left | `IInv`, `ExportReady`, `LiveAsAsked`, `CodeStays`, `ExeGetsOn`, `UnloadsOrListens` |
| EntityInspector | two effects, two entities, one change of each, one message under way when an interval adds another | `IInv`, `LeaksOnlyOvertaken`, `DiffsAreOwn`, `PollingConverges` |
| EntityInspectorOwn | as EntityInspector, two messages | violated: `ShownIsOwn`; a read that is answered after a switch |
| Dump | the games below; two threads; every order of hash maps | worker: `CacheIsClosed`, `RttiAsDeclared`, `FirstOfEachIsReported`, `DerivedFollowBase`; exe: `FlattenedIsDeclared`, `PoolsComplete`, `SignaturesIdentify`, `MembersAsExecuted`, `IncludedIsWritten`, `PlainAssertsHold`; live: `LiveFlatIsDeclared`, `TypesAreRight`, `EntitiesFound` |
| DumpLookup | as Dump | violated: `FlattenedIsInherited`; the lookup points into vectors that are sorted afterwards |
| SdkAsserts | as Dump | violated: `AssertsHold`; the padding before a bitfield is written twice |

The games of `MCDump` have two modules with five classes, two of which have the same name, one with two bases and a vtable for
each, a class that lies in the hash of another module or on the free list only, functions that are alike, shared, stubs, or
followed by an address, a stub that is masked over, functions of real bytes (loads, stores, copies, calls, SSE, immediates of four bytes, one cut off where the bytes end, one that the analysis does not follow), a gap before a field that may be a bitfield, two fields in one place, an array, a class of both modules that has another size in each, a pattern derived from a later one and one derived from that, a pattern with a wildcard, a class whose module may be a third one. One set of
games (`LinkedGames`) goes through all orders of the locators and four of the vtables; one through the variants of the schema;
`EmptyGame` has nothing to dump, `CrowdedGame` one module more than the array of the worker holds; `LiveGames` have three objects that
point to each other, a vector of structs or of pointers or an empty one, a chunk of entities, and reads that may fail or not. `MCInit` leaves out the generators where only
the order of the linker differs, and `MCExport` takes one order of the classes in the file for the games that go on into
live mode, so that each question is asked with all orders of what it depends on and one order of the rest.

Why these bounds are enough: each hazard is between two actors or two successive uses of a thing
(two callers, two subscriptions in one cell, two connections, two runs, two effects), so two of each
kind and one event between them reach it. The handshake starts from every combination of files, with
an export by an earlier run among them, so that two runs are a run after a run after earlier use.
The proofs (section 6) lift the bounds for the safety properties they cover. The `MaxWrites`, `MaxPushes`, `MaxAge`, `MaxReq`,
`MaxOpen` and similar constants only limit how often the environment acts; `MaxOpen` keeps
the interval of a pane from sending more reads while that many messages are under way. In the dump the limits of the code
(512 modules, 4096 nodes, 64 bases ...) are constants with small values; games reach the limits of modules and of vtable entries.

`CHECK_DEADLOCK FALSE` is set where the modelled system really stops: in `Subscriptions` the loop ends or the
exe crashes, and the ids are used up; in `LiveClient` all calls and connections are used up; in
`EntityInspector` all effects have run, everything was answered and nothing changes any more; in the dump main() is done. The others have no deadlock.

Symmetry is used only in `LiveClient`, which checks no liveness. `EntityInspector` uses a constraint in its place: the entities are
interchangeable, so only behaviours that select the same one first are explored. `MCSubscriptions` starts from objects whose fields differ,
so that a mix-up of two fields shows.

## 5. Fairness

* `LivePipe`: weak fairness of every step a thread, the worker or the main thread can take (the operating system schedules them;
  transfers complete or fail); none for calls, Ctrl+C, stores or exits. `BusySpec` adds that viewers keep calling, so that
  `GameExitNoticed` is not refuted by a pipe nobody uses.
* `Subscriptions`: weak fairness of the loop; strong fairness of collecting a given subscription, because its interval
  elapses again and again while it exists.
* `LiveClient`: none; only safety and the refinement of `RemoteCalls` are checked.
* `ExportHandshake`: main() goes on by itself and its timeout elapses; workers and the threads that load them run. Nothing is assumed of the user or the game.
* `EntityInspector`: both threads of the exe run, messages are delivered, intervals elapse; strong fairness
  of a read that succeeds, since a pane reads every 500 ms and the game does not refuse a valid object for ever.
* The dump: none; its properties are about what the phases leave.

## 6. Proofs

All theorems hold for every value of the constants that satisfies the assumptions of the modules
(distinct special values, bounds that are naturals). Each module of proofs shows
`Init => Inv`, one lemma for each action that it keeps `Inv`, and `Spec => []Inv`; the others follow from it.

* `LivePipe_proofs`: `TypeCorrect`, `ExchangeCorrect`, `FramingCorrect`, `NothingLeftOverCorrect`. `FramingInSync` is not inductive:
  that the next element is a header depends on where the other side stands. `IInv` says so for each pair of positions: `Ownership`
  (who has the mutex), `WorkerSide` (what the worker may find) and `Exchange` (both streams, for open and lost connections).
  `ImplementsRemoteMemoryCorrect`: `RemoteMemory` determines the answer of a call at one instant; in the
  code this is when the worker reads the memory, and nothing later changes it, because the exchange under way belongs to the thread that has the mutex
  (`Ownership`) and its answer is the one in the stream (`Exchange`). `Calling` adds that a call that waits for the mutex has no answer yet.
* `Subscriptions_proofs`: `TypeCorrect`, `BooksCorrect` (`IInv`), `KnownIsSnapshotCorrect`, `DeltasCorrect`, `OwnCorrect`. `IInv` adds that an id names one cell and
  one address (`IdsUnique`) and what the loop's locals are for a subscription whose cell was not reused (`Locals`).
* `LiveClient_proofs`: `TypeCorrect`, `BooksCorrect` (`IInv`), `HearsOwnCorrect`, `LeaksCorrect`, and `ImplementsRemoteCallsCorrect`, the refinement of `RemoteCalls`.
  `IInv` relates pending calls, timers and promises (`CallBooks`), connections at both ends (`ConnBooks`), ids and what they are about
  (`IdBooks`) and every message under way (`Traffic`); that an id is never used twice in a run is why a late answer does no harm.
* `ExportHandshake_proofs`: `InvAlways`, `ExportReadyCorrect`, `LiveAsAskedCorrect`, `CodeStaysCorrect`. `WorkBooks` says who can be at work, `FileBooks` what the files are at each
  step of a run without overlap (the marker is its own worker's, and that puts it down after the export), `ConfigBooks` whose configuration is there.
  For `CodeStays`, `LoadBooks` says that an exe that goes on has seen the end of its loading thread.
* `EntityInspector_proofs`: `BooksCorrect` (`IInv`), `LeaksCorrect`, `DiffsAreOwnCorrect`. Requests and the answers to them stay in the order of their effects
  (`Order`), so a number means the same subscription at both ends (`SubBooks`, `SentBooks`); an effect that has its answer after its clean-up is in
  `overtaken` (`Cancelled`). Ages are any naturals.
* `Generators_proofs`: `PoolBooksCorrect` (each module of a pool is left, with exactly one thread, or done), `JoinedHasAllCorrect` and
  `PoolsCompleteCorrect`. A task reads nothing that changes while the pool runs, so what is stored is what the task yields, in
  whatever order the threads took the modules; `ThreadsAssumption` (one thread at least) is what makes the join wait for work.

  `MembersAreExecuted`: by induction over the instructions, the decoder stands where the next one begins and its registers are those that hold this
  (`AllFollowed`), whatever the bytes; a round of its loop is compared with each sort of instruction (`Followed`).
  `SignaturesAlwaysIdentify`: in a sorted list the pattern that shares most with another is next to it, so a comparison with both neighbours decides;
  masking, trimming and stubs keep that (`SignaturesAssumption`). `IncludesAreWritten`: the header of a parent in the own module belongs to a class that is
  written, because the set of written ones and the look-up by name are made from the same classes.
  `PlainAssertsStayTrue`: the classes of the modules are those the schema describes, from the cache (`CachedInv`) over the export
  (`ClassesInv`) to the sorted modules (`ClassInv`); and the loop over the fields of a header keeps a plan of where each
  member begins (`LaidOut`, `EmitNext`), which at the end is what the compiler computes (`OffsetsAre`). The compiler's base is the struct of the header that
  is included (`IncludedSize`); it has the size the generator took, because `BaseIsSure` asks that all classes of that name have one size and that what is included
  compiles (`StructIs`, `BaseIs`).

  `FlattenedStaysDeclared`: `FlatInv` carries from the worker to the exe that the classes of a module are those cached under it, each with its
  first declared base as parent (`LineInv`, `AllCached`). The walk of `FlatCollector` then passes the line of bases from its beginning, no class twice
  (`Collected`); a round that is not the last adds one class, so behind as many rounds as the cache has classes it has the whole line, and
  sorting keeps what was collected (`SortedKeeps`). That the classes are sorted before they are flattened makes no difference here
  (`CachedInAnyOrder`), and neither do the pointers that went stale by it: the look-up of the module itself answers for the whole line.
* `WorkerDump_proofs`: `CacheStaysClosed`: as long as a round of `enumerate_scope` adds something the cache grows, and it has at most as many
  entries as there are classes, so the last round adds nothing, which is what closed means. `FirstIsReported` and `DerivedAlwaysFollowBase` are
  inductions over the words of a module and the entries of the patterns. `RttiIsAsDeclared`: each pass over an image is compared
  with what the compiler wrote for the declared classes (`IsCompiled`): the walk of the base descriptors recovers the chain (`InheritanceIs`), exactly one
  locator with offset 0 stands for a class (`OnePrimaryCol`), so the order of locators and vtables in the image makes no difference (`PrimaryFunctions`, `RecoversDeclared`).
* `LiveReads_proofs`: `TypesStayRight`. What is exported about vtables agrees with the locator in front of them (`MapNames`, `GlobalsNames`, `FileNames`:
  the chain from `resolve_locators` over the globals to the file), so the cache that is loaded does (`CacheBooks`), and so does every name in the
  RTTI cache (`NameBooks`), whether `entity.list` seeded it or a walk read it; `JobBooks` relates a thread that has left the mutex to walk to
  the object it goes on with; what `entity.list` shows is named by that cache (`EntityBooks`). It is a theorem of `LiveSpec`, the dump with the live session behind it.

  `LiveFlatStaysDeclared`: a behaviour of `LiveSpec` is one of `Spec` (`SessionIsRun`), so the invariants of the dump hold, and the cache is what the file
  has (`SessionInv`, `FileClasses`, `FileLine`). `flat_fields` calls itself; by induction on the depth of the calls the fields of a class are those of its
  line once the depth is that of the line (`LiveFlatIs`). That the own module is asked first, and that each class of the line has fields,
  inherited ones at least, is why no other module is asked (`InheritedIs`).

Recursion over data is written as recursive functions, about which induction over the set of positions where a fact holds
(`SetInduction`, `StepInduction`) can be used; the library's theorems with an operator parameter are not needed. The inputs are constants of the dump, so
the theorems rest on assumptions about them, which TLC evaluates on the games of `MCDump`:

| Assumption | Says | Because |
|---|---|---|
| `OrderAssumption` | the order of the modules names each once | it is the result of a sort by name |
| `GamesAssumption` | a game has finitely many classes, bases are classes, a module's classes differ in name | the schema system registers them by name |
| `RowsAssumption` | data, text and instructions are sequences | they are memory |
| `LimitsAssumption` | the limits of the RTTI walk are naturals | they are constants of the code |
| `ImagesAssumption` | every image was compiled from the declared classes, in any order; they have names, and none inherits from itself | MSVC writes it; `Compiled` is one such image |
| `SignaturesAssumption` | a mask is no opcode, no stub pattern looks further than the shortest signature | `STUB_PATTERNS`, `min_length` |
| `BytesAssumption` | every function is exported with `FUNC_BYTES_SIZE` cells, none of them the mask, and with bytes that are those of its instructions | the worker reads that many bytes and fills up with zeros; a function is a row of instructions |
| `NamesAssumption` | the order of the names has every class name | it stands for the comparison of strings |
| `FieldsAssumption` | sizes and offsets are naturals, a class has a field of a name once, none is named like a padding | C++; an offset lies inside the class |
| `ObjectsAssumption` | an object that is said to be of a class can be read and begins with a vtable of the class | that is what an object with virtual functions is |

Attempts to prove five properties showed that they said too much. A stub whose returned constant contains the byte of a call is masked over, so another
function may look like it (`HiddenStub`, now the exception of `SignaturesIdentify`). RTTI promises nothing of a module that has no
schema and is not scanned, nor of a class with more bases or functions than the limits (`WithinLimits`, `RttiAsDeclared`). An object of a class
that the schema lacks is shown as what the pointer's type says (`TypesAreRight`). `FlattenedIsDeclared` and `LiveFlatIsDeclared` spoke of the
bases that the schema has of a class, while the code follows the parent that RTTI has, and has none for a class with more bases than `MaxBases`; and `find_class` caches
classes whose bases are not in the module. Both now speak of the declared line of bases, where all of it is cached in the module and can be
read (`HasLine`). The games have the first two corners.

Only model-checked: all liveness properties and the runs that show a violation (the installed provers have no ENABLED and no fairness), and
`EntitiesFound`: the probes guess where the entities lie, and whether the guess is right depends on what else in the memory looks like an entity.
What is proved of `entity.list` is that an entity is listed under the name of its class (`TypesStayRight`).

## 7. Disagreements found

The violated runs show one each; `PROJECT.json` (`findings`) quotes the text the code disagrees with.

* `GameExitNoticed`: the exe does not notice that the game has gone.
* `AllDiffsAreOwn`, `HearsOwnAlways`: a reused subscription cell, and a listener left from an earlier run, hear of another object.
* `ShownIsOwn`: the inspector shows values of the entity selected before.
* `FlattenedIsInherited`: a class may be flattened with the fields of another class in place of its parent. In the run the class has a chain of two,
  so this is in its full layout in the hierarchy files; under FLATTENED it can happen to chains of three and more.
* `AssertsHold`: the asserts of a header with a bitfield behind a gap do not hold.

Four limits of the code are in the models, where the properties state them as their exceptions:

* an exe that looks for the pipe between the done marker and `CreateNamedPipe` ends its live session at once, because
  `WaitNamedPipe` waits only for a pipe that exists (`ExportHandshake!NoPipe`; `ExeGetsOn` promises the end, not the session);
* a live worker whose exe is gone before it connects waits in `ConnectNamedPipe` for ever (the exception of `UnloadsOrListens`);
* any read that the worker refuses is broadcast as `live.disconnected` and ends the loop for all subscriptions
  (`Subscriptions!ReadFails`; `CatchesUp` is about loops that go on);
* an effect of the inspector that still awaits `subscribe()` when it is cleaned up leaves its subscription or its
  interval running (the exception of `LeaksOnlyOvertaken`).

More limits are in the models of the dump, as preconditions of the properties or as choices:

* the arrays for `EnumProcessModules` are read past their end when there are more modules (`SeenBy`);
* the count of metadata names is read as an i16 that holds alignment and base count (`MetadataCount`), and a hash
  is believed only after three buckets that look right (`MinHits`): a module with fewer classes may be passed over;
* `find_class` takes a class of the asked scope whatever module it belongs to, unlike `enumerate_scope`;
* a name ends at the first `@@` of its mangled form, so two template classes may share one;
* derived patterns are resolved in the order of the file, and one that derives from a later derived one is left out;
* the output files use two lookups, of which one lets the first and one the last class of a name win;
* the member analysis keeps a register for `this` that a rip-relative load, `lea` from another register or `pop` overwrites, takes a move of a byte for a
  copy, ignores the index of an address, reports nothing of FF, F6, F7 and most 0F instructions, and loses its place behind rip-relative SSE and MOVZX
  operands and behind unknown 0F instructions between registers (what `Followed` excludes);
* a header includes its parent by the module that has the last class of the name, with padding for the size of the first one
  (`class_lookup` against `class_to_module`); where they differ, or the parent's own header is not written or wrong, its asserts may not hold (`BaseIsSure`);
* `_all-offsets.hpp` and `_all-enums.hpp` include both files of every valid module, though each is written only when it has content (`MasterIncludes`);
* a header may include a parent that has no fields and so no header of its own (the exception of `IncludedIsWritten`);
* the index from a function to its slot keeps the last one met (`RvaIndexes`);
* a name that could not be read stays unknown in the RTTI cache, and a late walk overwrites what `entity.list` has put there (`Walk`);
* a class without fields takes the place of a parent from any module that has some (`LiveFlatIsDeclared`), and a class of the server is shown
  with the definition of the client when both have the name (`find_class_any`);
* the entity configuration is kept for good, also when a failed read put defaults into it (`ProbeEntityConfig`).

## 8. Not modelled

`PROJECT.json` gives each component's status and what is left out of it. Not at all: the class view (a page with one watch button over calls
that `LiveClient` has), the logger (one file behind one mutex), command line, console and version check (console I/O and
one HTTP request), the pages of the viewer (rendering), and the vendored asio, websocketpp and json libraries, of which only what
`ws-server.cpp` relies on is modelled (one handler at a time, messages of a connection in order).

Of modelled components: two exes at the same time; the byte-level work of the injector (relocations, imports, exception tables);
`mem.read`, `mem.write`, `mem.deref`, `entity.search` and the commands that only filter the schema; drill-down and snapshots of the
inspector; the protobuf descriptors; the tables of C++ types, and all text layout. Reads of the elements of a vector and of the slots of `entity.list` do not fail
by chance in the games of `LiveReads`, as those of look-ups, of objects behind pointers, of walks and of the probe do.

Hazards that no property covers, beside those listed with a note in `PROJECT.json`: two threads may build the index of wrapper classes at once
(`live-bridge.cpp:444`); an object of more than 64 KiB is refused by the worker and taken for a broken pipe (`:1145`); an exception ends the
subscription thread with `m_running` still true (`:1209`); one viewer may unsubscribe another's id (`:1748`); a watch of the class view that
is stopped while it subscribes (`class-view.tsx:63`).
