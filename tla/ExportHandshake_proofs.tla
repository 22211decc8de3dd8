----------------------- MODULE ExportHandshake_proofs -----------------------
(***************************************************************************)
(* Proofs about ExportHandshake for any number of runs.  IInv is inductive: *)
(* a run without overlap has the files to itself from its beginning, so the *)
(* marker can only be its own worker's, and its own worker puts it down     *)
(* after the export.                                                       *)
(***************************************************************************)
EXTENDS ExportHandshake, TLAPS

(* At first nothing runs. *)
LEMMA InitInv == Init => IInv
BY HandshakeAssumption DEF Init, IInv, TypeOK, WorkBooks, FileBooks, ConfigBooks, LiveAsAsked,
    LoadBooks, CodeStays, Busy, Exports, WholeOf, PartOf, ExeStates, WorkerStates, ThreadStates, MemoryStates,
    Runs, Early, Dumping, OwnExport

(* An export is never taken for no export. *)
LEMMA ExportFacts ==
    /\ None \notin Exports
    /\ \A w \in Runs : WholeOf(w) \in Exports /\ PartOf(w) \in Exports
BY HandshakeAssumption DEF Exports, WholeOf, PartOf

(* The types of what an injection leaves in the game. *)
LoadTypes ==
    /\ thread \in [Runs -> ThreadStates]
    /\ image \in [Runs -> MemoryStates] /\ shell \in [Runs -> MemoryStates]
-----------------------------------------------------------------------------
(* The steps of the exe that leave the export and the workers alone. *)
LEMMA MainStepsKeepInv ==
    ASSUME IInv, BeginWithSchema \/ SeesDone \/ TimesOut \/ Parse \/ Generated \/ NoPipe \/ Fails \/ Ends
    PROVE  IInv'
<1>1. UNCHANGED <<run, live, cfg, json, game, overlap>>
    BY DEF BeginWithSchema, SeesDone, TimesOut, Parse, Generated, NoPipe, Fails, Ends, files
<1>2. TypeOK'
    BY DEF IInv, TypeOK, BeginWithSchema, SeesDone, TimesOut, Parse, Generated, NoPipe, Fails, Ends, Go, files,
        game, load, ExeStates, Exports, RemoveDone
<1>3. exe' \in {"off", "generating", "connecting", "opening", "nopipe", "live"} \/ (exe = "polling" /\ done /\ exe' = "reading")
    BY DEF BeginWithSchema, SeesDone, TimesOut, Parse, Generated, NoPipe, Fails, Ends, Go
<1>4. WorkBooks'
    BY <1>1, <1>3 DEF IInv, TypeOK, WorkBooks, Busy, files, game, BeginWithSchema, SeesDone, TimesOut, Parse, Generated, NoPipe, Fails, Ends, Go
<1>5. FileBooks'
    BY <1>1, <1>3 DEF IInv, TypeOK, FileBooks, files, game, OwnExport, Early
<1>6. ConfigBooks'
    BY <1>1, <1>3 DEF IInv, ConfigBooks, files, game
<1>7. LiveAsAsked'
    BY <1>1 DEF IInv, LiveAsAsked, game
<1>8. LoadBooks'
    BY <1>1, <1>3 DEF IInv, LoadBooks, game, load, SeesDone, Generated, NoPipe, Parse, BeginWithSchema,
        TimesOut, Fails, Ends, Go
<1>9. CodeStays'
    BY <1>1, <1>3 DEF IInv, CodeStays, LoadBooks, game, load, SeesDone, Generated, NoPipe, Parse, BeginWithSchema,
        TimesOut, Fails, Ends, Go
<1> QED BY <1>2, <1>4, <1>5, <1>6, <1>7, <1>8, <1>9 DEF IInv

(* The exe begins: whoever is still at work overlaps with the new run. *)
LEMMA BeginKeepsInv ==
    ASSUME IInv, NEW l \in BOOLEAN, Begin(l)
    PROVE  IInv'
<1>1. /\ UNCHANGED <<cfg, json, done, worker, wlive, alive, gaveUp, thread, image, shell>>
      /\ Busy' = Busy /\ run' = run + 1
    BY DEF Begin, files, game, load, Busy
<1>2. run \in Nat /\ run + 1 \in Runs /\ exe = "off" /\ exe' = "begun"
    BY HandshakeAssumption DEF IInv, TypeOK, Begin, Go, Runs
<1>3. overlap \subseteq overlap' /\ overlap' \subseteq Runs /\ Busy \subseteq overlap'
    BY <1>2 DEF IInv, TypeOK, Begin, Busy
<1>4. \A w \in Runs : w > run => worker[w] = "none" /\ w \notin overlap /\ w \notin Busy
    BY DEF IInv, WorkBooks, Busy
<1>5. \A w \in Runs : w # run + 1 => live'[w] = live[w]
    BY DEF Begin
<1>6. TypeOK'
    BY <1>1, <1>2, <1>3, HandshakeAssumption DEF IInv, TypeOK, Begin, Go, ExeStates, Runs
<1>7. WorkBooks'
    <2>1. (exe \notin {"off", "opening", "live"} => run \in Runs)'
        BY <1>1, <1>2
    <2>2. (\A w \in Runs : w > run => worker[w] = "none" /\ w \notin overlap)'
        BY <1>1, <1>2, <1>4 DEF Begin, Runs
    <2>3. (exe \in {"begun", "nodone", "clean", "configured"} => worker[run] = "none")'
        BY <1>1, <1>2, <1>4 
    <2>4. (\A w \in Busy : w = run \/ (w \in overlap /\ run \in overlap))'
        BY <1>1, <1>3 DEF Begin
    <2> QED BY <2>1, <2>2, <2>3, <2>4 DEF WorkBooks
<1>8. FileBooks'
    BY <1>2 DEF FileBooks
<1>9. ConfigBooks'
    <2>1. \A w \in Runs \ overlap' : worker[w] \notin Early \cup {"signalling"}
        BY <1>3 DEF Busy, Early, Dumping
    <2> QED BY <1>1, <1>2, <2>1 DEF ConfigBooks, Early, Dumping
<1>10. LiveAsAsked'
    BY <1>1, <1>2, <1>3, <1>4, <1>5 DEF IInv, LiveAsAsked
<1>11. LoadBooks' /\ CodeStays'
    BY <1>1, <1>2 DEF IInv, LoadBooks, CodeStays
<1> QED BY <1>6, <1>7, <1>8, <1>9, <1>10, <1>11 DEF IInv

(* The exe prepares the files, while no worker of its own runs yet. *)
LEMMA PrepareKeepsInv ==
    ASSUME IInv, DeleteDone \/ DeleteJson \/ Configure
    PROVE  IInv'
<1>1. UNCHANGED <<run, live, peer, game, overlap>>
    BY DEF DeleteDone, DeleteJson, Configure
<1>2. run \in Runs /\ worker[run] = "none"
    BY DEF IInv, WorkBooks, DeleteDone, DeleteJson, Configure, Go
<1>3. run \notin overlap => \A w \in Runs : w \notin Busy
    BY <1>2 DEF IInv, WorkBooks, Busy
<1>4. TypeOK'
    <2>1. exe' \in ExeStates
        BY DEF DeleteDone, DeleteJson, Configure, Go, ExeStates
    <2>2. cfg' \in BOOLEAN
        BY <1>2 DEF IInv, TypeOK, DeleteDone, DeleteJson, Configure
    <2>3. json' \in Exports \cup {None}
        BY DEF IInv, TypeOK, DeleteDone, DeleteJson, Configure
    <2>4. done' \in BOOLEAN
        BY DEF IInv, TypeOK, RemoveDone, DeleteDone, DeleteJson, Configure
    <2> QED BY <1>1, <2>1, <2>2, <2>3, <2>4 DEF IInv, TypeOK, game, load
<1>5. WorkBooks'
    BY <1>1, <1>2 DEF IInv, WorkBooks, Busy, game, DeleteDone, DeleteJson, Configure, Go
<1>6. FileBooks'
    BY <1>1, <1>3 DEF IInv, FileBooks, Busy, game, RemoveDone, DeleteDone, DeleteJson, Configure, Go
<1>7. ConfigBooks'
    <2>1. \A w \in Runs \ overlap : worker[w] \notin {"mapping", "loaded"}
        BY <1>2 DEF IInv, WorkBooks, Busy
    <2> QED BY <1>1, <2>1 DEF IInv, ConfigBooks, game, DeleteDone, DeleteJson, Configure, Go
<1>8. LiveAsAsked'
    BY <1>1 DEF IInv, LiveAsAsked, game
<1>9. LoadBooks' /\ CodeStays'
    BY <1>1 DEF IInv, LoadBooks, CodeStays, game, load, DeleteDone, DeleteJson, Configure, Go
<1> QED BY <1>4, <1>5, <1>6, <1>7, <1>8, <1>9 DEF IInv

(* The exe starts its worker. *)
LEMMA InjectKeepsInv ==
    ASSUME IInv, Inject
    PROVE  IInv'
<1>1. /\ UNCHANGED <<run, live, peer, cfg, json, done, wlive, alive, gaveUp, overlap>>
      /\ exe = "configured" /\ exe' = "injecting"
    BY DEF Inject, Go, files
<1>2. run \in Runs /\ worker[run] = "none" /\ worker \in [Runs -> WorkerStates]
    BY <1>1 DEF IInv, TypeOK, WorkBooks
<1>3. worker' = [worker EXCEPT ![run] = "mapping"]
    BY DEF Inject
<1>9. /\ thread' = [thread EXCEPT ![run] = "inside"]
      /\ image' = [image EXCEPT ![run] = "held"] /\ shell' = [shell EXCEPT ![run] = "held"]
      /\ LoadTypes
    BY DEF Inject, IInv, TypeOK, LoadTypes
<1>10. LoadTypes'
    BY <1>2, <1>9 DEF LoadTypes, ThreadStates, MemoryStates
<1>4. TypeOK'
    BY <1>1, <1>2, <1>3, <1>10 DEF IInv, TypeOK, ExeStates, WorkerStates, LoadTypes
<1>11. LoadBooks' /\ CodeStays'
    BY <1>1, <1>2, <1>3, <1>9 DEF IInv, LoadBooks, CodeStays, LoadTypes
<1>5. WorkBooks'
    BY <1>1, <1>2, <1>3 DEF IInv, WorkBooks, Busy, Runs
<1>6. FileBooks'
    BY <1>1, <1>2, <1>3 DEF IInv, FileBooks, OwnExport, Early, Dumping
<1>7. ConfigBooks'
    BY <1>1, <1>2, <1>3 DEF IInv, ConfigBooks
<1>8. LiveAsAsked'
    BY <1>1, <1>2, <1>3 DEF IInv, LiveAsAsked
<1> QED BY <1>4, <1>5, <1>6, <1>7, <1>8, <1>11 DEF IInv

(* The exe goes on, or gives the page back and ends, after its injection. *)
LEMMA InjectionKeepsInv ==
    ASSUME IInv, Injected \/ InjectionFails \/ InjectionTimesOut
    PROVE  IInv'
<1>1. /\ UNCHANGED <<run, live, peer, cfg, json, done, worker, wlive, alive, thread, image, gaveUp, overlap>>
      /\ exe = "injecting" /\ exe' \in {"polling", "off"}
      /\ exe' = "polling" => thread[run] \in {"over", "dead"} /\ shell' = shell
      /\ shell' = shell \/ shell' = [shell EXCEPT ![run] = "freed"]
    BY DEF Injected, InjectionFails, InjectionTimesOut, FreePage, Go, files, game, load
<1>2. run \in Runs /\ LoadTypes
    BY <1>1 DEF IInv, WorkBooks, TypeOK, LoadTypes
<1>3. shell' \in [Runs -> MemoryStates]
    BY <1>1, <1>2 DEF LoadTypes, MemoryStates
<1>4. TypeOK'
    BY <1>1, <1>3 DEF IInv, TypeOK, ExeStates
<1>5. WorkBooks'
    BY <1>1 DEF IInv, WorkBooks, Busy
<1>6. FileBooks'
    BY <1>1 DEF IInv, FileBooks, OwnExport
<1>7. ConfigBooks' /\ LiveAsAsked'
    BY <1>1 DEF IInv, ConfigBooks, LiveAsAsked
<1>8. LoadBooks'
    BY <1>1 DEF IInv, LoadBooks
<1>9. CodeStays'
    BY <1>1, <1>2 DEF IInv, CodeStays, LoadTypes
<1> QED BY <1>4, <1>5, <1>6, <1>7, <1>8, <1>9 DEF IInv

(* The exe opens the pipe of a worker that listens. *)
LEMMA ConnectKeepsInv ==
    ASSUME IInv, Connect
    PROVE  IInv'
<1>1. /\ UNCHANGED <<run, live, cfg, json, done, wlive, alive, gaveUp, thread, image, shell, overlap>>
      /\ exe \in {"connecting", "opening"} /\ exe' = "live"
    BY DEF Connect, Go, files, load
<1>2. PICK w \in Runs : /\ worker[w] = "listening" /\ peer' = w
                        /\ worker' = [worker EXCEPT ![w] = "connected"]
    BY DEF Connect, Listening
<1>3. worker \in [Runs -> WorkerStates]
    BY DEF IInv, TypeOK
<1>4. TypeOK'
    BY <1>1, <1>2, <1>3 DEF IInv, TypeOK, ExeStates, WorkerStates
<1>5. WorkBooks'
    BY <1>1, <1>2, <1>3 DEF IInv, WorkBooks, Busy
<1>6. FileBooks'
    BY <1>1 DEF FileBooks
<1>7. ConfigBooks'
    BY <1>1, <1>2, <1>3 DEF IInv, ConfigBooks, Early, Dumping
<1>8. LiveAsAsked'
    BY <1>1, <1>2, <1>3 DEF IInv, LiveAsAsked
<1>9. LoadBooks' /\ CodeStays'
    BY <1>1, <1>2, <1>3 DEF IInv, LoadBooks, CodeStays
<1> QED BY <1>4, <1>5, <1>6, <1>7, <1>8, <1>9 DEF IInv
-----------------------------------------------------------------------------
(* A worker that is still at work is the one of this run, and only then     *)
(* the exe is past the injection; or two runs overlap.                     *)
LEMMA AtWork ==
    ASSUME IInv, NEW w \in Busy
    PROVE  /\ w \in Runs
           /\ w # run => w \in overlap /\ run \in overlap
           /\ w = run => exe \notin {"begun", "nodone", "clean", "configured"}
BY DEF IInv, WorkBooks, Busy

(* Moving on within its work, or out of it, a worker disturbs nobody.       *)
LEMMA MoveKeepsBooks ==
    ASSUME IInv, NEW w \in Runs, NEW to \in WorkerStates,
           worker' = [worker EXCEPT ![w] = to],
           worker[w] \notin {"none", "gone"}, to # "mapping",
           w \in Busy \/ to \notin {"loaded", "configured", "dumping", "writing", "ready", "signalling"},
           UNCHANGED <<main, load, overlap>>
    PROVE  /\ WorkBooks' /\ worker' \in [Runs -> WorkerStates]
           /\ LoadTypes' /\ LoadBooks' /\ CodeStays'
<1>1. UNCHANGED <<exe, run, overlap, thread, image, shell>>
    BY DEF main, load
<1>2. worker \in [Runs -> WorkerStates]
    BY DEF IInv, TypeOK
<1>3. Busy' \subseteq Busy
    BY <1>1, <1>2 DEF Busy
<1>4. (\A v \in Runs : v > run => worker[v] = "none" /\ v \notin overlap)'
    BY <1>1, <1>2 DEF IInv, WorkBooks
<1>5. (exe \in {"begun", "nodone", "clean", "configured"} => worker[run] = "none")'
    BY <1>1, <1>2 DEF IInv, WorkBooks
<1>6. WorkBooks'
    BY <1>1, <1>2, <1>3, <1>4, <1>5 DEF IInv, WorkBooks
<1>7. LoadTypes'
    BY <1>1 DEF IInv, TypeOK, LoadTypes
<1>8. LoadBooks' /\ CodeStays'
    BY <1>1, <1>2 DEF IInv, LoadBooks, CodeStays
<1> QED BY <1>2, <1>6, <1>7, <1>8

(* The worker reads its configuration, and takes it away.                  *)
LEMMA ReadConfigKeepsInv ==
    ASSUME IInv, NEW w \in Runs, ReadConfig(w)
    PROVE  IInv'
<1>1. /\ UNCHANGED <<main, json, done, alive, load, gaveUp, overlap>>
      /\ UNCHANGED <<exe, run, live, peer>>
      /\ worker[w] = "loaded" /\ worker' = [worker EXCEPT ![w] = "configured"]
      /\ wlive' = [wlive EXCEPT ![w] = cfg] /\ cfg' = FALSE
    BY DEF ReadConfig, Moves, main
<1>2. w \in Busy
    BY <1>1 DEF Busy
<1>3. worker \in [Runs -> WorkerStates] /\ wlive \in [Runs -> BOOLEAN] /\ cfg \in BOOLEAN
    BY DEF IInv, TypeOK
<1>4. /\ WorkBooks' /\ worker' \in [Runs -> WorkerStates]
      /\ LoadTypes' /\ LoadBooks' /\ CodeStays'
    BY <1>1, <1>2, MoveKeepsBooks DEF WorkerStates
<1>5. wlive' \in [Runs -> BOOLEAN]
    BY <1>1, <1>3
<1>6. TypeOK'
    BY <1>1, <1>4, <1>5 DEF IInv, TypeOK, LoadTypes
<1>7. FileBooks'
    BY <1>1, <1>2, <1>3, AtWork DEF IInv, FileBooks, OwnExport, Early, Dumping
<1>8. ConfigBooks'
    <2>1. (exe = "configured" /\ run \notin overlap => cfg = live[run])'
        BY <1>1, <1>2, AtWork
    <2>2. ASSUME NEW v \in Runs \ overlap, v # w
          PROVE  /\ worker'[v] = worker[v] /\ wlive'[v] = wlive[v]
                 /\ worker[v] \notin {"mapping", "loaded"}
        <3>1. v \notin Busy \/ w \in overlap
            BY <1>2, <2>2, AtWork
        <3>2. v \notin Busy
            BY <1>2, <2>2, <3>1, AtWork
        <3> QED BY <1>1, <1>3, <2>2, <3>2 DEF Busy
    <2>3. w \notin overlap => wlive'[w] = live[w]
        BY <1>1, <1>3 DEF IInv, ConfigBooks
    <2> QED BY <1>1, <1>3, <2>1, <2>2, <2>3 DEF IInv, ConfigBooks
<1>9. LiveAsAsked'
    BY <1>1, <1>3 DEF IInv, LiveAsAsked
<1> QED BY <1>4, <1>6, <1>7, <1>8, <1>9 DEF IInv

(* A worker removes an old marker. *)
LEMMA CleanUpKeepsInv ==
    ASSUME IInv, NEW w \in Runs, CleanUp(w)
    PROVE  IInv'
<1>1. /\ UNCHANGED <<main, cfg, json, wlive, alive, load, gaveUp, overlap>>
      /\ UNCHANGED <<exe, run, live, peer>>
      /\ worker[w] = "configured" /\ worker' = [worker EXCEPT ![w] = "dumping"]
      /\ done' = (done /\ \E v \in Runs : worker[v] = "signalling")
    BY DEF RemoveDone, CleanUp, Moves, main
<1>2. w \in Busy
    BY <1>1 DEF Busy
<1>3. worker \in [Runs -> WorkerStates]
    BY DEF IInv, TypeOK
<1>4. /\ WorkBooks' /\ worker' \in [Runs -> WorkerStates]
      /\ LoadTypes' /\ LoadBooks' /\ CodeStays'
    BY <1>1, <1>2, MoveKeepsBooks DEF WorkerStates
<1>5. done' \in BOOLEAN /\ (done' => done)
    BY <1>1 DEF IInv, TypeOK
<1>6. TypeOK'
    BY <1>1, <1>4, <1>5 DEF IInv, TypeOK, LoadTypes
<1>7. FileBooks'
    BY <1>1, <1>2, <1>3, <1>5, AtWork DEF IInv, FileBooks, OwnExport, Early, Dumping
<1>8. ConfigBooks'
    BY <1>1, <1>3 DEF IInv, ConfigBooks, Early, Dumping
<1>9. LiveAsAsked'
    BY <1>1, <1>3 DEF IInv, LiveAsAsked
<1> QED BY <1>4, <1>6, <1>7, <1>8, <1>9 DEF IInv

(* A worker has nothing to export. *)
LEMMA GivesUpKeepsInv ==
    ASSUME IInv, NEW w \in Runs, GivesUp(w)
    PROVE  IInv'
<1>1. /\ UNCHANGED <<main, files, wlive, alive, load, overlap>>
      /\ UNCHANGED <<exe, run, live, peer, cfg, json, done>>
      /\ worker[w] = "dumping" /\ worker' = [worker EXCEPT ![w] = "ready"]
      /\ gaveUp' = gaveUp \cup {w}
    BY DEF GivesUp, Moves, main, files
<1>2. w \in Busy
    BY <1>1 DEF Busy
<1>3. worker \in [Runs -> WorkerStates]
    BY DEF IInv, TypeOK
<1>4. /\ WorkBooks' /\ worker' \in [Runs -> WorkerStates]
      /\ LoadTypes' /\ LoadBooks' /\ CodeStays'
    BY <1>1, <1>2, MoveKeepsBooks DEF WorkerStates
<1>6. TypeOK'
    BY <1>1, <1>4 DEF IInv, TypeOK, LoadTypes
<1>7. FileBooks'
    BY <1>1, <1>2, <1>3, AtWork DEF IInv, FileBooks, OwnExport, Early, Dumping
<1>8. ConfigBooks'
    BY <1>1, <1>3 DEF IInv, ConfigBooks, Early, Dumping
<1>9. LiveAsAsked'
    BY <1>1, <1>3 DEF IInv, LiveAsAsked
<1> QED BY <1>4, <1>6, <1>7, <1>8, <1>9 DEF IInv

(* A worker begins to write its export. *)
LEMMA OpenExportKeepsInv ==
    ASSUME IInv, NEW w \in Runs, OpenExport(w)
    PROVE  IInv'
<1>1. /\ UNCHANGED <<main, cfg, done, wlive, alive, load, gaveUp, overlap>>
      /\ UNCHANGED <<exe, run, live, peer>>
      /\ worker[w] = "dumping" /\ worker' = [worker EXCEPT ![w] = "writing"]
      /\ json' = PartOf(w)
    BY DEF OpenExport, Moves, main
<1>2. w \in Busy
    BY <1>1 DEF Busy
<1>3. worker \in [Runs -> WorkerStates]
    BY DEF IInv, TypeOK
<1>4. /\ WorkBooks' /\ worker' \in [Runs -> WorkerStates]
      /\ LoadTypes' /\ LoadBooks' /\ CodeStays'
    BY <1>1, <1>2, MoveKeepsBooks DEF WorkerStates
<1>6. TypeOK'
    BY <1>1, <1>4, ExportFacts DEF IInv, TypeOK, LoadTypes
<1>7. FileBooks'
    BY <1>1, <1>2, <1>3, AtWork DEF IInv, FileBooks, OwnExport, Early, Dumping
<1>8. ConfigBooks'
    BY <1>1, <1>3 DEF IInv, ConfigBooks, Early, Dumping
<1>9. LiveAsAsked'
    BY <1>1, <1>3 DEF IInv, LiveAsAsked
<1> QED BY <1>4, <1>6, <1>7, <1>8, <1>9 DEF IInv

(* A worker has written its export, and is alone unless runs overlap. *)
LEMMA CloseExportKeepsInv ==
    ASSUME IInv, NEW w \in Runs, CloseExport(w)
    PROVE  IInv'
<1>1. /\ UNCHANGED <<main, cfg, done, wlive, alive, load, gaveUp, overlap>>
      /\ UNCHANGED <<exe, run, live, peer>>
      /\ worker[w] = "writing" /\ worker' = [worker EXCEPT ![w] = "ready"]
      /\ json' = IF json = PartOf(w) /\ \A v \in Runs \ {w} : worker[v] # "writing"
                 THEN WholeOf(w) ELSE [by |-> w, state |-> "mixed"]
    BY DEF CloseExport, Moves, main
<1>2. w \in Busy
    BY <1>1 DEF Busy
<1>3. worker \in [Runs -> WorkerStates]
    BY DEF IInv, TypeOK
<1>4. /\ WorkBooks' /\ worker' \in [Runs -> WorkerStates]
      /\ LoadTypes' /\ LoadBooks' /\ CodeStays'
    BY <1>1, <1>2, MoveKeepsBooks DEF WorkerStates
<1>5. run \notin overlap => w = run /\ \A v \in Runs \ {w} : worker[v] # "writing"
    BY <1>2, AtWork DEF Busy
<1>6. TypeOK'
    BY <1>1, <1>4, ExportFacts DEF IInv, TypeOK, LoadTypes, Exports
<1>7. FileBooks'
    BY <1>1, <1>2, <1>3, <1>5, AtWork DEF IInv, FileBooks, OwnExport, Early, Dumping
<1>8. ConfigBooks'
    BY <1>1, <1>3 DEF IInv, ConfigBooks, Early, Dumping
<1>9. LiveAsAsked'
    BY <1>1, <1>3 DEF IInv, LiveAsAsked
<1> QED BY <1>4, <1>6, <1>7, <1>8, <1>9 DEF IInv

(* A worker puts down the marker, and then serves if it is to stay. *)
LEMMA SignalKeepsInv ==
    ASSUME IInv, NEW w \in Runs, Signal(w) \/ Signalled(w)
    PROVE  IInv'
<1>1. /\ UNCHANGED <<main, cfg, json, wlive, alive, load, gaveUp, overlap>>
      /\ UNCHANGED <<exe, run, live, peer>>
    BY DEF Signal, Signalled, main, files
<1>2. worker \in [Runs -> WorkerStates] /\ wlive \in [Runs -> BOOLEAN]
    BY DEF IInv, TypeOK
<1>3. CASE Signal(w)
    <2>1. worker[w] = "ready" /\ worker' = [worker EXCEPT ![w] = "signalling"] /\ done'
        BY <1>3 DEF Signal, Moves
    <2>2. w \in Busy
        BY <2>1 DEF Busy
    <2>3. /\ WorkBooks' /\ worker' \in [Runs -> WorkerStates]
          /\ LoadTypes' /\ LoadBooks' /\ CodeStays'
        BY <1>1, <2>1, <2>2, MoveKeepsBooks DEF WorkerStates
    <2>4. done' \in BOOLEAN
        BY <1>3 DEF Signal
    <2>5. TypeOK'
        BY <1>1, <2>3, <2>4 DEF IInv, TypeOK, LoadTypes
    <2>6. FileBooks'
        BY <1>1, <1>2, <2>1, <2>2, AtWork DEF IInv, FileBooks, OwnExport, Early, Dumping
    <2>7. ConfigBooks'
        BY <1>1, <1>2, <2>1 DEF IInv, ConfigBooks, Early, Dumping
    <2>8. LiveAsAsked'
        BY <1>1, <1>2, <2>1 DEF IInv, LiveAsAsked
    <2> QED BY <2>3, <2>5, <2>6, <2>7, <2>8 DEF IInv
<1>4. CASE Signalled(w)
    <2>1. /\ worker[w] = "signalling" /\ done' = done
          /\ worker' = [worker EXCEPT ![w] = IF wlive[w] THEN "serving" ELSE "leaving"]
        BY <1>4 DEF Signalled, Moves, files
    <2>2. w \in Busy
        BY <2>1 DEF Busy
    <2>3. /\ WorkBooks' /\ worker' \in [Runs -> WorkerStates]
          /\ LoadTypes' /\ LoadBooks' /\ CodeStays'
        BY <1>1, <2>1, <2>2, MoveKeepsBooks DEF WorkerStates
    <2>5. TypeOK'
        BY <1>1, <2>1, <2>3 DEF IInv, TypeOK, LoadTypes
    <2>6. FileBooks'
        BY <1>1, <1>2, <2>1, <2>2, AtWork DEF IInv, FileBooks, OwnExport, Early, Dumping
    <2>7. ConfigBooks'
        BY <1>1, <1>2, <2>1 DEF IInv, ConfigBooks, Early, Dumping
    <2>8. LiveAsAsked'
        BY <1>1, <1>2, <2>1 DEF IInv, LiveAsAsked, ConfigBooks
    <2> QED BY <2>3, <2>5, <2>6, <2>7, <2>8 DEF IInv
<1> QED BY <1>3, <1>4

(* The pipe of a worker, from its creation to the end of the worker. *)
LEMMA PipeStepsKeepInv ==
    ASSUME IInv, NEW w \in Runs, CreatePipe(w) \/ Hangup(w) \/ Leave(w)
    PROVE  IInv'
<1>1. /\ UNCHANGED <<main, files, wlive, alive, load, gaveUp, overlap>>
      /\ UNCHANGED <<exe, run, live, peer, cfg, json, done>>
    BY DEF CreatePipe, Hangup, Leave, main, files
<1>2. PICK to \in {"listening", "leaving", "gone"} :
          /\ worker' = [worker EXCEPT ![w] = to]
          /\ worker[w] \in {"serving", "connected", "leaving"}
          /\ to = "listening" => worker[w] = "serving"
    <2>1. CASE CreatePipe(w)
        <3>1. CASE \E v \in Runs : worker[v] \in {"listening", "connected"}
            BY <2>1, <3>1 DEF CreatePipe, Moves
        <3>2. CASE ~ \E v \in Runs : worker[v] \in {"listening", "connected"}
            BY <2>1, <3>2 DEF CreatePipe, Moves
        <3> QED BY <3>1, <3>2
    <2>2. CASE Hangup(w) \/ Leave(w)
        BY <2>2 DEF Hangup, Leave, Moves
    <2> QED BY <2>1, <2>2
<1>3. worker \in [Runs -> WorkerStates]
    BY DEF IInv, TypeOK
<1>4. /\ WorkBooks' /\ worker' \in [Runs -> WorkerStates]
      /\ LoadTypes' /\ LoadBooks' /\ CodeStays'
    BY <1>1, <1>2, MoveKeepsBooks DEF WorkerStates
<1>5. TypeOK'
    BY <1>1, <1>4 DEF IInv, TypeOK, LoadTypes
<1>6. FileBooks'
    BY <1>1, <1>2, <1>3 DEF IInv, FileBooks, OwnExport, Early, Dumping
<1>7. ConfigBooks'
    BY <1>1, <1>2, <1>3 DEF IInv, ConfigBooks, Early, Dumping
<1>8. LiveAsAsked'
    BY <1>1, <1>2, <1>3 DEF IInv, LiveAsAsked
<1> QED BY <1>4, <1>5, <1>6, <1>7, <1>8 DEF IInv
-----------------------------------------------------------------------------
(* The thread that loads a worker goes on, or ends by itself. *)
LEMMA LoadingKeepsInv ==
    ASSUME IInv, NEW w \in Runs, Loads(w) \/ LoadFails(w) \/ Returns(w)
    PROVE  IInv'
<1>1. /\ UNCHANGED <<main, files, wlive, alive, image, shell, gaveUp, overlap>>
      /\ UNCHANGED <<exe, run, live, peer, cfg, json, done>>
    BY DEF Loads, LoadFails, Returns, main, files, load
<1>2. worker \in [Runs -> WorkerStates] /\ LoadTypes
    BY DEF IInv, TypeOK, LoadTypes
<1>3. CASE Loads(w)
    <2>1. worker[w] = "mapping" /\ worker' = [worker EXCEPT ![w] = "loaded"] /\ UNCHANGED load
        BY <1>3 DEF Loads, Moves
    <2>2. w \in Busy
        BY <2>1 DEF Busy
    <2>3. /\ WorkBooks' /\ worker' \in [Runs -> WorkerStates]
          /\ LoadTypes' /\ LoadBooks' /\ CodeStays'
        BY <1>1, <2>1, <2>2, MoveKeepsBooks DEF WorkerStates
    <2>4. TypeOK'
        BY <1>1, <2>3 DEF IInv, TypeOK, LoadTypes
    <2>5. FileBooks'
        BY <1>1, <1>2, <2>1, <2>2, AtWork DEF IInv, FileBooks, OwnExport, Early, Dumping
    <2>6. ConfigBooks' /\ LiveAsAsked'
        BY <1>1, <1>2, <2>1 DEF IInv, ConfigBooks, LiveAsAsked, Early, Dumping
    <2> QED BY <2>3, <2>4, <2>5, <2>6 DEF IInv
<1>4. CASE LoadFails(w)
    <2>1. /\ worker[w] = "mapping" /\ worker' = [worker EXCEPT ![w] = "gone"]
          /\ thread' = [thread EXCEPT ![w] = "failed"] /\ thread[w] = "inside"
        BY <1>4 DEF LoadFails, Moves, IInv, LoadBooks
    <2>2. worker' \in [Runs -> WorkerStates] /\ thread' \in [Runs -> ThreadStates]
        BY <1>2, <2>1 DEF WorkerStates, ThreadStates, LoadTypes
    <2>3. TypeOK'
        BY <1>1, <2>2 DEF IInv, TypeOK
    <2>4. Busy' \subseteq Busy
        BY <1>2, <2>1 DEF Busy
    <2>5. WorkBooks'
        BY <1>1, <1>2, <2>1, <2>4 DEF IInv, WorkBooks
    <2>6. FileBooks'
        BY <1>1, <1>2, <2>1 DEF IInv, FileBooks, OwnExport, Early, Dumping
    <2>7. ConfigBooks' /\ LiveAsAsked'
        BY <1>1, <1>2, <2>1 DEF IInv, ConfigBooks, LiveAsAsked, Early, Dumping
    <2>8. LoadBooks' /\ CodeStays'
        BY <1>1, <1>2, <2>1 DEF IInv, LoadBooks, CodeStays, LoadTypes
    <2> QED BY <2>3, <2>5, <2>6, <2>7, <2>8 DEF IInv
<1>5. CASE Returns(w)
    <2>1. /\ worker' = worker /\ worker[w] # "mapping" /\ thread[w] = "inside"
          /\ thread' = [thread EXCEPT ![w] = "over"]
        BY <1>5 DEF Returns
    <2>2. thread' \in [Runs -> ThreadStates]
        BY <1>2, <2>1 DEF ThreadStates, LoadTypes
    <2>3. TypeOK'
        BY <1>1, <2>1, <2>2 DEF IInv, TypeOK
    <2>4. WorkBooks' /\ FileBooks' /\ ConfigBooks' /\ LiveAsAsked'
        BY <1>1, <2>1 DEF IInv, WorkBooks, FileBooks, OwnExport, ConfigBooks, LiveAsAsked, Busy
    <2>5. LoadBooks' /\ CodeStays'
        BY <1>1, <1>2, <2>1 DEF IInv, LoadBooks, CodeStays, LoadTypes
    <2> QED BY <2>3, <2>4, <2>5 DEF IInv
<1> QED BY <1>3, <1>4, <1>5
-----------------------------------------------------------------------------
(* The game ends, and all its threads with it, or starts. *)
LEMMA GameKeepsInv ==
    ASSUME IInv, GameGone \/ GameStarts
    PROVE  IInv'
<1>1. /\ UNCHANGED <<main, files, wlive, image, shell, gaveUp, overlap>>
      /\ UNCHANGED <<exe, run, live, peer, cfg, json, done>>
      /\ alive' \in BOOLEAN
    BY DEF GameGone, GameStarts, main, files, load
<1>2. worker \in [Runs -> WorkerStates] /\ thread \in [Runs -> ThreadStates]
    BY DEF IInv, TypeOK
<1>3. /\ worker' \in [Runs -> WorkerStates]
      /\ \A w \in Runs : worker'[w] = worker[w] \/ (worker[w] # "none" /\ worker'[w] = "gone")
    BY <1>2 DEF GameGone, GameStarts, WorkerStates
<1>9. /\ thread' \in [Runs -> ThreadStates]
      /\ \A w \in Runs : thread'[w] = thread[w] \/ (thread[w] = "inside" /\ thread'[w] = "dead")
      /\ thread' = thread \/ \A w \in Runs : worker'[w] # "mapping"
    BY <1>2 DEF GameGone, GameStarts, ThreadStates, load
<1>4. TypeOK'
    BY <1>1, <1>3, <1>9 DEF IInv, TypeOK
<1>5. WorkBooks'
    <2>1. Busy' \subseteq Busy
        BY <1>3 DEF Busy
    <2> QED BY <1>1, <1>3, <2>1 DEF IInv, WorkBooks
<1>6. FileBooks'
    <2>1. exe \notin {"off", "opening", "live"} => run \in Runs
        BY DEF IInv, WorkBooks
    <2> QED BY <1>1, <1>3, <2>1 DEF IInv, FileBooks, OwnExport, Early, Dumping
<1>7. ConfigBooks'
    BY <1>1, <1>3 DEF IInv, ConfigBooks, Early, Dumping
<1>8. LiveAsAsked'
    BY <1>1, <1>3 DEF IInv, LiveAsAsked
<1>10. LoadBooks'
    <2>1. exe \notin {"off", "opening", "live"} => run \in Runs
        BY DEF IInv, WorkBooks
    <2>2. \A w \in Runs : worker'[w] = "mapping" => thread'[w] = "inside"
        BY <1>3, <1>9 DEF IInv, LoadBooks
    <2> QED BY <1>1, <1>9, <2>1, <2>2 DEF IInv, LoadBooks
<1>11. CodeStays'
    BY <1>1, <1>3, <1>9 DEF IInv, CodeStays
<1> QED BY <1>4, <1>5, <1>6, <1>7, <1>8, <1>10, <1>11 DEF IInv

LEMMA NextInv == IInv /\ [Next]_vars => IInv'
<1> SUFFICES ASSUME IInv, [Next]_vars PROVE IInv'
    OBVIOUS
<1>1. CASE \E l \in BOOLEAN : Begin(l)
    BY <1>1, BeginKeepsInv
<1>2. CASE DeleteDone \/ DeleteJson \/ Configure
    BY <1>2, PrepareKeepsInv
<1>3. CASE Inject
    BY <1>3, InjectKeepsInv
<1>4. CASE Connect
    BY <1>4, ConnectKeepsInv
<1>5. CASE BeginWithSchema \/ SeesDone \/ TimesOut \/ Parse \/ Generated \/ NoPipe \/ Fails \/ Ends
    BY <1>5, MainStepsKeepInv
<1>6. ASSUME NEW w \in Runs, Worker(w) PROVE IInv'
    BY <1>6, ReadConfigKeepsInv, CleanUpKeepsInv, GivesUpKeepsInv, OpenExportKeepsInv,
        CloseExportKeepsInv, SignalKeepsInv, PipeStepsKeepInv DEF Worker
<1>7. CASE GameEnds \/ GameStarts
    BY <1>7, GameKeepsInv DEF GameEnds
<1>9. CASE Injected \/ InjectionFails \/ InjectionTimesOut
    BY <1>9, InjectionKeepsInv
<1>10. ASSUME NEW w \in Runs, Loading(w) PROVE IInv'
    BY <1>10, LoadingKeepsInv, GameKeepsInv DEF Loading, Faults
<1>8. CASE UNCHANGED vars
    <2>1. /\ UNCHANGED <<exe, run, live, peer, cfg, json, done, worker, wlive, alive, gaveUp, overlap>>
          /\ UNCHANGED <<thread, image, shell>>
        BY <1>8 DEF vars, main, files, game, load
    <2>5. LoadBooks' /\ CodeStays'
        BY <2>1 DEF IInv, LoadBooks, CodeStays
    <2>2. TypeOK' /\ LiveAsAsked'
        BY <2>1 DEF IInv, TypeOK, LiveAsAsked
    <2>3. WorkBooks' /\ ConfigBooks'
        BY <2>1 DEF IInv, WorkBooks, ConfigBooks, Busy
    <2>4. FileBooks'
        BY <2>1 DEF IInv, FileBooks, OwnExport
    <2> QED BY <2>2, <2>3, <2>4, <2>5 DEF IInv
<1> QED BY <1>1, <1>2, <1>3, <1>4, <1>5, <1>6, <1>7, <1>8, <1>9, <1>10 DEF Next, Exe

(* The invariant holds of the whole handshake. *)
THEOREM InvAlways == Spec => []IInv
BY InitInv, NextInv, PTL DEF Spec

(* When the exe of a run without overlap reads the export, it is the whole  *)
(* export of its own worker, or its worker had none.                       *)
THEOREM ExportReadyCorrect == Spec => []ExportReady
<1>1. IInv => ExportReady
    BY DEF IInv, FileBooks, ExportReady
<1> QED BY <1>1, InvAlways, PTL

(* No thread of the game loses the code it runs in while its exe goes on;    *)
(* nor does a worker, whatever its exe does.                               *)
THEOREM CodeStaysCorrect == Spec => []CodeStays
<1>1. IInv => CodeStays
    BY DEF IInv
<1> QED BY <1>1, InvAlways, PTL

(* A worker stays in the game only if its own exe was started with --live,  *)
(* unless runs overlap.                                                    *)
THEOREM LiveAsAskedCorrect == Spec => []LiveAsAsked
<1>1. IInv => LiveAsAsked
    BY DEF IInv
<1> QED BY <1>1, InvAlways, PTL
=============================================================================
