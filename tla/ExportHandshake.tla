-------------------------- MODULE ExportHandshake --------------------------
(***************************************************************************)
(* How the exe gets the export of the worker it starts in the game:        *)
(* main() of src/main.cpp on one side, worker_thread() and the beginning   *)
(* of run_pipe_server() of src/worker.cpp on the other.  They share three  *)
(* files in %TEMP% (dezlock-live.cfg, dezlock-export.json, dezlock-done)    *)
(* and one named pipe, and know nothing else of each other.                *)
(*                                                                         *)
(* The exe is started again and again, one at a time; it may be closed at  *)
(* any moment, and a worker it has started then goes on alone.  Worker w   *)
(* is the one that run w of the exe starts.                                *)
(***************************************************************************)
EXTENDS Naturals, FiniteSets

CONSTANTS
    MaxRuns,  \* bound: times the exe is started
    None

Runs == 1..MaxRuns

(* Export 0 is one that was left before the first run. *)
Exports == [by : Runs \cup {0}, state : {"part", "whole", "mixed"}]

ASSUME HandshakeAssumption == MaxRuns \in Nat /\ None \notin Exports

VARIABLES
    exe,      \* where main() is
    run,      \* times started
    live,     \* live[r]: run r was started with --live
    peer,     \* the worker whose pipe the exe has open, or 0
    cfg,      \* dezlock-live.cfg exists
    json,     \* dezlock-export.json, or None
    done,     \* dezlock-done exists
    worker,   \* worker[w]: where worker_thread() is
    wlive,    \* worker w has found the live configuration
    alive,    \* the game runs
    thread,   \* thread[w]: the thread that loads worker w
    image,    \* image[w]: the memory of its DLL
    shell,    \* shell[w]: the page that its loading thread runs in
    gaveUp,   \* history: workers that had nothing to export
    overlap   \* history: runs and workers of which one began before another was ready

files == <<cfg, json, done>>
main  == <<exe, run, live, peer>>
load  == <<thread, image, shell>>
game  == <<worker, wlive, alive, load, gaveUp>>
vars  == <<main, files, game, overlap>>

ExeStates == {"off", "begun", "nodone", "clean", "configured", "injecting", "polling", "reading",
              "generating", "connecting", "opening", "nopipe", "live"}
WorkerStates == {"none", "mapping", "loaded", "configured", "dumping", "writing", "ready", "signalling",
                 "serving", "listening", "connected", "leaving", "gone"}
ThreadStates == {"none", "inside", "over", "failed", "dead"}
MemoryStates == {"none", "held", "freed"}

WholeOf(w) == [by |-> w, state |-> "whole"]
PartOf(w)  == [by |-> w, state |-> "part"]
Whole == {WholeOf(w) : w \in Runs \cup {0}}

(* Workers that have still to touch the files. *)
Busy == {w \in Runs :
           worker[w] \in {"mapping", "loaded", "configured", "dumping", "writing", "ready", "signalling"}}

TypeOK ==
    /\ exe \in ExeStates
    /\ run \in 0..MaxRuns
    /\ live \in [Runs -> BOOLEAN]
    /\ peer \in Runs \cup {0}
    /\ cfg \in BOOLEAN
    /\ json \in Exports \cup {None}
    /\ done \in BOOLEAN
    /\ worker \in [Runs -> WorkerStates]
    /\ wlive \in [Runs -> BOOLEAN]
    /\ alive \in BOOLEAN
    /\ thread \in [Runs -> ThreadStates]
    /\ image \in [Runs -> MemoryStates] /\ shell \in [Runs -> MemoryStates]
    /\ gaveUp \subseteq Runs
    /\ overlap \subseteq Runs

(* All three files may be left from earlier use. *)
Init ==
    /\ exe = "off" /\ run = 0 /\ live = [r \in Runs |-> FALSE] /\ peer = 0
    /\ cfg \in BOOLEAN /\ done \in BOOLEAN /\ json \in {None, WholeOf(0), PartOf(0)}
    /\ worker = [w \in Runs |-> "none"] /\ wlive = [w \in Runs |-> FALSE]
    /\ thread = [w \in Runs |-> "none"]
    /\ image = [w \in Runs |-> "none"] /\ shell = [w \in Runs |-> "none"]
    /\ alive \in BOOLEAN /\ gaveUp = {} /\ overlap = {}
-----------------------------------------------------------------------------
(* The exe. *)
Go(from, to) == exe = from /\ exe' = to

Begin(l) ==
    /\ run < MaxRuns
    /\ Go("off", "begun")
    /\ run' = run + 1
    /\ live' = [live EXCEPT ![run + 1] = l]
    /\ overlap' = overlap \cup Busy \cup (IF Busy = {} THEN {} ELSE {run + 1})
    /\ UNCHANGED <<peer, files, game>>

(* --schema: straight to the live server with an old export.  No worker is   *)
(* started, but the pipe of one that still listens is opened.              *)
BeginWithSchema ==
    /\ Go("off", "opening")
    /\ UNCHANGED <<run, live, peer, files, game, overlap>>

(* Variant: the old export is deleted, but not the old marker. *)
DeleteDoneForgotten ==
    /\ Go("begun", "nodone")
    /\ UNCHANGED <<run, live, peer, files, game, overlap>>

(* DeleteFile does nothing to a file that another process has open. *)
RemoveDone == done' = (done /\ \E w \in Runs : worker[w] = "signalling")

DeleteDone ==
    /\ Go("begun", "nodone")
    /\ RemoveDone
    /\ UNCHANGED <<run, live, peer, cfg, json, game, overlap>>

DeleteJson ==
    /\ Go("nodone", "clean")
    /\ json' = IF \E w \in Runs : worker[w] = "writing" THEN json ELSE None
    /\ UNCHANGED <<run, live, peer, cfg, done, game, overlap>>

(* Variant: without --live an old configuration stays. *)
ConfigureKeepsOld ==
    /\ Go("clean", "configured")
    /\ cfg' = (cfg \/ live[run])
    /\ UNCHANGED <<run, live, peer, json, done, game, overlap>>

(* dezlock-live.cfg is written, or an old one removed. *)
Configure ==
    /\ Go("clean", "configured")
    /\ cfg' = live[run]
    /\ UNCHANGED <<run, live, peer, json, done, game, overlap>>

(* mmap_inject: with both in place, the thread is started. *)
Inject ==
    /\ alive
    /\ Go("configured", "injecting")
    /\ worker' = [worker EXCEPT ![run] = "mapping"]
    /\ thread' = [thread EXCEPT ![run] = "inside"]
    /\ image' = [image EXCEPT ![run] = "held"]
    /\ shell' = [shell EXCEPT ![run] = "held"]
    /\ UNCHANGED <<run, live, peer, files, wlive, alive, gaveUp, overlap>>

(* The thread has ended with 0, as it may when the game itself ends, whose   *)
(* memory then reads as no error.  Image and page stay in the game.        *)
Injected ==
    /\ Go("injecting", "polling")
    /\ thread[run] \in {"over", "dead"}
    /\ UNCHANGED <<run, live, peer, files, game, overlap>>

FreePage == shell' = [shell EXCEPT ![run] = "freed"]

(* The thread has reported an error, or ended with one. *)
InjectionFails ==
    /\ Go("injecting", "off")
    /\ thread[run] \in {"failed", "dead"}
    /\ FreePage
    /\ UNCHANGED <<run, live, peer, files, worker, wlive, alive, thread, image, gaveUp, overlap>>

(* Variant: the image is given back as well. *)
InjectionTimesOutFreesAll ==
    /\ Go("injecting", "off")
    /\ thread[run] = "inside"
    /\ FreePage
    /\ image' = [image EXCEPT ![run] = "freed"]
    /\ UNCHANGED <<run, live, peer, files, worker, wlive, alive, thread, gaveUp, overlap>>

(* WaitForSingleObject times out, or fails: the page is freed under a        *)
(* thread that goes on.                                                    *)
InjectionTimesOut ==
    /\ Go("injecting", "off")
    /\ thread[run] = "inside"
    /\ FreePage
    /\ UNCHANGED <<run, live, peer, files, worker, wlive, alive, thread, image, gaveUp, overlap>>

SeesDone ==
    /\ done
    /\ Go("polling", "reading")
    /\ UNCHANGED <<run, live, peer, files, game, overlap>>

(* Variant: the exe waits as long as there is no game. *)
TimesOutIfAlive ==
    /\ ~done /\ alive
    /\ Go("polling", "off")
    /\ UNCHANGED <<run, live, peer, files, game, overlap>>

TimesOut ==
    /\ ~done
    /\ Go("polling", "off")
    /\ UNCHANGED <<run, live, peer, files, game, overlap>>

(* An export that is written just now does not parse; one that two workers  *)
(* have written at a time may do so.                                       *)
Parse ==
    /\ json # None /\ json.state # "part"
    /\ Go("reading", "generating")
    /\ UNCHANGED <<run, live, peer, files, game, overlap>>

(* The output is written and the marker removed. *)
Generated ==
    /\ Go("generating", IF live[run] THEN "connecting" ELSE "off")
    /\ RemoveDone
    /\ UNCHANGED <<run, live, peer, cfg, json, game, overlap>>

Listening == {w \in Runs : worker[w] = "listening"}

(* PipeClient::connect: WaitNamedPipe and CreateFile. *)
Connect ==
    /\ \E w \in Listening : /\ peer' = w
                            /\ worker' = [worker EXCEPT ![w] = "connected"]
    /\ Go("connecting", "live") \/ Go("opening", "live")
    /\ UNCHANGED <<run, live, files, wlive, alive, load, gaveUp, overlap>>

(* Nobody listens: WaitNamedPipe waits for an instance that is in use, but  *)
(* fails at once when there is none.  With --schema no pipe is needed.      *)
NoPipe ==
    /\ Listening = {}
    /\ Go("connecting", "nopipe") \/ Go("opening", "live")
    /\ UNCHANGED <<run, live, peer, files, game, overlap>>

(* An early return of main(), from wherever it cannot go on. *)
Fails ==
    /\ \/ exe = "configured"
       \/ exe = "reading" /\ json \notin Whole
       \/ exe \in {"generating", "opening", "nopipe"}
    /\ exe' = "off"
    /\ UNCHANGED <<run, live, peer, files, game, overlap>>

(* Ctrl+C, a closed console, or the end of the process. *)
Ends ==
    /\ exe # "off"
    /\ exe' = "off" /\ peer' = 0
    /\ UNCHANGED <<run, live, files, game, overlap>>

Exe == \/ \E l \in BOOLEAN : Begin(l)
       \/ BeginWithSchema \/ DeleteDone \/ DeleteJson \/ Configure
       \/ Inject \/ Injected \/ InjectionFails \/ InjectionTimesOut \/ SeesDone \/ TimesOut
       \/ Parse \/ Generated \/ Connect \/ NoPipe \/ Fails \/ Ends
-----------------------------------------------------------------------------
(* The game and its workers. *)
Moves(w, from, to) == worker[w] = from /\ worker' = [worker EXCEPT ![w] = to]

(* target_shellcode calls DllMain, which creates the thread of the worker.   *)
(* It may be in a call of its own, out of the page, while that is freed.   *)
Loads(w) ==
    /\ Moves(w, "mapping", "loaded")
    /\ UNCHANGED <<main, files, wlive, alive, load, gaveUp, overlap>>

(* It finds no library, function or module to load, and reports so. *)
LoadFails(w) ==
    /\ Moves(w, "mapping", "gone")
    /\ shell[w] = "held"
    /\ thread' = [thread EXCEPT ![w] = "failed"]
    /\ UNCHANGED <<main, files, wlive, alive, image, shell, gaveUp, overlap>>

(* It returns, beside the thread that it has created. *)
Returns(w) ==
    /\ thread[w] = "inside" /\ worker[w] # "mapping" /\ shell[w] = "held"
    /\ thread' = [thread EXCEPT ![w] = "over"]
    /\ UNCHANGED <<main, files, worker, wlive, alive, image, shell, gaveUp, overlap>>

ReadConfig(w) ==
    /\ Moves(w, "loaded", "configured")
    /\ wlive' = [wlive EXCEPT ![w] = cfg]
    /\ cfg' = FALSE
    /\ UNCHANGED <<main, json, done, alive, load, gaveUp, overlap>>

CleanUp(w) ==
    /\ Moves(w, "configured", "dumping")
    /\ RemoveDone
    /\ UNCHANGED <<main, cfg, json, wlive, alive, load, gaveUp, overlap>>

(* goto done: client.dll or the schema system is not there. *)
GivesUp(w) ==
    /\ Moves(w, "dumping", "ready")
    /\ gaveUp' = gaveUp \cup {w}
    /\ UNCHANGED <<main, files, wlive, alive, load, overlap>>

(* The phases of the dump; write_export opens the file. *)
OpenExport(w) ==
    /\ Moves(w, "dumping", "writing")
    /\ json' = PartOf(w)
    /\ UNCHANGED <<main, cfg, done, wlive, alive, load, gaveUp, overlap>>

CloseExport(w) ==
    /\ Moves(w, "writing", "ready")
    /\ json' = IF /\ json = PartOf(w)
                  /\ \A v \in Runs \ {w} : worker[v] # "writing"
               THEN WholeOf(w)
               ELSE [by |-> w, state |-> "mixed"]
    /\ UNCHANGED <<main, cfg, done, wlive, alive, load, gaveUp, overlap>>

(* Variant: the marker is put down when the export is begun. *)
SignalEarly(w) ==
    /\ \/ Moves(w, "writing", "signalling")
       \/ Moves(w, "ready", "signalling")
    /\ done' = TRUE
    /\ UNCHANGED <<main, cfg, json, wlive, alive, load, gaveUp, overlap>>

(* The marker is created, and is there from then on. *)
Signal(w) ==
    /\ Moves(w, "ready", "signalling")
    /\ done' = TRUE
    /\ UNCHANGED <<main, cfg, json, wlive, alive, load, gaveUp, overlap>>

Signalled(w) ==
    /\ Moves(w, "signalling", IF wlive[w] THEN "serving" ELSE "leaving")
    /\ UNCHANGED <<main, files, wlive, alive, load, gaveUp, overlap>>

(* CreateNamedPipe, of which there is one instance. *)
CreatePipe(w) ==
    /\ Moves(w, "serving", IF \E v \in Runs : worker[v] \in {"listening", "connected"}
                           THEN "leaving" ELSE "listening")
    /\ UNCHANGED <<main, files, wlive, alive, load, gaveUp, overlap>>

(* Variant: the worker waits for the shutdown command, which only an exe     *)
(* that lives can send.                                                    *)
HangupOnCommand(w) ==
    /\ peer # w /\ exe = "live"
    /\ Moves(w, "connected", "leaving")
    /\ UNCHANGED <<main, files, wlive, alive, load, gaveUp, overlap>>

(* run_pipe_server: the exe has sent its shutdown command or is gone. *)
Hangup(w) ==
    /\ peer # w
    /\ Moves(w, "connected", "leaving")
    /\ UNCHANGED <<main, files, wlive, alive, load, gaveUp, overlap>>

(* FreeLibraryAndExitThread. *)
Leave(w) ==
    /\ Moves(w, "leaving", "gone")
    /\ UNCHANGED <<main, files, wlive, alive, load, gaveUp, overlap>>

(* All threads of the game end with it. *)
GameGone ==
    /\ alive' = FALSE
    /\ worker' = [w \in Runs |-> IF worker[w] = "none" THEN "none" ELSE "gone"]
    /\ thread' = [w \in Runs |-> IF thread[w] = "inside" THEN "dead" ELSE thread[w]]
    /\ UNCHANGED <<main, files, wlive, image, shell, gaveUp, overlap>>

(* The loading thread goes on in a page that is no more. *)
Faults(w) == thread[w] = "inside" /\ shell[w] = "freed" /\ GameGone

Loading(w) == Loads(w) \/ LoadFails(w) \/ Returns(w) \/ Faults(w)

Worker(w) == \/ ReadConfig(w) \/ CleanUp(w) \/ GivesUp(w) \/ OpenExport(w) \/ CloseExport(w)
             \/ Signal(w) \/ Signalled(w) \/ CreatePipe(w) \/ Hangup(w) \/ Leave(w)

(* The game ends; it may be started again. *)
GameEnds == alive /\ GameGone

GameStarts ==
    /\ ~alive
    /\ alive' = TRUE
    /\ UNCHANGED <<main, files, worker, wlive, load, gaveUp, overlap>>

Next == Exe \/ (\E w \in Runs : Loading(w) \/ Worker(w)) \/ GameEnds \/ GameStarts

Spec == Init /\ [][Next]_vars

(* What main() does by itself, and the threads it starts in the game, are     *)
(* scheduled; the timeout elapses.                                         *)
MainGoesOn == DeleteDone \/ DeleteJson \/ Configure
              \/ Inject \/ Injected \/ InjectionFails \/ InjectionTimesOut \/ SeesDone \/ TimesOut
              \/ Parse \/ Generated \/ Connect \/ NoPipe \/ Fails

FairSpec == Spec /\ WF_vars(MainGoesOn) /\ \A w \in Runs : WF_vars(Loading(w)) /\ WF_vars(Worker(w))
-----------------------------------------------------------------------------
(* PROPERTIES *)

(* What the exe is to find: the whole export of its own worker, or nothing  *)
(* because its worker had nothing to export.                               *)
OwnExport == json = WholeOf(run) \/ (json = None /\ run \in gaveUp)

(* When the exe reads the export, it is that of its own worker, whatever    *)
(* was left by earlier runs and wherever the game may have ended.  Only if   *)
(* an earlier worker was still at work when this run began, the files say   *)
(* nothing.                                                                *)
ExportReady == exe = "reading" /\ run \notin overlap => OwnExport

(* A worker stays in the game after its dump only if its own exe was        *)
(* started with --live, although a run that fails before the injection      *)
(* leaves its configuration behind.                                        *)
LiveAsAsked ==
    \A w \in Runs \ overlap :
        worker[w] \in {"serving", "listening", "connected"} => live[w]

Dumping == {"mapping", "loaded", "configured", "dumping"}
Early   == Dumping \cup {"writing", "ready"}

(* Who may be at work: the worker of the present run, and those of runs      *)
(* that overlap.                                                           *)
WorkBooks ==
    /\ exe \notin {"off", "opening", "live"} => run \in Runs
    /\ \A w \in Runs : w > run => worker[w] = "none" /\ w \notin overlap
    /\ exe \in {"begun", "nodone", "clean", "configured"} => worker[run] = "none"
    /\ \A w \in Busy : w = run \/ (w \in overlap /\ run \in overlap)

(* What the files are while the exe of a run without overlap waits. *)
FileBooks == run \notin overlap =>
    /\ exe \in {"nodone", "clean", "configured"} => ~done
    /\ exe \in {"clean", "configured"} => json = None
    /\ exe \in {"injecting", "polling"} =>
          /\ worker[run] \in Early => ~done
          /\ worker[run] \in Dumping => json = None
          /\ worker[run] = "writing" => json = PartOf(run)
          /\ worker[run] \in {"ready", "signalling"} => OwnExport
          /\ done => OwnExport
    /\ exe = "reading" => worker[run] \notin Early /\ OwnExport

(* What each worker finds, or has found, of its configuration. *)
ConfigBooks ==
    /\ exe = "configured" /\ run \notin overlap => cfg = live[run]
    /\ \A w \in Runs \ overlap :
          /\ worker[w] \in {"mapping", "loaded"} => cfg = live[w]
          /\ worker[w] \in (Early \ {"mapping", "loaded"}) \cup {"signalling"} => wlive[w] = live[w]

(* What threads of the game run in is there: the DLL of a worker as long as  *)
(* it runs, however its injection ended; and the page of a loading thread    *)
(* as long as its exe goes on, which only a run that has ended may have      *)
(* freed under it.                                                         *)
CodeStays ==
    \A w \in Runs :
        /\ worker[w] \notin {"none", "gone"} => image[w] = "held"
        /\ thread[w] = "inside" /\ shell[w] # "held" =>
              ~(w = run /\ exe \in {"injecting", "polling", "reading", "generating", "connecting", "nopipe"})

(* An exe that waits has started its thread; one that goes on has seen its end. *)
LoadBooks ==
    /\ exe = "injecting" => thread[run] # "none"
    /\ exe \in {"polling", "reading", "generating", "connecting", "nopipe"} =>
          thread[run] \in {"over", "dead"}
    /\ \A w \in Runs : worker[w] = "mapping" => thread[w] = "inside"

(* The files, the exe and the workers agree at every step of the handshake. *)
IInv == TypeOK /\ WorkBooks /\ FileBooks /\ ConfigBooks /\ LiveAsAsked
        /\ LoadBooks /\ CodeStays

(* The exe comes to an end or to its live session; it does not wait for a   *)
(* worker that is no more.                                                 *)
ExeGetsOn == exe = "begun" ~> exe \in {"off", "live"}

(* A worker that no exe is connected to comes to its end, whatever became   *)
(* of its exe and of the other workers, unless it waits for one to open its *)
(* pipe.                                                                   *)
UnloadsOrListens ==
    \A w \in Runs :
        worker[w] # "none" /\ peer # w ~> worker[w] \in {"gone", "listening"}
=============================================================================
