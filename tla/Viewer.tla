------------------------------- MODULE Viewer -------------------------------
(***************************************************************************)
(* The MuJoCo program's threads around the physics data: the physics       *)
(* thread (mujoco_utils.hpp, PhysicsThread), the render thread             *)
(* (simulate.cc, Simulate::RenderLoop), which is the thread that           *)
(* constructed RL_Sim, and the control loop.  Data is named by the number  *)
(* of the load that made it, 0 for a null pointer.                         *)
(*                                                                         *)
(* What a step, a frame or a control cycle computes is left out: it uses   *)
(* the data, and the properties ask whether the data is still there.       *)
(***************************************************************************)
EXTENDS Naturals

CONSTANTS
    MaxLoads,       \* models loaded in a run of the program
    MaxReloads      \* presses of Reload that wait

\* The least that makes sense; the runs assume it.
ViewerAssumption == {MaxLoads, MaxReloads} \subseteq Nat \ {0}

VARIABLES
    mtx,                \* Simulate::mtx: "none", or the thread that holds it
    loadrequest,        \* 3 message, 2 asked, 1 about to load, 0 done
    droploadrequest, uiloadrequest, exitrequest,
    run,                \* Simulate::run
    physics,            \* what the physics thread does next
    kind,               \* of its load: "boot", "drop" or "ui"
    loads,              \* models loaded so far
    live,               \* the data that is allocated
    d,                  \* the physics thread's data
    dnew_, d_,          \* Simulate's data: offered, and shown
    render,             \* what the render thread does next
    closing,            \* the window was closed
    mj_data,            \* RL_Sim's data
    simulation_running, \* RL_Sim's idea of `run'
    control             \* the control loop: "off", "idle", "cycle", "stopped"

requests == <<loadrequest, droploadrequest, uiloadrequest, exitrequest>>
data == <<loads, live, d, dnew_, d_, mj_data>>
flags == <<run, simulation_running, closing>>
threads == <<physics, kind, render, control>>
vars == <<mtx, requests, data, flags, threads>>

Init ==
    /\ mtx = "none"
    /\ loadrequest = 0 /\ droploadrequest = FALSE
    /\ uiloadrequest = 0 /\ exitrequest = 0
    /\ run = TRUE /\ simulation_running = TRUE /\ closing = FALSE
    /\ physics = "message" /\ kind = "boot"
    /\ loads = 0 /\ live = {}
    /\ d = 0 /\ dnew_ = 0 /\ d_ = 0 /\ mj_data = 0
    /\ render = "off" /\ control = "off"

Free == mtx = "none"
-----------------------------------------------------------------------------
(* The physics thread.                                                     *)

\* Where PhysicsThread or PhysicsLoop goes on after a load.
AfterLoad == CASE kind = "boot" -> "loop" [] kind = "drop" -> "ui"
               [] kind = "ui" -> "step"

\* The test of exitrequest and of a dropped file; at the end the data is
\* deleted without the lock.
LoopTop ==
    /\ physics = "loop"
    /\ IF exitrequest # 0
       THEN physics' = "done" /\ live' = live \ {d} /\ UNCHANGED kind
       ELSE /\ IF droploadrequest
               THEN physics' = "message" /\ kind' = "drop"
               ELSE physics' = "ui" /\ UNCHANGED kind
            /\ UNCHANGED live
    /\ UNCHANGED <<mtx, requests, loads, d, dnew_, d_, mj_data, flags, render,
                   control>>

UiRequest ==
    /\ physics = "ui"
    /\ IF uiloadrequest > 0
       THEN /\ uiloadrequest' = uiloadrequest - 1
            /\ physics' = "message" /\ kind' = "ui"
       ELSE physics' = "step" /\ UNCHANGED <<uiloadrequest, kind>>
    /\ UNCHANGED <<mtx, loadrequest, droploadrequest, exitrequest, data, flags,
                   render, control>>

LoadMessage ==
    /\ physics = "message" /\ Free
    /\ loadrequest' = 3
    /\ physics' = "model"
    /\ UNCHANGED <<mtx, droploadrequest, uiloadrequest, exitrequest, data, flags,
                   kind, render, control>>

\* LoadModel and mj_makeData; a warning of the compiler pauses.
LoadModel(ok) ==
    /\ physics = "model"
    /\ IF ok
       THEN /\ loads < MaxLoads
            /\ loads' = loads + 1 /\ live' = live \cup {loads + 1}
            /\ physics' = IF kind = "boot" THEN "data" ELSE "load"
            /\ run' \in {run, FALSE}
       ELSE physics' = "clear" /\ UNCHANGED <<loads, live, run>>
    /\ droploadrequest' = (droploadrequest /\ kind # "drop")
    /\ UNCHANGED <<mtx, loadrequest, uiloadrequest, exitrequest, d, dnew_, d_,
                   mj_data, simulation_running, closing, kind, render, control>>

\* The first data is published before the viewer is told of it.
MakeData ==
    /\ physics = "data" /\ Free
    /\ d' = loads
    /\ physics' = "load"
    /\ UNCHANGED <<mtx, requests, loads, live, dnew_, d_, mj_data, flags, kind,
                   render, control>>

Load ==
    /\ physics = "load" /\ Free
    /\ dnew_' = loads
    /\ loadrequest' = 2
    /\ physics' = "wait"
    /\ UNCHANGED <<mtx, droploadrequest, uiloadrequest, exitrequest, loads, live,
                   d, d_, mj_data, flags, kind, render, control>>

\* Mutant: Load does not wait for the render thread.
LoadedAtOnce ==
    /\ physics = "wait" /\ Free
    /\ physics' = IF kind = "boot" THEN "loop" ELSE "swap"
    /\ UNCHANGED <<mtx, requests, data, flags, kind, render, control>>

\* The wait on cond_loadrequest ends.
Loaded ==
    /\ physics = "wait" /\ Free
    /\ loadrequest = 0
    /\ physics' = IF kind = "boot" THEN "loop" ELSE "swap"
    /\ UNCHANGED <<mtx, requests, data, flags, kind, render, control>>

\* The old data is deleted, under the lock.
Swap ==
    /\ physics = "swap" /\ Free
    /\ live' = live \ {d}
    /\ d' = loads
    /\ physics' = AfterLoad
    /\ UNCHANGED <<mtx, requests, loads, dnew_, d_, mj_data, flags, kind, render,
                   control>>

LoadMessageClear ==
    /\ physics = "clear" /\ Free
    /\ loadrequest' = 0
    /\ physics' = AfterLoad
    /\ UNCHANGED <<mtx, droploadrequest, uiloadrequest, exitrequest, data, flags,
                   kind, render, control>>

\* The physics steps, or mj_forward while paused; a diverged step pauses.
Step ==
    /\ physics = "step" /\ Free
    /\ physics' = "loop"
    /\ run' \in IF d # 0 THEN {run, FALSE} ELSE {run}
    /\ UNCHANGED <<mtx, requests, data, simulation_running, closing, kind, render,
                   control>>

Physics ==
    \/ LoopTop \/ UiRequest \/ LoadMessage \/ MakeData \/ Load \/ Loaded \/ Swap
    \/ LoadMessageClear \/ Step
    \/ \E ok \in BOOLEAN : LoadModel(ok)
-----------------------------------------------------------------------------
(* The thread that constructs RL_Sim and then renders.                     *)

\* The constructor waits for the data, takes a copy of the pointer, starts the
\* loops and calls RenderLoop.
RL_Sim ==
    /\ render = "off" /\ d # 0
    /\ mj_data' = d
    /\ render' = "check" /\ control' = "idle"
    /\ UNCHANGED <<mtx, requests, loads, live, d, dnew_, d_, flags, physics, kind>>

RenderCheck ==
    /\ render = "check"
    /\ render' = IF closing \/ exitrequest # 0 THEN "end" ELSE "lock"
    /\ UNCHANGED <<mtx, requests, data, flags, physics, kind, control>>

\* The lock is taken; a load is not carried out in the first frame that sees
\* it, to show a label.
RenderLock ==
    /\ render = "lock" /\ Free
    /\ mtx' = "render"
    /\ render' = "poll"
    /\ IF loadrequest = 1 THEN d_' = dnew_ /\ dnew_' = 0
                          ELSE UNCHANGED <<d_, dnew_>>
    /\ loadrequest' = CASE loadrequest = 2 -> 1 [] loadrequest = 1 -> 0
                        [] OTHER -> loadrequest
    /\ UNCHANGED <<droploadrequest, uiloadrequest, exitrequest, loads, live, d,
                   mj_data, flags, physics, kind, control>>

\* PollEvents.  A file that is dropped while an earlier one has not been read
\* makes the render thread spin, with the lock.
PollNothing == UNCHANGED <<droploadrequest, uiloadrequest, exitrequest, run, closing>>
PollQuit ==
    /\ exitrequest' = 1
    /\ UNCHANGED <<droploadrequest, uiloadrequest, run, closing>>
PollReload ==
    /\ uiloadrequest < MaxReloads
    /\ uiloadrequest' = uiloadrequest + 1
    /\ UNCHANGED <<droploadrequest, exitrequest, run, closing>>
PollPause ==
    /\ d_ # 0
    /\ run' = ~run
    /\ UNCHANGED <<droploadrequest, uiloadrequest, exitrequest, closing>>
PollClose ==
    /\ closing' = TRUE
    /\ UNCHANGED <<droploadrequest, uiloadrequest, exitrequest, run>>

PollEvents ==
    /\ render = "poll"
    /\ PollNothing \/ PollQuit \/ PollReload \/ PollPause \/ PollClose
    /\ render' = "polled"
    /\ UNCHANGED <<mtx, loadrequest, data, simulation_running, physics, kind,
                   control>>

DropFile ==
    /\ render = "poll" \/ (render = "spin" /\ ~droploadrequest)
    /\ IF droploadrequest
       THEN render' = "spin" /\ UNCHANGED droploadrequest
       ELSE render' = "polled" /\ droploadrequest' = TRUE
    /\ UNCHANGED <<mtx, loadrequest, uiloadrequest, exitrequest, data, flags,
                   physics, kind, control>>

\* Sync returns at once without a model, or when the program is to end.
SyncNot ==
    /\ render = "polled"
    /\ d_ = 0 \/ exitrequest # 0
    /\ render' = "check" /\ mtx' = "none"
    /\ UNCHANGED <<requests, data, flags, physics, kind, control>>

Sync ==
    /\ render = "polled"
    /\ d_ # 0 /\ exitrequest = 0
    /\ render' = "sync"
    /\ UNCHANGED <<mtx, requests, data, flags, physics, kind, control>>

SyncEnd ==
    /\ render = "sync"
    /\ render' = "check" /\ mtx' = "none"
    /\ UNCHANGED <<requests, data, flags, physics, kind, control>>

RenderEnd ==
    /\ render = "end" /\ Free
    /\ exitrequest' = 2
    /\ render' = "closed"
    /\ UNCHANGED <<mtx, loadrequest, droploadrequest, uiloadrequest, data, flags,
                   physics, kind, control>>

Render ==
    \/ RL_Sim \/ RenderCheck \/ RenderLock \/ PollEvents \/ DropFile
    \/ SyncNot \/ Sync \/ SyncEnd \/ RenderEnd
-----------------------------------------------------------------------------
(* The control loop, which holds the lock for a whole cycle.               *)

RobotControl ==
    /\ control = "idle" /\ Free
    /\ mtx' = "control" /\ control' = "cycle"
    /\ UNCHANGED <<requests, data, flags, physics, kind, render>>

\* The Enter key stops or starts the simulation.
RobotControlEnd(enter) ==
    /\ control = "cycle"
    /\ IF enter
       THEN run' = ~simulation_running /\ simulation_running' = ~simulation_running
       ELSE UNCHANGED <<run, simulation_running>>
    /\ mtx' = "none" /\ control' = "idle"
    /\ UNCHANGED <<requests, data, closing, physics, kind, render>>

\* The destructor, when RenderLoop has returned.
Shutdown ==
    /\ render = "closed" /\ control = "idle"
    /\ control' = "stopped"
    /\ UNCHANGED <<mtx, requests, data, flags, physics, kind, render>>

Control == RobotControl \/ Shutdown \/ \E enter \in BOOLEAN : RobotControlEnd(enter)

\* Ctrl+C, while the program runs.
signalHandler ==
    /\ exitrequest = 0 /\ render # "off"
    /\ exitrequest' = 1
    /\ UNCHANGED <<mtx, loadrequest, droploadrequest, uiloadrequest, data, flags,
                   threads>>

Next == Physics \/ Render \/ Control \/ signalHandler

Spec == Init /\ [][Next]_vars

\* Each thread goes on.  The mutex has no queue, but who waits for it gets it:
\* the other threads release it and sleep, every cycle.
Fairness ==
    /\ SF_vars(Physics) /\ SF_vars(Render) /\ SF_vars(Shutdown)
    /\ WF_vars(\E enter \in BOOLEAN : RobotControlEnd(enter))

FairSpec == Spec /\ Fairness
-----------------------------------------------------------------------------
\* The variables have values of their types.
TypeOK ==
    /\ mtx \in {"none", "render", "control"}
    /\ loadrequest \in 0 .. 3 /\ exitrequest \in 0 .. 2
    /\ uiloadrequest \in 0 .. MaxReloads
    /\ {droploadrequest, run, simulation_running, closing} \subseteq BOOLEAN
    /\ physics \in {"message", "model", "data", "load", "wait", "swap", "clear",
                    "loop", "ui", "step", "done"}
    /\ kind \in {"boot", "drop", "ui"}
    /\ live \subseteq 1 .. MaxLoads
    /\ {loads, d, dnew_, d_, mj_data} \subseteq 0 .. MaxLoads
    /\ render \in {"off", "check", "lock", "poll", "spin", "polled", "sync",
                   "end", "closed"}
    /\ control \in {"off", "idle", "cycle", "stopped"}

\* Until the program is asked to end, neither the physics thread nor the viewer
\* uses data that was deleted: Load waits until the viewer has let go of it.
ViewerDataLive ==
    exitrequest = 0 =>
        /\ physics \in {"step", "loop"} /\ d # 0 => d \in live
        /\ render = "sync" => d_ \in live

\* A load always ends, unless the viewer ends or spins on a dropped file.
LoadEnds ==
    (physics = "wait" /\ render # "off")
        ~> (physics # "wait" \/ exitrequest # 0 \/ closing \/ render = "spin")

\* The viewer does not spin for ever on a dropped file once the physics thread
\* is reading the one before it.
SpinEnds ==
    (render = "spin" /\ physics = "model" /\ kind = "drop") ~> (render # "spin")

\* Once the viewer or Ctrl+C has asked for the end, RenderLoop returns, unless
\* it spins on a dropped file.
QuitCloses ==
    (exitrequest # 0 /\ render # "off") ~> (render \in {"closed", "spin"})

\* No thread of the program waits for another for ever.
HandshakesEnd == LoadEnds /\ SpinEnds /\ QuitCloses

\* No thread uses data that another has deleted.
ViewerSafe == TypeOK /\ ViewerDataLive
=============================================================================
