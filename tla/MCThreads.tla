------------------------------ MODULE MCThreads -----------------------------
(* The threads of a program that is shut down, those of the viewer of      *)
(* MuJoCo, and the start of the programs of Unitree's robots: one of the   *)
(* three is looked at in a behaviour; they share no variable.              *)
EXTENDS Naturals, Sequences

CONSTANTS Loop, Order, MaxLoads, MaxReloads, Robots, MaxFailures

\* The two loops of the robot, in the order of ~RL_Real.
TwoLoops == {"loop_control", "loop_rl"}
DestructorOrder == <<"loop_control", "loop_rl">>
UnitreeRobots == {"go2", "g1"}

VARIABLES
    part,           \* the component that is looked at
    \* LoopFunc
    running, mutex, loop_pc, expired, main, next, ended, late,
    \* Viewer
    mtx, loadrequest, droploadrequest, uiloadrequest, exitrequest, run,
    physics, kind, loads, live, d, dnew_, d_, render, closing, mj_data,
    simulation_running, control,
    \* MotionSwitch
    robot, service, named, switch_pc, failures, answered, checks

loop_vars ==
    <<running, mutex, loop_pc, expired, main, next, ended, late>>
viewer_vars ==
    <<mtx, loadrequest, droploadrequest, uiloadrequest,
      exitrequest, run, physics, kind, loads, live, d, dnew_, d_, render,
      closing, mj_data, simulation_running, control>>
switch_vars ==
    <<robot, service, named, switch_pc, failures, answered,
      checks>>

L == INSTANCE LoopFunc WITH
        pc <- loop_pc
V == INSTANCE Viewer
S == INSTANCE MotionSwitch WITH
        pc <- switch_pc

ASSUME LoopAssumption == L!LoopAssumption
ASSUME ViewerAssumption == V!ViewerAssumption
ASSUME SwitchAssumption == S!SwitchAssumption

Parts == {"LoopFunc", "Viewer", "MotionSwitch"}

\* The components that are not looked at have one initial state ...
Init ==
    /\ part \in Parts
    /\ L!Init
    /\ V!Init
    /\ S!Init
    /\ part = "MotionSwitch" \/ (robot = "go2" /\ service)

\* ... and keep it.
Others(p) ==
    /\ UNCHANGED part
    /\ IF p = "LoopFunc" THEN TRUE ELSE UNCHANGED loop_vars
    /\ IF p = "Viewer" THEN TRUE ELSE UNCHANGED viewer_vars
    /\ IF p = "MotionSwitch" THEN TRUE ELSE UNCHANGED switch_vars

Next ==
    \/ part = "LoopFunc" /\ L!Next /\ Others("LoopFunc")
    \/ part = "Viewer" /\ V!Next /\ Others("Viewer")
    \/ part = "MotionSwitch" /\ S!Next /\ Others("MotionSwitch")

vars == <<part, loop_vars, viewer_vars, switch_vars>>

Spec == Init /\ [][Next]_vars

\* Of the part that is looked at; the others have stopped.
FairSpec ==
    /\ Spec
    /\ part = "LoopFunc" => L!Fairness
    /\ part = "Viewer" => V!Fairness
    /\ WF_vars(part = "MotionSwitch" /\ S!Next /\ Others("MotionSwitch"))
-----------------------------------------------------------------------------
\* After shutdown has returned the object is used at most once more.
LoopFuncSafe == part = "LoopFunc" => L!LoopFuncSafe

\* No thread uses data that another has deleted.
ViewerSafe == part = "Viewer" => V!ViewerSafe

\* The motors are driven by one program.
MotionSwitchSafe == part = "MotionSwitch" => S!MotionSwitchSafe

\* Every hand-shake between threads, processes or machines ends: a loop that is
\* shut down, a load of the viewer, the release of the robot.
ThreadsEnd ==
    /\ L!ShutdownStops
    /\ V!HandshakesEnd
    /\ part = "MotionSwitch" => S!HandoverEnds
=============================================================================
