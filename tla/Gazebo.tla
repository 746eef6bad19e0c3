------------------------------- MODULE Gazebo -------------------------------
(***************************************************************************)
(* The program of the simulation in Gazebo (rl_sim.cpp): how it comes up   *)
(* beside the other processes, and how Enter stops and starts the physics, *)
(* which another process runs, together with the policy, which a thread of *)
(* this one runs.  The program built for ROS 1 waits for the answer of the *)
(* service it calls and does not look at it, that for ROS 2 does not wait. *)
(*                                                                         *)
(* What a reset of the world does to the robot is left out.                *)
(***************************************************************************)
EXTENDS Naturals

CONSTANTS
    Ros,            \* of "ros1" and "ros2"
    MaxRequests     \* bound: requests of one service in flight

GazeboAssumption == MaxRequests \in Nat

Services == {"pause", "unpause"}

VARIABLES
    ros,
    start,          \* "parameters", "controller", "spawn", "loops" or "end"
    configured,     \* robot_name is that of a robot: there are an FSM and joints
    spawner,        \* "none", "running", "done", "failed" or "killed"
    current_keyboard, last_keyboard,    \* "None", "R" or "Enter"
    current_gamepad,                    \* "None", "RB_Y" or "RB_X"
    gazebo_control, \* "reset", "toggle", "flip" or "clear"
    simulation_running,
    rl_init_done,
    rl,             \* the policy thread is "idle" or in a "pass"
    requests,       \* sent to each service and not carried out
    paused,         \* the physics
    \* history
    lost,           \* a request, ever
    overlapped,     \* two requests were in flight, ever
    late            \* passes that ended since the simulation stopped, up to 2

starting == <<start, configured, spawner>>
input == <<current_keyboard, last_keyboard, current_gamepad>>
policy == <<rl_init_done, rl, late>>
physics == <<requests, paused, lost, overlapped>>
vars == <<ros, starting, input, gazebo_control, simulation_running, policy,
          physics>>

Init ==
    /\ ros \in Ros
    /\ start = "parameters" /\ configured = FALSE /\ spawner = "none"
    /\ current_keyboard = "None" /\ last_keyboard = "None"
    /\ current_gamepad = "None"
    /\ gazebo_control = "reset" /\ simulation_running = TRUE
    /\ rl_init_done = FALSE /\ rl = "idle" /\ late = 0
    /\ requests = [s \in Services |-> 0] /\ paused = FALSE
    /\ lost = FALSE /\ overlapped = FALSE
-----------------------------------------------------------------------------
(* The constructor.                                                        *)

\* ROS 2 waits for the parameter node, unless it is interrupted, and goes on
\* without a name when its answer does not come within 5 s; ROS 1 takes what it
\* finds.  Without a name there are neither parameters nor an FSM.
GetParameters ==
    /\ start = "parameters"
    /\ \/ configured' \in BOOLEAN /\ start' = "controller"
       \/ ros = "ros2" /\ start' = "end" /\ UNCHANGED configured
    /\ UNCHANGED <<ros, spawner, input, gazebo_control, simulation_running,
                   policy, physics>>

\* A process of its own loads the controller of the joints.  ROS 1 goes on at
\* once, with or without it ...
StartJointController ==
    /\ start = "controller"
    /\ \/ /\ spawner' = "running"
          /\ start' = IF ros = "ros1" THEN "loops" ELSE "spawn"
       \/ /\ spawner' = "failed"
          /\ start' = IF ros = "ros1" THEN "loops" ELSE "end"
    /\ UNCHANGED <<ros, configured, input, gazebo_control, simulation_running,
                   policy, physics>>

EndSpawner ==
    /\ spawner = "running"
    /\ spawner' \in {"done", "failed", "killed"}
    /\ UNCHANGED <<ros, start, configured, input, gazebo_control,
                   simulation_running, policy, physics>>

\* ... ROS 2 waits for it and throws when it says that it failed.
WaitForSpawner ==
    /\ start = "spawn" /\ spawner # "running"
    /\ start' = IF spawner = "failed" THEN "end" ELSE "loops"
    /\ UNCHANGED <<ros, configured, spawner, input, gazebo_control,
                   simulation_running, policy, physics>>
-----------------------------------------------------------------------------
(* The keyboard and the gamepad, on their threads.                         *)

SetKeyboard(k) ==
    /\ start = "loops" /\ current_keyboard # k
    /\ last_keyboard' = current_keyboard
    /\ current_keyboard' = k
    /\ UNCHANGED <<ros, starting, current_gamepad, gazebo_control,
                   simulation_running, policy, physics>>

SetGamepad(b) ==
    /\ start = "loops" /\ current_gamepad # b
    /\ current_gamepad' = b
    /\ UNCHANGED <<ros, starting, current_keyboard, last_keyboard,
                   gazebo_control, simulation_running, policy, physics>>
-----------------------------------------------------------------------------
(* The control thread, after StateController.                              *)

Goes(from, to) ==
    /\ start = "loops"
    /\ gazebo_control = from /\ gazebo_control' = to

Reset ==
    /\ Goes("reset", "toggle")
    /\ IF current_keyboard = "R" \/ current_gamepad = "RB_Y"
       THEN current_keyboard' = last_keyboard
       ELSE UNCHANGED current_keyboard
    /\ UNCHANGED <<ros, starting, last_keyboard, current_gamepad,
                   simulation_running, policy, physics>>

ToggleAsked == current_keyboard = "Enter" \/ current_gamepad = "RB_X"

NoToggle ==
    /\ ~ToggleAsked
    /\ Goes("toggle", "clear")
    /\ UNCHANGED <<ros, starting, input, simulation_running, policy, physics>>

Service == IF simulation_running THEN "pause" ELSE "unpause"

\* The service is called; the request is lost when nothing offers the service.
Toggle ==
    /\ ToggleAsked
    /\ Goes("toggle", "flip")
    /\ \/ lost' = TRUE /\ UNCHANGED <<requests, paused, overlapped>>
       \/ /\ ros = "ros1"
          /\ paused' = (Service = "pause")
          /\ UNCHANGED <<requests, lost, overlapped>>
       \/ /\ ros = "ros2" /\ requests[Service] < MaxRequests
          /\ requests' = [requests EXCEPT ![Service] = @ + 1]
          /\ overlapped' = (overlapped \/ \E s \in Services : requests[s] > 0)
          /\ UNCHANGED <<paused, lost>>
    /\ UNCHANGED <<ros, starting, input, simulation_running, policy>>

Flip ==
    /\ Goes("flip", "clear")
    /\ simulation_running' = ~simulation_running
    /\ current_keyboard' = last_keyboard
    /\ late' = 0
    /\ UNCHANGED <<ros, starting, last_keyboard, current_gamepad, rl_init_done,
                   rl, physics>>

ClearInput ==
    /\ Goes("clear", "reset")
    /\ current_keyboard' = last_keyboard /\ current_gamepad' = "None"
    /\ UNCHANGED <<ros, starting, last_keyboard, simulation_running, policy,
                   physics>>

\* A state of the FSM loads its policy, or is left.
SwitchPolicy ==
    /\ start = "loops" /\ configured
    /\ rl_init_done' = ~rl_init_done
    /\ UNCHANGED <<ros, starting, input, gazebo_control, simulation_running, rl,
                   late, physics>>
-----------------------------------------------------------------------------
(* The policy thread.                                                      *)

\* Mutant: the policy goes on when the simulation does not.
BeginPassAlways ==
    /\ start = "loops" /\ rl = "idle" /\ rl_init_done
    /\ rl' = "pass"
    /\ UNCHANGED <<ros, starting, input, gazebo_control, simulation_running,
                   rl_init_done, late, physics>>

\* RunModel ...
BeginPass ==
    /\ start = "loops" /\ rl = "idle" /\ rl_init_done /\ simulation_running
    /\ rl' = "pass"
    /\ UNCHANGED <<ros, starting, input, gazebo_control, simulation_running,
                   rl_init_done, late, physics>>

\* ... puts a frame into the queues.
EndPass ==
    /\ rl = "pass" /\ rl' = "idle"
    /\ late' = IF ~simulation_running /\ late < 2 THEN late + 1 ELSE late
    /\ UNCHANGED <<ros, starting, input, gazebo_control, simulation_running,
                   rl_init_done, physics>>
-----------------------------------------------------------------------------
(* Gazebo, which carries out the requests of a service in their order and  *)
(* those of two services in any.                                           *)

Serve(s) ==
    /\ requests[s] > 0
    /\ requests' = [requests EXCEPT ![s] = @ - 1]
    /\ paused' = (s = "pause")
    /\ UNCHANGED <<ros, starting, input, gazebo_control, simulation_running,
                   policy, lost, overlapped>>

Next ==
    \/ GetParameters \/ StartJointController \/ EndSpawner \/ WaitForSpawner
    \/ \E k \in {"R", "Enter"} : SetKeyboard(k)
    \/ \E b \in {"RB_Y", "RB_X"} : SetGamepad(b)
    \/ Reset \/ NoToggle \/ Toggle \/ Flip \/ ClearInput \/ SwitchPolicy
    \/ BeginPass \/ EndPass
    \/ \E s \in Services : Serve(s)

Spec == Init /\ [][Next]_vars
-----------------------------------------------------------------------------
TypeOK ==
    /\ ros \in Ros
    /\ start \in {"parameters", "controller", "spawn", "loops", "end"}
    /\ spawner \in {"none", "running", "done", "failed", "killed"}
    /\ {current_keyboard, last_keyboard} \subseteq {"None", "R", "Enter"}
    /\ current_gamepad \in {"None", "RB_Y", "RB_X"}
    /\ gazebo_control \in {"reset", "toggle", "flip", "clear"}
    /\ {configured, simulation_running, rl_init_done, paused, lost, overlapped}
         \subseteq BOOLEAN
    /\ rl \in {"idle", "pass"} /\ late \in 0 .. 2
    /\ requests \in [Services -> 0 .. MaxRequests]

\* The physics is paused when the program believes the simulation stopped, once
\* no request is in flight, unless one was lost or two were in flight together:
\* that of pause may then be carried out after that of unpause.
PauseAgrees ==
    ~lost /\ ~overlapped /\ gazebo_control # "flip"
        /\ (\A s \in Services : requests[s] = 0)
    => paused = ~simulation_running

\* The program for ROS 2 sends commands only to a controller that was loaded,
\* unless the process that loads it was killed.
ControllerStarted ==
    start = "loops" /\ ros = "ros2" /\ spawner # "killed" => spawner = "done"

\* Since the simulation stopped the policy has put at most one frame into the
\* queues: that of the pass it was in.
AtMostOneLatePass == ~simulation_running => late <= 1

\* Program, physics and policy agree on whether the simulation runs.
GazeboSafe == TypeOK /\ PauseAgrees /\ ControllerStarted /\ AtMostOneLatePass
=============================================================================
