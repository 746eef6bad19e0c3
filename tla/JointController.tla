--------------------------- MODULE JointController ---------------------------
(***************************************************************************)
(* The controllers of robot_joint_controller for Gazebo: a message is      *)
(* stored by the thread that receives it, and the real-time thread drives  *)
(* the joint by it.  Both use the member last_command_ as well as the      *)
(* buffer between them.  The package has three of them: "ros1", "joint"    *)
(* (one joint) and "group", which repeats what is done here joint by joint.*)
(*                                                                         *)
(* A message is a number, 0 the command of a joint at rest; a command is   *)
(* the message its pose and the one its gains were taken from.             *)
(***************************************************************************)
EXTENDS Naturals

CONSTANTS
    MaxMessages,        \* messages received
    MaxActivations      \* times the controller is started

\* The least that makes sense; the runs assume it.
ControllerAssumption == {MaxMessages, MaxActivations} \subseteq Nat \ {0}

VARIABLES
    variant,
    active,
    last_command_,
    rt_command,     \* the buffer: what was written last ...
    rt_data,        \* ... and what the real-time thread read last
    callback,       \* what the receiving thread does next
    update,         \* what the real-time thread does next
    servo_command_,
    \* history
    sent,           \* messages received so far
    activations,
    before,         \* messages received before the controller was started
    poses,          \* the messages whose pose was used since then
    overlapped,     \* the latest message was being stored when the real-time
                    \* thread read or reset the buffer
    calm            \* no message was being stored during this update

stored == <<last_command_, rt_command, rt_data>>
history == <<sent, activations, before, poses, overlapped, calm>>
vars == <<variant, active, stored, callback, update, servo_command_, history>>

Rest == [q |-> 0, gains |-> 0]

Init ==
    /\ variant \in {"ros1", "joint", "group"}
    /\ active = FALSE
    /\ last_command_ = Rest /\ rt_command = Rest /\ rt_data = Rest
    /\ callback = "idle" /\ update = "idle"
    /\ servo_command_ = Rest
    /\ sent = 0 /\ activations = 0 /\ before = 0 /\ poses = {}
    /\ overlapped = FALSE /\ calm = FALSE
-----------------------------------------------------------------------------
(* The thread that receives.                                               *)

SetCommandCallback ==
    /\ callback = "idle" /\ sent < MaxMessages
    /\ callback' = "q"
    /\ sent' = sent + 1
    /\ overlapped' = FALSE /\ calm' = FALSE
    /\ UNCHANGED <<variant, active, stored, update, servo_command_, activations,
                   before, poses>>

StoreQ ==
    /\ callback = "q"
    /\ callback' = "gains"
    /\ last_command_' = [last_command_ EXCEPT !.q = sent]
    /\ UNCHANGED <<variant, active, rt_command, rt_data, update, servo_command_,
                   history>>

StoreGains ==
    /\ callback = "gains"
    /\ callback' = "write"
    /\ last_command_' = [last_command_ EXCEPT !.gains = sent]
    /\ UNCHANGED <<variant, active, rt_command, rt_data, update, servo_command_,
                   history>>

writeFromNonRT ==
    /\ callback = "write"
    /\ callback' = "idle"
    /\ rt_command' = last_command_
    /\ UNCHANGED <<variant, active, last_command_, rt_data, update,
                   servo_command_, history>>
-----------------------------------------------------------------------------
(* The real-time thread.                                                   *)

\* Mutant: a command of before is left in the buffer.
on_activateKeepsBuffer ==
    /\ ~active /\ activations < MaxActivations
    /\ active' = TRUE
    /\ last_command_' = [Rest EXCEPT !.gains = IF variant = "group" THEN 0
                                               ELSE last_command_.gains]
    /\ before' = sent /\ poses' = {} /\ activations' = activations + 1
    /\ overlapped' = (overlapped \/ callback # "idle")
    /\ UNCHANGED <<variant, rt_command, rt_data, callback, update,
                   servo_command_, sent, calm>>

\* The command becomes the measured pose; the gains are forgotten by the group
\* only, but only in ROS 1 does the buffer get them.
on_activate ==
    /\ ~active /\ activations < MaxActivations
    /\ active' = TRUE
    /\ last_command_' = [Rest EXCEPT !.gains = IF variant = "group" THEN 0
                                               ELSE last_command_.gains]
    /\ rt_command' = IF variant = "ros1" THEN last_command_' ELSE Rest
    /\ rt_data' = rt_command'
    /\ before' = sent /\ poses' = {} /\ activations' = activations + 1
    /\ overlapped' = (overlapped \/ callback # "idle")
    /\ UNCHANGED <<variant, callback, update, servo_command_, sent, calm>>

\* ROS 1 leaves everything as it is.
on_deactivate ==
    /\ active /\ update = "idle"
    /\ active' = FALSE
    /\ last_command_' = IF variant = "group" THEN Rest ELSE last_command_
    /\ IF variant = "ros1" THEN UNCHANGED <<rt_command, rt_data>>
                           ELSE rt_command' = Rest /\ rt_data' = Rest
    /\ UNCHANGED <<variant, callback, update, servo_command_, history>>

\* readFromRT returns what it returned before while the buffer is written to.
readFromRT ==
    /\ active /\ update = "idle"
    /\ rt_data' \in {rt_command} \cup (IF callback = "write" THEN {rt_data} ELSE {})
    /\ last_command_' = rt_data'
    /\ update' = "q"
    /\ overlapped' = (overlapped \/ callback # "idle")
    /\ calm' = (callback = "idle")
    /\ UNCHANGED <<variant, active, rt_command, callback, servo_command_, sent,
                   activations, before, poses>>

\* UpdateFunc takes the pose from last_command_, and the gains from it later.
UpdateQ ==
    /\ update = "q"
    /\ update' = "gains"
    /\ servo_command_' = [servo_command_ EXCEPT !.q = last_command_.q]
    /\ poses' = poses \cup {last_command_.q}
    /\ UNCHANGED <<variant, active, stored, callback, sent, activations, before,
                   overlapped, calm>>

UpdateGains ==
    /\ update = "gains"
    /\ update' = "idle"
    /\ servo_command_' = [servo_command_ EXCEPT !.gains = last_command_.gains]
    /\ UNCHANGED <<variant, active, stored, callback, history>>

Next ==
    \/ SetCommandCallback \/ StoreQ \/ StoreGains \/ writeFromNonRT
    \/ on_activate \/ on_deactivate
    \/ readFromRT \/ UpdateQ \/ UpdateGains

Spec == Init /\ [][Next]_vars
-----------------------------------------------------------------------------
Command == [q : 0 .. sent, gains : 0 .. sent]

\* The variables have values of their types.
TypeOK ==
    /\ variant \in {"ros1", "joint", "group"}
    /\ {active, overlapped, calm} \subseteq BOOLEAN
    /\ {last_command_, rt_command, rt_data, servo_command_} \subseteq Command
    /\ callback \in {"idle", "q", "gains", "write"}
    /\ update \in {"idle", "q", "gains"}
    /\ update # "idle" => active
    /\ sent \in 0 .. MaxMessages /\ before \in 0 .. sent /\ poses \subseteq 0 .. sent

\* A controller that is started again is not moved by what it received while it
\* was stopped: at most by the one message that was being stored at that moment.
AtMostOneOldPose ==
    \A one, other \in poses \cap 1 .. before : one = other

\* A message is used whole by the next update, unless the two threads met while
\* it was being stored.
UndisturbedUsedWhole ==
    [][update = "gains" /\ update' = "idle" /\ calm /\ ~overlapped /\ sent > before
         => servo_command_' = [q |-> sent, gains |-> sent]]_vars

\* The joint follows the messages of its own activation, and each as a whole.
JointControllerSafe == [](TypeOK /\ AtMostOneOldPose) /\ UndisturbedUsedWhole
=============================================================================
