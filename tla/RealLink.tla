------------------------------ MODULE RealLink ------------------------------
(***************************************************************************)
(* The real robot's side of the ZMQ link (rl_real_myrobot.cpp) and what    *)
(* its policy thread reads while the control thread writes it: the state   *)
(* of the robot, and the positions of the key bodies that the dance        *)
(* observes, from the kinematic model (kinematics_fk.cpp), else from a     *)
(* file of static positions, else zeros.                                   *)
(*                                                                         *)
(* A state is the number of the message it came in, 0 for the zeros before *)
(* the first.                                                              *)
(***************************************************************************)
EXTENDS Integers, Sequences

CONSTANTS
    MaxMessages,    \* bound: the messages that arrive
    Policies        \* the policies that are entered, by their config_name; but
                    \* for the dance, whole_body_tracking, they are all alike here

\* The least that makes sense; the runs assume it.
LinkAssumption == MaxMessages \in Nat /\ "robot_lab_real" \in Policies

VARIABLES
    zmq,            \* the sockets: "none", "open", "failed" or "closed"
    zmq_sub,        \* what the socket holds: [n, whole] for each message
    arrived,        \* number of messages that arrived
    newest,         \* the last of them, 0 if it was cut short
    due,            \* newest, when the socket was read in this period
    state_msg,      \* state_q, state_qd, state_ang_vel, state_quat
    state_before,   \* ... and what they held before that
    imu, joints,    \* the two parts of robot_state; imu with what it held before
    control,        \* where the control thread is in its period
    config_name, last_loaded_config_name, rl_init_done,
    fk,             \* the kinematic model is there
    dance_online_fk_enabled,
    dance_key_body_ref,         \* "none", "some" (being filled) or "all"
    dance_static_ref_loaded,
    rl,             \* where the policy thread is in RunModel
    own,            \* this pass began after the last InitRL
    obs_imu, obs_joints, key_body_pos_rel

link == <<zmq, zmq_sub, arrived, newest>>
state == <<due, state_msg, state_before, imu, joints>>
reference == <<fk, dance_online_fk_enabled, dance_key_body_ref,
               dance_static_ref_loaded>>
entry == <<config_name, last_loaded_config_name, rl_init_done>>
pass == <<rl, own, obs_imu, obs_joints, key_body_pos_rel>>

vars == <<link, state, control, entry, reference, pass>>

Init ==
    /\ zmq = "none" /\ zmq_sub = <<>> /\ arrived = 0 /\ newest = 0 /\ due = 0
    /\ state_msg = 0 /\ state_before = 0 /\ imu = <<0, 0>> /\ joints = 0
    /\ control = "receive"
    /\ config_name = "robot_lab_real" /\ last_loaded_config_name = "none"
    /\ rl_init_done = FALSE
    /\ fk = FALSE /\ dance_online_fk_enabled = FALSE
    /\ dance_key_body_ref = "none" /\ dance_static_ref_loaded = FALSE
    /\ rl = "idle" /\ own = TRUE
    /\ obs_imu = <<0, 0>> /\ obs_joints = 0 /\ key_body_pos_rel = "zeros"

\* The constructor throws if a socket cannot be made, connected or bound.
InitZMQ ==
    /\ zmq = "none"
    /\ zmq' \in {"open", "failed"}
    /\ UNCHANGED <<zmq_sub, arrived, newest, state, control, entry, reference,
                   pass>>

\* The destructor: the loops may still be in their last calls.
CloseZMQ ==
    /\ zmq = "open"
    /\ zmq' = "closed" /\ zmq_sub' = <<>>
    /\ UNCHANGED <<arrived, newest, state, control, entry, reference, pass>>

\* Mutant: messages queue up.
HoldAll(held, msg) == Append(held, msg)

\* ZMQ_CONFLATE: the socket holds the last message only.
Hold(held, msg) == <<msg>>

Arrive(whole) ==
    /\ zmq = "open" /\ arrived < MaxMessages
    /\ arrived' = arrived + 1
    /\ zmq_sub' = Hold(zmq_sub, [n |-> arrived', whole |-> whole])
    /\ newest' = IF whole THEN arrived' ELSE 0
    /\ UNCHANGED <<zmq, state, control, entry, reference, pass>>
-----------------------------------------------------------------------------
(* RobotControl, on the control thread.                                    *)

\* Without waiting, and dropping a message that is too short.
ReceiveState ==
    /\ zmq \in {"open", "closed"} /\ control = "receive"
    /\ control' = "imu"
    /\ due' = IF zmq = "open" THEN newest ELSE 0
    /\ zmq_sub' = IF zmq_sub = <<>> THEN <<>> ELSE Tail(zmq_sub)
    /\ IF zmq_sub # <<>> /\ Head(zmq_sub).whole
       THEN /\ state_before' = state_msg
            /\ state_msg' = Head(zmq_sub).n
       ELSE UNCHANGED <<state_msg, state_before>>
    /\ UNCHANGED <<zmq, arrived, newest, imu, joints, entry, reference, pass>>

GetStateIMU ==
    /\ control = "imu"
    /\ control' = "joints"
    /\ imu' = <<state_msg, state_before>>
    /\ UNCHANGED <<link, due, state_msg, state_before, joints, entry, reference,
                   pass>>

Joints == state_msg

GetStateJoints ==
    /\ control = "joints"
    /\ control' = "fsm"
    /\ joints' = Joints
    /\ UNCHANGED <<link, due, state_msg, state_before, imu, entry, reference,
                   pass>>

\* StateController: the state runs on, ...
StateRuns ==
    /\ control = "fsm"
    /\ control' = "send"
    /\ UNCHANGED <<link, state, entry, reference, pass>>

\* ... a policy state is left, for another one or not, ...
Exit ==
    /\ control = "fsm" /\ rl_init_done
    /\ control' \in {"enter", "send"}
    /\ rl_init_done' = FALSE
    /\ UNCHANGED <<link, state, config_name, last_loaded_config_name, reference,
                   pass>>

\* ... or one is entered.
Enter(c) ==
    /\ control \in {"fsm", "enter"} /\ ~rl_init_done
    /\ control' = "load"
    /\ config_name' = c
    /\ UNCHANGED <<link, state, last_loaded_config_name, rl_init_done, reference,
                   pass>>

\* InitRL throws; the lock is released.
InitRLThrows ==
    /\ control = "load"
    /\ control' = "send"
    /\ UNCHANGED <<link, state, entry, reference, pass>>

ToLoad ==
    /\ config_name = "whole_body_tracking"
    /\ last_loaded_config_name # "whole_body_tracking"

EntryDone ==
    /\ control' = "send"
    /\ last_loaded_config_name' = config_name
    /\ rl_init_done' = TRUE
    /\ own' = FALSE
    /\ UNCHANGED <<config_name, rl, obs_imu, obs_joints, key_body_pos_rel>>

\* KinematicsFK::Load first deletes the model it has.
OnPolicyConfigLoaded ==
    /\ control = "load"
    /\ IF ToLoad
       THEN /\ control' = "fk" /\ fk' = FALSE
            /\ UNCHANGED <<entry, pass>>
       ELSE EntryDone /\ UNCHANGED fk
    /\ UNCHANGED <<link, state, dance_online_fk_enabled, dance_key_body_ref,
                   dance_static_ref_loaded>>

\* It fails without MuJoCo, without the file or without its root body.
LoadFkModel(ok) ==
    /\ control = "fk"
    /\ control' = "static"
    /\ fk' = ok /\ dance_online_fk_enabled' = ok
    /\ UNCHANGED <<link, state, entry, dance_key_body_ref,
                   dance_static_ref_loaded, pass>>

\* LoadDanceStaticRef: the file is missing or has no such key ...
NoStaticRef ==
    /\ control = "static"
    /\ dance_static_ref_loaded' = FALSE
    /\ EntryDone
    /\ UNCHANGED <<link, state, fk, dance_online_fk_enabled, dance_key_body_ref>>

\* ... or the positions are read one by one ...
FillStaticRef ==
    /\ control = "static"
    /\ control' = "fill"
    /\ dance_key_body_ref' = "some"
    /\ UNCHANGED <<link, state, entry, fk, dance_online_fk_enabled,
                   dance_static_ref_loaded, pass>>

\* ... and kept if there are as many as expected.
LoadDanceStaticRef(ok) ==
    /\ control = "fill"
    /\ dance_key_body_ref' = IF ok THEN "all" ELSE "none"
    /\ dance_static_ref_loaded' = ok
    /\ EntryDone
    /\ UNCHANGED <<link, state, fk, dance_online_fk_enabled>>

\* SetCommand and SendCommand; nothing is sent on a closed socket.
SendCommand ==
    /\ control = "send"
    /\ control' = "receive"
    /\ due' = 0
    /\ UNCHANGED <<link, state_msg, state_before, imu, joints, entry, reference,
                   pass>>
-----------------------------------------------------------------------------
(* RunModel, on the policy thread.                                         *)

RunModel ==
    /\ rl = "idle" /\ rl_init_done
    /\ rl' = "joints" /\ own' = TRUE
    /\ obs_imu' = imu
    /\ UNCHANGED <<link, state, control, entry, reference, obs_joints,
                   key_body_pos_rel>>

ReadJoints ==
    /\ rl = "joints"
    /\ rl' = "bodies"
    /\ obs_joints' = joints
    /\ UNCHANGED <<link, state, control, entry, reference, own, obs_imu,
                   key_body_pos_rel>>

UseFk ==
    config_name = "whole_body_tracking" /\ dance_online_fk_enabled /\ fk

ComputeKeyBodyPosFK ==
    /\ rl = "bodies" /\ UseFk
    /\ rl' = "fk"
    /\ UNCHANGED <<link, state, control, entry, reference, own, obs_imu,
                   obs_joints, key_body_pos_rel>>

FkComputed ==
    /\ rl = "fk"
    /\ rl' = "forward"
    /\ key_body_pos_rel' = "fk"
    /\ UNCHANGED <<link, state, control, entry, reference, own, obs_imu,
                   obs_joints>>

StaticBodies == IF dance_static_ref_loaded THEN dance_key_body_ref ELSE "zeros"

FallBack ==
    /\ rl = "bodies" /\ ~UseFk
    /\ rl' = "forward"
    /\ key_body_pos_rel' =
          IF config_name = "whole_body_tracking" THEN StaticBodies ELSE "zeros"
    /\ UNCHANGED <<link, state, control, entry, reference, own, obs_imu,
                   obs_joints>>

\* With the previous actions while InitRL has the lock.  The next pass writes
\* the observation anew; the model forgets it here.
Forward ==
    /\ rl = "forward"
    /\ rl' = "idle" /\ own' = TRUE
    /\ obs_imu' = <<0, 0>> /\ obs_joints' = 0 /\ key_body_pos_rel' = "zeros"
    /\ UNCHANGED <<link, state, control, entry, reference>>

Next ==
    \/ InitZMQ \/ CloseZMQ \/ \E whole \in BOOLEAN : Arrive(whole)
    \/ ReceiveState \/ GetStateIMU \/ GetStateJoints
    \/ StateRuns \/ Exit \/ \E c \in Policies : Enter(c)
    \/ InitRLThrows \/ OnPolicyConfigLoaded
    \/ \E ok \in BOOLEAN : LoadFkModel(ok) \/ LoadDanceStaticRef(ok)
    \/ NoStaticRef \/ FillStaticRef \/ SendCommand
    \/ RunModel \/ ReadJoints \/ ComputeKeyBodyPosFK \/ FkComputed \/ FallBack
    \/ Forward

Spec == Init /\ [][Next]_vars
-----------------------------------------------------------------------------
\* The variables have values of their types.
TypeOK ==
    /\ zmq \in {"none", "open", "failed", "closed"} /\ Len(zmq_sub) <= MaxMessages
    /\ {arrived, newest, due, state_msg, state_before, joints, obs_joints}
          \subseteq 0 .. MaxMessages
    /\ {imu, obs_imu} \subseteq (0 .. MaxMessages) \X (0 .. MaxMessages)
    /\ control \in {"receive", "imu", "joints", "fsm", "enter", "load", "fk",
                    "static", "fill", "send"}
    /\ config_name \in Policies /\ last_loaded_config_name \in Policies \cup {"none"}
    /\ {rl_init_done, fk, dance_online_fk_enabled, dance_static_ref_loaded, own}
          \subseteq BOOLEAN
    /\ dance_key_body_ref \in {"none", "some", "all"}
    /\ rl \in {"idle", "joints", "bodies", "fk", "forward"}
    /\ key_body_pos_rel \in {"zeros", "some", "all", "fk", "none"}

\* A command is computed from the newest message that had arrived when its
\* period began, however many had: the link never works off a backlog.  (A
\* message cut short costs the one it took the place of.)
StateIsNewest ==
    control = "send" /\ due # 0 => imu[1] = due /\ joints = due

\* RunModel reads robot_state while GetState writes it.  An observation may pair
\* the attitude of one message with the joints of another, but the joints are
\* never older than the message received before that of the attitude.
JointsOneBehind ==
    rl \in {"bodies", "fk", "forward"} => obs_joints >= obs_imu[2]

\* A pass that began in the dance observes the best key bodies that its entry
\* found: those of the kinematic model, else all of the static ones, else zeros.
KeyBodiesBest ==
    /\ rl = "forward" /\ own /\ rl_init_done /\ config_name = "whole_body_tracking"
    =>  key_body_pos_rel = IF fk THEN "fk"
                           ELSE IF dance_key_body_ref = "all" /\ dance_static_ref_loaded
                           THEN "all" ELSE "zeros"

\* The kinematic model is not loaded while it is computed with: its header calls
\* RunModel the single thread that uses it.  A pass that sees the config_name of a
\* dance being entered may be in it, thanks to an earlier dance, when it is loaded
\* again.
FkSingleThreaded == ~(control = "fk" /\ rl = "fk")

\* What is observed and commanded is of the present, and of the present dance.
RealLinkSafe == TypeOK /\ StateIsNewest /\ JointsOneBehind /\ KeyBodiesBest
=============================================================================
