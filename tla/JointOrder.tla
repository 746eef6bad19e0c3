----------------------------- MODULE JointOrder -----------------------------
(***************************************************************************)
(* The order of the joints in every vector of joint values, as the vectors *)
(* travel between GetState, the states of the FSM, the policy and          *)
(* SetCommand, while InitRL exchanges joint_mapping under them.            *)
(*                                                                         *)
(* A joint is named by the index of its motor.  A vector is modelled by    *)
(* the sequence of the joints whose values it holds, so a vector is in the *)
(* order of a policy when it equals the joint_mapping of that policy, and  *)
(* in motor order when it is the identity.                                 *)
(***************************************************************************)
EXTENDS MyRobotPolicies, Functions

CONSTANTS
    NumOfDofs,      \* how many joints the robot has
    RobotLabOrder,  \* joint_mapping of robot_lab, and of the dance
    MjlabOrder      \* joint_mapping of mjlab

VARIABLES
    state,          \* the state of the FSM
    phase,          \* of the control cycle: "get", "fsm" or "set"
    config_name,
    joint_mapping,  \* params["joint_mapping"]
    robot_q,        \* robot_state.motor_state.q
    now_q, start_q, \* now_state and start_state
    hold_q,         \* hold_q_on_enter
    command,        \* robot_command.motor_command.q: the vectors mixed in it
    writer,         \* the branch that wrote the command in this cycle:
                    \* "passive", "motion", "hold", "policy" or "nobody"
    obs_q,          \* obs.dof_pos
    output,         \* the newest output_dof_pos, as a set like command; {}
                    \* when the queue was drained
    exchanged       \* joint_mapping has changed since start_q was measured

control == <<state, phase, robot_q, now_q, start_q, hold_q, command, writer>>
vars == <<deployment, control, config_name, joint_mapping, obs_q, output,
          exchanged>>

Joint == 1 .. NumOfDofs
MotorOrder == [i \in Joint |-> i]
Zero == [i \in Joint |-> 0]

\* Each joint_mapping names every motor once, as those of the four
\* configurations do.
ASSUME OrderAssumption ==
    /\ NumOfDofs \in Nat \ {0}
    /\ {RobotLabOrder, MjlabOrder} \subseteq Bijection(Joint, Joint)

\* The order of each policy, that is of its joint_mapping and of its
\* default_dof_pos: the real robot's locomotion and both base files use the
\* motor order, mjlab the order of its URDF, and robot_lab and the dance one.
JointMapping(config) ==
    CASE config \in {"robot_lab", "whole_body_tracking"} -> RobotLabOrder
      [] config = "mjlab" -> MjlabOrder
      [] OTHER -> MotorOrder

\* out[i] = src[mapping[i]]
MotorStateToPolicyOrder(src, mapping) == [i \in Joint |-> src[mapping[i]]]

\* out[mapping[i]] = src[i]; SetCommand of the simulation does the same.
PolicyCommandToMotorOrder(src, mapping) ==
    [j \in Joint |-> src[CHOOSE i \in Joint : mapping[i] = j]]

Init ==
    /\ deployment \in Deployment
    /\ state = "Passive"
    /\ phase = "get"
    /\ config_name = FirstConfig
    /\ joint_mapping = MotorOrder
    /\ robot_q = Zero
    /\ now_q = Zero
    /\ start_q = Zero
    /\ hold_q = Zero
    /\ command = {Zero}
    /\ writer = "nobody"
    /\ obs_q = Zero
    /\ output = {MotorOrder}
    /\ exchanged = TRUE
-----------------------------------------------------------------------------
(* The control thread: GetState, one handler of the FSM, SetCommand.       *)

policy == <<config_name, joint_mapping, obs_q, output>>

Exchange == exchanged' = (exchanged \/ joint_mapping' # joint_mapping)

\* The simulation maps the sensors, the real robot copies them.
GetState ==
    /\ phase = "get"
    /\ phase' = "fsm"
    /\ robot_q' = IF deployment = "sim" THEN joint_mapping ELSE MotorOrder
    /\ writer' = "nobody"
    /\ UNCHANGED <<state, now_q, start_q, hold_q, command, policy,
                   exchanged>>

\* The FSM keeps its state, or enters another one.
Stays == phase = "fsm" /\ phase' = "set" /\ UNCHANGED state

Goes(s) ==
    /\ phase = "fsm" /\ phase' = "set"
    /\ s \in Successors[state]
    /\ state' = s

Writes(w, vectors) == writer' = w /\ command' = vectors

WritesNothing == UNCHANGED <<writer, command>>

\* Passive commands the default pose, in every cycle.
Passive ==
    /\ Goes("Passive") \/ (state = "Passive" /\ Stays)
    /\ Writes("passive", {joint_mapping})
    /\ UNCHANGED <<robot_q, now_q, start_q, hold_q, policy,
                   exchanged>>

\* The first Interpolate of GetUp and of GetDown.
EnterGetUp ==
    /\ Goes("GetUp")
    /\ now_q' = robot_q
    /\ start_q' = robot_q
    /\ exchanged' = FALSE
    /\ Writes("motion", {now_q', joint_mapping})
    /\ UNCHANGED <<robot_q, hold_q, policy>>

\* Mutant: the motion starts from the pose kept by the state before.
EnterGetDownFromNow ==
    /\ Goes("GetDown")
    /\ Writes("motion", {now_q, start_q})
    /\ UNCHANGED <<robot_q, now_q, start_q, hold_q, policy,
                   exchanged>>

EnterGetDown ==
    /\ Goes("GetDown")
    /\ now_q' = robot_q
    /\ Writes("motion", {now_q', start_q})
    /\ UNCHANGED <<robot_q, start_q, hold_q, policy,
                   exchanged>>

\* The next ones; a motion that is complete writes nothing.
RunMotion ==
    /\ state \in {"GetUp", "GetDown"} /\ Stays
    /\ \/ Writes("motion", {now_q, IF state = "GetUp" THEN joint_mapping
                                                     ELSE start_q})
       \/ WritesNothing
    /\ UNCHANGED <<robot_q, now_q, start_q, hold_q, policy,
                   exchanged>>

\* Mutant: the pose is held as it was measured.
RemapNot(q, old, new) == q

\* The pose to hold, rearranged from the old order to the new one with the
\* motor as the link.
Remap(q, old, new) ==
    [i \in Joint |-> q[CHOOSE k \in Joint : old[k] = new[i]]]

\* The dance of the simulation puts the robot into the pose of a row of
\* ampobs.csv, which its configuration asks for, and holds that one: the row
\* has the joints in the order of the dance.  Where the row cannot be read, and
\* everywhere else, what is held is the measured pose.
PosesFromAmpObs(s) == deployment = "sim" /\ s = "RLWholeBodyTrackingDance"

HeldPoses(s) ==
    {Remap(robot_q, joint_mapping, joint_mapping')}
        \cup IF PosesFromAmpObs(s) THEN {joint_mapping'} ELSE {}

\* Enter of a learned state with InitRL.  The queues are drained, but a frame
\* under way may arrive after that.
EnterAndLoad(s) ==
    /\ s \in RLState /\ Goes(s)
    /\ config_name' = ConfigOf(s, config_name)
    /\ joint_mapping' = JointMapping(config_name')
    /\ hold_q' \in HeldPoses(s)
    /\ now_q' = robot_q
    /\ obs_q' = joint_mapping'     \* default_dof_pos
    /\ output' \in {{}, output}
    /\ Exchange
    /\ UNCHANGED <<robot_q, start_q>>

\* The first Run holds the pose ...
EnterRL(s) ==
    /\ EnterAndLoad(s)
    /\ Writes("hold", {hold_q'})

\* ... or returns at once: locomotion entered with the dance key pressed.
EnterLocomotionOnTheWay ==
    /\ EnterAndLoad("RLLocomotion")
    /\ WritesNothing

\* InitRL throws, before or after the parameters were read.  The engine enters
\* Passive in the next cycle.
EnterRLFails(s) ==
    /\ s \in Successors[state] \cap RLState
    /\ phase = "fsm" /\ phase' = "set"
    /\ state' = "Passive"
    /\ config_name' = ConfigOf(s, config_name)
    /\ hold_q' = robot_q
    /\ \/ UNCHANGED <<joint_mapping, obs_q>>
       \/ joint_mapping' = JointMapping(config_name') /\ obs_q' = joint_mapping'
    /\ output' \in {{}, output}
    /\ Exchange
    /\ WritesNothing
    /\ UNCHANGED <<robot_q, now_q, start_q>>

\* Run of a learned state (PolicyHandover says when it does which): a frame of
\* the policy arrived, alone or blended with the pose that is held, or none
\* did; then the pose is held while it waits for the first one, and the command
\* stays otherwise.
RunRL ==
    /\ state \in RLState /\ Stays
    /\ \/ Writes("hold", {hold_q})
       \/ output # {} /\ Writes("policy", output)
       \/ output # {} /\ Writes("policy", output \cup {hold_q})
       \/ WritesNothing
    /\ UNCHANGED <<robot_q, now_q, start_q, hold_q, policy,
                   exchanged>>

SetCommand ==
    /\ phase = "set" /\ phase' = "get"
    /\ UNCHANGED <<state, robot_q, now_q, start_q, hold_q, command, writer,
                   policy,
                   exchanged>>
-----------------------------------------------------------------------------
(* The policy thread.                                                      *)

\* Mutant: the observation is taken from the state as it is.
ObserveUnmapped ==
    /\ state \in RLState
    /\ obs_q' = robot_q
    /\ UNCHANGED <<control, config_name, joint_mapping, output, exchanged>>

\* The real RunModel rearranges the state, the simulation's takes it as it is.
Observe ==
    /\ state \in RLState
    /\ obs_q' = IF deployment = "real"
                THEN MotorStateToPolicyOrder(robot_q, joint_mapping)
                ELSE robot_q
    /\ UNCHANGED <<control, config_name, joint_mapping, output, exchanged>>

\* ComputeOutput rearranges it in both deployments, and adds the actions to
\* it or to the default pose.
ComputeOutput ==
    /\ state \in RLState
    /\ LET q_current == MotorStateToPolicyOrder(robot_q, joint_mapping)
       IN  output' = IF config_name \in {"robot_lab", "whole_body_tracking"}
                     THEN {q_current, joint_mapping} ELSE {joint_mapping}
    /\ UNCHANGED <<control, config_name, joint_mapping, obs_q, exchanged>>

Next ==
    /\ \/ GetState \/ Passive \/ EnterGetUp \/ EnterGetDown \/ RunMotion
       \/ \E s \in RLState : EnterRL(s) \/ EnterRLFails(s)
       \/ EnterLocomotionOnTheWay \/ RunRL \/ SetCommand
       \/ Observe \/ ComputeOutput
    /\ UNCHANGED deployment

Spec == Init /\ [][Next]_vars
-----------------------------------------------------------------------------
Order == {MotorOrder, Zero} \cup {JointMapping(c) : c \in Config}

\* The motor j is handed the value of the joint Delivered(v)[j].
Delivered(v) == PolicyCommandToMotorOrder(v, joint_mapping)
Reaches(v) == Delivered(v) = MotorOrder

\* The variables have values of their types.
TypeOK ==
    /\ deployment \in Deployment
    /\ state \in State
    /\ phase \in {"get", "fsm", "set"}
    /\ config_name \in Config \/ (config_name = "" /\ state \notin RLState)
    /\ joint_mapping \in Order \ {Zero}
    /\ {robot_q, now_q, start_q, hold_q, obs_q}
           \subseteq [Joint -> Joint \cup {0}]
    /\ UNION {command, output} \subseteq [Joint -> Joint \cup {0}]
    /\ writer \in {"passive", "motion", "hold", "policy", "nobody"}
    /\ exchanged \in BOOLEAN

\* In the simulation the pose a learned state holds until its policy answers
\* reaches the joints it belongs to, those it was measured on or those the row
\* of the dance names, although the mapping changed in between.
HeldPoseReaches ==
    deployment = "sim" /\ phase = "set" /\ writer = "hold" =>
        \A v \in command : Reaches(v)

\* In the simulation a motion of GetUp or GetDown starts from the pose of the
\* joints it moves.
MotionStartReaches ==
    deployment = "sim" /\ phase = "set" /\ writer = "motion" =>
        Reaches(now_q) /\ now_q \in command

\* In the simulation GetDown leads back to the pose that GetUp found, joint by
\* joint, whatever was entered in between or failed to be, as long as no policy
\* of another order was: start_state is not rearranged, unlike the pose held.
GetDownReturns ==
    deployment = "sim" /\ phase = "set" /\ writer = "motion"
        /\ state = "GetDown" /\ ~exchanged =>
        \A v \in command : Reaches(v)

\* On the real robot the joint positions the policy observes are in the order of
\* the policy whose parameters are in force, however InitRL and RunModel
\* interleave.
ObservedInOrder ==
    deployment = "real" /\ obs_q # Zero => obs_q = joint_mapping

\* A pose that a state keeps reaches the motors in the order that it came from.
PosesReach ==
    TypeOK /\ HeldPoseReaches /\ MotionStartReaches /\ GetDownReturns
=============================================================================
