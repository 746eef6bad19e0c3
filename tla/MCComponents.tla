---------------------------- MODULE MCComponents ----------------------------
(* The components that hand data from one thread to another, and the       *)
(* orientations that a network observes.  One of them is looked at in a    *)
(* behaviour: they share no variable, so that the states of the run are    *)
(* those of the components side by side.                                   *)
EXTENDS Integers, Sequences

CONSTANTS
    Keyboard, MaxX, Programs, MaxEvents, BothHands, Robots, MaxPasses, MaxAngle,
    MaxAction, Delays, HistoryLength, MaxBacklog, MaxMessages, LinkPolicies,
    MaxActivations, MaxFrames, MaxEntries, Ros, MaxRequests, mjlab_motion_frames, MaxTableLoads, HalfTurn,
    Files, Values, Names, Outputs, Waists, MotionFrames

\* The keys StateController reads, and one that stands for the others.
SomeKeys == {"W", "Space", "N", "P"}
AllPrograms == {"a1", "go2", "gazebo", "mujoco"}
AllRobots == {"a1", "go2", "g1", "myrobot", "test"}
TwoDelays == {1, 2}
TwoPolicies == {"robot_lab_real", "whole_body_tracking"}
BothRos == {"ros1", "ros2"}

VARIABLES
    part,           \* the component that is looked at
    \* OperatorInput
    keys_current_keyboard, keys_last_keyboard, keys_x, keys_navigation_mode,
    pressing, phase, presses, burst, forward, navigations,
    \* Gamepad
    program, held, events, stick, reader, asked, pressed, on_press,
    sys_js_active, control_x, x_read, pad_current_gamepad, pad_navigation_mode,
    pad_control, unanswered, kept, pad_overlapped,
    \* ModelInput
    robot, backend, config, input_control, input_rl_init_done, input_rl,
    history_obs_buf, passes, input,
    \* Output
    output_params, output_episode_length_buf, q, q_at, output_dof_pos,
    output_dof_vel, output_dof_tau,
    \* ActionDelay
    delay_rl_init_done, delay_simulation_running, delayed, cycle, delay_rl,
    was_rl_init_done_, current_delay_ms_, pass_dirty, release_time,
    action_delay_buffer_, output_dof_queue, actions_history,
    \* JointController
    variant, active, last_command_, rt_command, rt_data, callback, update,
    servo_command_, sent, activations, before, poses, joint_overlapped, calm,
    \* Gazebo
    ros, start, configured, spawner, gazebo_current_keyboard,
    gazebo_last_keyboard, gazebo_current_gamepad, gazebo_control,
    gazebo_simulation_running, gazebo_rl_init_done, gazebo_rl, requests,
    paused, lost, gazebo_overlapped, late,
    \* RealLink
    zmq, zmq_sub, arrived, newest, due, state_msg, state_before, imu, joints,
    link_control, link_config_name, last_loaded_config_name, link_rl_init_done,
    fk, dance_online_fk_enabled, dance_key_body_ref, dance_static_ref_loaded,
    link_rl, own, obs_imu, obs_joints, key_body_pos_rel,
    \* MotionLoader
    state, motion_control, motion_rl_init_done, num_frames_, entries,
    motion_episode_length_buf, time, index_0_, index_1_, blend_, moved,
    motion_rl, pass, last,
    \* MjlabMotion
    mjlab_control, mjlab_config_name, mjlab_rl_init_done, mjlab_params,
    mjlab_model, loads, table, mjlab_num_frames, mjlab_episode_length_buf,
    mjlab_rl, count, command, anchor,
    \* Orientation
    base_quat, waist, frame, world_to_init_, aligned,
    \* HeadingHold
    hold_rl_init_done, yaw_hold_enable, hold_x, yaw, hold_rl, yaw_current, wz,
    user_turning, forward_moving, cmd_yaw_final, yaw_hold_target,
    yaw_hold_target_initialized, steady, origin, unseen,
    \* Inference
    compiled, inference_model, call, result

keys_vars ==
    <<keys_current_keyboard, keys_last_keyboard, keys_x,
      keys_navigation_mode, pressing, phase, presses, burst, forward,
      navigations>>
pad_vars ==
    <<program, held, events, stick, reader, asked, pressed, on_press,
      sys_js_active, control_x, x_read, pad_current_gamepad,
      pad_navigation_mode, pad_control, unanswered, kept, pad_overlapped>>
input_vars ==
    <<robot, backend, config, input_control, input_rl_init_done,
      input_rl, history_obs_buf, passes, input>>
output_vars ==
    <<output_params, output_episode_length_buf, q, q_at,
      output_dof_pos, output_dof_vel, output_dof_tau>>
delay_vars ==
    <<delay_rl_init_done, delay_simulation_running, delayed,
      cycle, delay_rl, was_rl_init_done_, current_delay_ms_, pass_dirty,
      release_time, action_delay_buffer_, output_dof_queue, actions_history>>
joint_vars ==
    <<variant, active, last_command_, rt_command, rt_data,
      callback, update, servo_command_, sent, activations, before, poses,
      joint_overlapped, calm>>
gazebo_vars ==
    <<ros, start, configured, spawner, gazebo_current_keyboard,
      gazebo_last_keyboard, gazebo_current_gamepad, gazebo_control,
      gazebo_simulation_running, gazebo_rl_init_done, gazebo_rl, requests,
      paused, lost, gazebo_overlapped, late>>
link_vars ==
    <<zmq, zmq_sub, arrived, newest, due, state_msg, state_before,
      imu, joints, link_control, link_config_name, last_loaded_config_name,
      link_rl_init_done, fk, dance_online_fk_enabled, dance_key_body_ref,
      dance_static_ref_loaded, link_rl, own, obs_imu, obs_joints,
      key_body_pos_rel>>
motion_vars ==
    <<state, motion_control, motion_rl_init_done, num_frames_,
      entries, motion_episode_length_buf, time, index_0_, index_1_, blend_,
      moved, motion_rl, pass, last>>
mjlab_vars ==
    <<mjlab_control, mjlab_config_name, mjlab_rl_init_done,
      mjlab_params, mjlab_model, loads, table, mjlab_num_frames,
      mjlab_episode_length_buf, mjlab_rl, count, command, anchor>>
turn_vars ==
    <<base_quat, waist, frame, world_to_init_, aligned>>
hold_vars ==
    <<hold_rl_init_done, yaw_hold_enable, hold_x, yaw, hold_rl,
      yaw_current, wz, user_turning, forward_moving, cmd_yaw_final,
      yaw_hold_target, yaw_hold_target_initialized, steady, origin, unseen>>
inference_vars ==
    <<compiled, inference_model, call, result>>

I == INSTANCE OperatorInput WITH
        current_keyboard <- keys_current_keyboard, last_keyboard <-
        keys_last_keyboard, x <- keys_x, navigation_mode <-
        keys_navigation_mode
G == INSTANCE Gamepad WITH
        current_gamepad <- pad_current_gamepad, navigation_mode <-
        pad_navigation_mode, control <- pad_control, overlapped <-
        pad_overlapped
M == INSTANCE ModelInput WITH
        control <- input_control, rl_init_done <- input_rl_init_done, rl <-
        input_rl
O == INSTANCE Output WITH
        params <- output_params, episode_length_buf <-
        output_episode_length_buf
D == INSTANCE ActionDelay WITH
        rl_init_done <- delay_rl_init_done, simulation_running <-
        delay_simulation_running, rl <- delay_rl
J == INSTANCE JointController WITH
        overlapped <- joint_overlapped
Z == INSTANCE Gazebo WITH
        current_keyboard <- gazebo_current_keyboard, last_keyboard <-
        gazebo_last_keyboard, current_gamepad <- gazebo_current_gamepad,
        simulation_running <- gazebo_simulation_running, rl_init_done <-
        gazebo_rl_init_done, rl <- gazebo_rl, overlapped <- gazebo_overlapped
R == INSTANCE RealLink WITH
        Policies <- LinkPolicies, control <- link_control, config_name <-
        link_config_name, rl_init_done <- link_rl_init_done, rl <- link_rl
F == INSTANCE MotionLoader WITH
        control <- motion_control, rl_init_done <- motion_rl_init_done,
        episode_length_buf <- motion_episode_length_buf, rl <- motion_rl
B == INSTANCE MjlabMotion WITH
        control <- mjlab_control, config_name <- mjlab_config_name,
        rl_init_done <- mjlab_rl_init_done, params <- mjlab_params, model <-
        mjlab_model, episode_length_buf <- mjlab_episode_length_buf, rl <-
        mjlab_rl
A == INSTANCE Orientation
H == INSTANCE HeadingHold WITH
        rl_init_done <- hold_rl_init_done, x <- hold_x, rl <- hold_rl
N == INSTANCE Inference WITH
        model <- inference_model

\* The files of the repository have inputs and outputs like these; those of one
\* trained elsewhere come in another order, of whole numbers, or without width.
Input(name, etype, shape) == [name |-> name, etype |-> etype, shape |-> shape]
Obs == Input("obs", "FLOAT", <<1, 2>>)
TimeStep(etype) == Input("time_step", etype, <<1, 1>>)
Declares(extension, good, inputs, outputs) ==
    [extension |-> extension, good |-> good, inputs |-> inputs,
     outputs |-> outputs]
SomeFiles ==
    {Declares(extension, good, <<Obs>>, <<"actions">>) :
        extension \in {".pt", ".onnx"}, good \in BOOLEAN} \cup
    {Declares(".onnx", TRUE, inputs, <<"actions", "joint_pos">>) :
        inputs \in {<<Obs, TimeStep("FLOAT")>>, <<TimeStep("INT64"), Obs>>,
                    <<Obs, TimeStep("INT32")>>, <<TimeStep("INT64")>>}} \cup
    {Declares(".onnx", TRUE, <<Input("obs", "FLOAT", <<-1, 2>>)>>, <<"actions">>),
     Declares(".txt", TRUE, <<>>, <<>>)}
SomeValues == {<<8>>, <<3>>, <<8, 3>>, <<8, 3, 3>>}
SomeNames == {"obs", "time_step", "time"}
SomeOutputs == {"actions", "joint_pos"}

SomeWaists == {<<0, 0, 0>>, <<1, 0, 0>>, <<0, -1, 0>>, <<1, 1, 1>>}
SomeMotionFrames ==
    {[root |-> <<1, 0, 0, 0>>, waist |-> <<0, 0, 0>>],
     [root |-> <<1, 0, 0, 1>>, waist |-> <<1, 0, 0>>],
     [root |-> <<1, 1, 1, 1>>, waist |-> <<0, 1, 0>>]}

ASSUME InputAssumption == I!InputAssumption
ASSUME GamepadAssumption == G!GamepadAssumption
ASSUME ModelInputAssumption == M!ModelInputAssumption
ASSUME OutputAssumption == O!OutputAssumption
ASSUME DelayAssumption == D!DelayAssumption
ASSUME ControllerAssumption == J!ControllerAssumption
ASSUME GazeboAssumption == Z!GazeboAssumption
ASSUME LinkAssumption == R!LinkAssumption
ASSUME LoaderAssumption == F!LoaderAssumption
ASSUME MjlabMotionAssumption == B!MjlabMotionAssumption
ASSUME OrientationAssumption == A!OrientationAssumption
ASSUME HeadingAssumption == H!HeadingAssumption
ASSUME InferenceAssumption == N!InferenceAssumption

Parts == {"OperatorInput", "Gamepad", "ModelInput", "Output", "ActionDelay",
          "JointController", "Gazebo", "RealLink", "MotionLoader",
          "MjlabMotion", "Orientation", "HeadingHold", "Inference"}

\* The components that are not looked at have one initial state ...
Init ==
    /\ part \in Parts
    /\ I!Init
    /\ G!Init
    /\ part = "Gamepad" \/ (program = "a1")
    /\ M!Init
    /\ part = "ModelInput" \/ (robot = "a1" /\ backend = "real")
    /\ O!Init
    /\ part = "Output" \/ (\A k \in DOMAIN output_params : ~output_params[k] /\ q = 0)
    /\ D!Init
    /\ J!Init
    /\ part = "JointController" \/ (variant = "ros1")
    /\ Z!Init
    /\ part = "Gazebo" \/ (ros = "ros1")
    /\ R!Init
    /\ F!Init
    /\ part = "MotionLoader" \/ (motion_rl_init_done = FALSE)
    /\ B!Init
    /\ A!Init
    /\ part = "Orientation" \/ (frame.waist = <<0, 1, 0>>)
    /\ H!Init
    /\ part = "HeadingHold" \/ (yaw_hold_enable = FALSE)
    /\ N!Init
    /\ part = "Inference" \/ (compiled = {"ONNX"})

\* ... and keep it.
Others(p) ==
    /\ UNCHANGED part
    /\ IF p = "OperatorInput" THEN TRUE ELSE UNCHANGED keys_vars
    /\ IF p = "Gamepad" THEN TRUE ELSE UNCHANGED pad_vars
    /\ IF p = "ModelInput" THEN TRUE ELSE UNCHANGED input_vars
    /\ IF p = "Output" THEN TRUE ELSE UNCHANGED output_vars
    /\ IF p = "ActionDelay" THEN TRUE ELSE UNCHANGED delay_vars
    /\ IF p = "JointController" THEN TRUE ELSE UNCHANGED joint_vars
    /\ IF p = "Gazebo" THEN TRUE ELSE UNCHANGED gazebo_vars
    /\ IF p = "RealLink" THEN TRUE ELSE UNCHANGED link_vars
    /\ IF p = "MotionLoader" THEN TRUE ELSE UNCHANGED motion_vars
    /\ IF p = "MjlabMotion" THEN TRUE ELSE UNCHANGED mjlab_vars
    /\ IF p = "Orientation" THEN TRUE ELSE UNCHANGED turn_vars
    /\ IF p = "HeadingHold" THEN TRUE ELSE UNCHANGED hold_vars
    /\ IF p = "Inference" THEN TRUE ELSE UNCHANGED inference_vars

Next ==
    \/ part = "OperatorInput" /\ I!Next /\ Others("OperatorInput")
    \/ part = "Gamepad" /\ G!Next /\ Others("Gamepad")
    \/ part = "ModelInput" /\ M!Next /\ Others("ModelInput")
    \/ part = "Output" /\ O!Next /\ Others("Output")
    \/ part = "ActionDelay" /\ D!Next /\ Others("ActionDelay")
    \/ part = "JointController" /\ J!Next /\ Others("JointController")
    \/ part = "Gazebo" /\ Z!Next /\ Others("Gazebo")
    \/ part = "RealLink" /\ R!Next /\ Others("RealLink")
    \/ part = "MotionLoader" /\ F!Next /\ Others("MotionLoader")
    \/ part = "MjlabMotion" /\ B!Next /\ Others("MjlabMotion")
    \/ part = "Orientation" /\ A!Next /\ Others("Orientation")
    \/ part = "HeadingHold" /\ H!Next /\ Others("HeadingHold")
    \/ part = "Inference" /\ N!Next /\ Others("Inference")

vars == <<part, keys_vars, pad_vars, input_vars, output_vars, delay_vars,
          joint_vars, gazebo_vars, link_vars, motion_vars, mjlab_vars,
          turn_vars, hold_vars, inference_vars>>

Spec == Init /\ [][Next]_vars
-----------------------------------------------------------------------------
\* A key acts once, and what it did can be undone, as long as no two keys met in
\* one control cycle.
OperatorInputSafe == I!OperatorInputSafe

\* A button acts once and as what it was pressed for, and a stick no longer than
\* it is held.
GamepadSafe == G!GamepadSafe

\* The network is given what it was trained with, in width and in order.
ModelInputSafe == part = "ModelInput" => M!ModelInputSafe

\* None of the limits of a target is undone by one that comes after it.
OutputSafe == part = "Output" => O!OutputSafe

\* The delay neither loses nor overtakes an action, nor keeps one beyond R.
ActionDelaySafe == part = "ActionDelay" => D!ActionDelaySafe

\* The joint follows the messages of its own activation, and each as a whole.
JointControllerSafe == J!JointControllerSafe

\* Program, physics and policy agree on whether the simulation runs.
GazeboSafe == part = "Gazebo" => Z!GazeboSafe

\* What is observed and commanded is of the present, and of the present dance.
RealLinkSafe == part = "RealLink" => R!RealLinkSafe

\* What a pass reads of the motion without a lock is near its time and goes on.
MotionLoaderSafe == part = "MotionLoader" => F!MotionLoaderSafe

\* The terms of an observation are one frame, of the network that is given it.
MjlabMotionSafe == part = "MjlabMotion" => B!MjlabMotionSafe

\* Every orientation that is observed is the physical one, whatever the attitude.
OrientationSafe == part = "Orientation" => A!OrientationSafe

\* The robot is held to a heading of its own, the short way, unless it is turned.
HeadingHoldSafe == part = "HeadingHold" => H!HeadingHoldSafe

\* A model that is handed out answers, and with what was asked for.
InferenceSafe == part = "Inference" => N!InferenceSafe
=============================================================================
