----------------------------- MODULE ModelInput -----------------------------
(***************************************************************************)
(* What a policy network is given: the observation terms that its          *)
(* configuration lists (RL::ComputeObservation), stacked over the last     *)
(* passes by ObservationBuffer where the configuration asks for a history. *)
(*                                                                         *)
(* The values are left out.  A block <<k, t>> stands for the term t of the *)
(* observation of the k-th pass that reached the buffer since it was made, *)
(* k = 0 for the zeros it was made with.                                   *)
(***************************************************************************)
EXTENDS Integers, Sequences, SequencesExt

CONSTANTS
    Robots,         \* the robots of Policies that are looked at
    MaxPasses       \* bound on the passes between two entries

VARIABLES
    robot,
    backend,        \* "real" or "sim": the program whose Forward is used
    config,         \* the configuration in params: an element of Policies[robot]
    control,        \* "idle", or "init" while InitRL has the model lock
    rl_init_done,
    rl,             \* RunModel: "idle", or "begun" before its Forward
    history_obs_buf,\* the frames in the buffer, the newest first
    passes,         \* frames put into it since it was made
    input           \* what the network was given, NoInput before it is called

vars == <<robot, backend, config, control, rl_init_done, rl, history_obs_buf,
          passes, input>>

NoInput == <<<<0, 0>>>>

Policy(dofs, num, terms, ids, priority) ==
    [dofs |-> dofs, num |-> num, terms |-> terms, ids |-> ids,
     priority |-> priority]

Basic == <<"ang_vel", "gravity_vec", "commands", "dof_pos", "dof_vel", "actions">>

A1LeggedGym == Policy(12, 45, Basic, <<5, 4, 3, 2, 1, 0>>, "time")

Go2HimLoco ==
    Policy(12, 45, <<"commands", "ang_vel", "gravity_vec", "dof_pos", "dof_vel",
                     "actions">>, <<0, 1, 2, 3, 4, 5>>, "time")

G1Locomotion == Policy(29, 96, Basic, <<>>, "time")

G1Charleston ==
    Policy(29, 94, <<"ang_vel", "gravity_vec", "dof_pos", "dof_vel", "actions",
                     "RoboMimic_Deploy/phase">>, <<0, 1, 2, 3>>, "time")

G1Dance ==
    Policy(29, 154, <<"whole_body_tracking/motion_command",
                      "whole_body_tracking/motion_anchor_ori_b", "ang_vel",
                      "dof_pos", "dof_vel", "actions">>, <<>>, "time")

MyRobotLocomotion ==
    Policy(21, 72, <<"ang_vel", "gravity_vec", "commands", "dof_pos", "dof_vel",
                     "actions_history">>, <<>>, "time")

MyRobotDance ==
    Policy(21, 89, <<"whole_body_tracking/joint_pos",
                     "whole_body_tracking/joint_vel",
                     "whole_body_tracking/root_pos_relative",
                     "whole_body_tracking/ref_body_quat_tan_norm",
                     "whole_body_tracking/key_body_pos_relative",
                     "whole_body_tracking/progress">>, <<>>, "time")

MyRobotMjlab ==
    Policy(21, 114, <<"mjlab/command", "mjlab/motion_anchor_ori_b", "ang_vel",
                      "dof_pos", "dof_vel", "actions">>, <<>>, "time")

\* The two buffers of test_observation_buffer.cpp, whose terms are 2, 3 and 4
\* wide and whose history repeats an entry.
TestBuffer(priority) ==
    Policy(1, 9, <<"test_2", "test_3", "test_4">>, <<0, 0, 1, 2>>, priority)

Policies ==
    [a1      |-> {A1LeggedGym},
     go2     |-> {Go2HimLoco},
     g1      |-> {G1Locomotion, G1Charleston, G1Dance},
     myrobot |-> {MyRobotLocomotion, MyRobotDance, MyRobotMjlab},
     test    |-> {TestBuffer("time"), TestBuffer("term")}]

ModelInputAssumption == Robots \subseteq DOMAIN Policies /\ MaxPasses \in Nat

\* actions_history_length and the number of key bodies, the same everywhere.
K == 1
KeyBodies == 13

\* Of the terms that come from a reference motion.
MotionWidth(term, dofs) ==
    CASE term \in {"RoboMimic_Deploy/phase", "whole_body_tracking/progress"} -> 1
      [] term = "whole_body_tracking/root_xy_relative" -> 2
      [] term \in {"mjlab/command", "whole_body_tracking/motion_command"} -> 2 * dofs
      [] OTHER -> 6         \* the two motion_anchor_ori_b

\* How many numbers ComputeObservation appends for a term.
Width(term, dofs) ==
    CASE term \in {"ang_vel", "gravity_vec", "commands", "test_3"} -> 3
      [] term \in {"dof_pos", "dof_vel", "actions", "whole_body_tracking/joint_pos",
                   "whole_body_tracking/joint_vel"} -> dofs
      [] term = "actions_history" -> K * dofs
      [] term = "whole_body_tracking/root_pos_relative" -> 1
      [] term = "whole_body_tracking/ref_body_quat_tan_norm" -> 6
      [] term = "whole_body_tracking/key_body_pos_relative" -> 3 * KeyBodies
      [] term = "test_2" -> 2
      [] term = "test_4" -> 4
      [] OTHER -> MotionWidth(term, dofs)

Sum(widths) ==
    LET Upto[n \in 0 .. Len(widths)] ==
            IF n = 0 THEN 0 ELSE Upto[n - 1] + widths[n]
    IN  Upto[Len(widths)]

obs_dims(c) == [t \in DOMAIN c.terms |-> Width(c.terms[t], c.dofs)]
ComputeObservation(c) == Sum(obs_dims(c))

FramesOf(c) == 1 + CHOOSE i \in Range(c.ids) : \A j \in Range(c.ids) : j <= i

Init ==
    /\ robot \in Robots
    /\ backend \in {"real", "sim"}
    /\ config \in Policies[robot]
    /\ control = "idle" /\ rl_init_done = FALSE
    /\ rl = "idle"
    /\ history_obs_buf = <<>> /\ passes = 0
    /\ input = NoInput
-----------------------------------------------------------------------------
(* The control thread.                                                     *)

Exit ==
    /\ control = "idle" /\ rl_init_done
    /\ rl_init_done' = FALSE
    /\ UNCHANGED <<robot, backend, config, control, rl, history_obs_buf, passes,
                   input>>

\* InitRL takes the model lock and reads the configuration ...
InitRL(c) ==
    /\ control = "idle" /\ ~rl_init_done
    /\ control' = "init"
    /\ config' = c
    /\ UNCHANGED <<robot, backend, rl_init_done, rl, history_obs_buf, passes,
                   input>>

\* ... and makes a buffer, of zeros, if there is to be a history.
InitHistory(c) ==
    IF c.ids = <<>> THEN history_obs_buf
    ELSE [i \in 1 .. FramesOf(c) |-> 0]

InitRLEnd ==
    /\ control = "init"
    /\ control' = "idle"
    /\ history_obs_buf' = InitHistory(config)
    /\ passes' = 0
    /\ input' = NoInput
    /\ rl_init_done' = TRUE
    /\ UNCHANGED <<robot, backend, config, rl>>
-----------------------------------------------------------------------------
(* The policy thread.                                                      *)

RunModel ==
    /\ rl = "idle" /\ rl_init_done
    /\ rl' = "begun"
    /\ UNCHANGED <<robot, backend, config, control, rl_init_done,
                   history_obs_buf, passes, input>>

\* try_lock fails: the previous actions are used.
UsePreviousActions ==
    /\ rl = "begun" /\ control = "init"
    /\ rl' = "idle"
    /\ UNCHANGED <<robot, backend, config, control, rl_init_done,
                   history_obs_buf, passes, input>>

\* The simulation pads or cuts the observation to num_observations.
ObservationWidth(c) ==
    IF backend = "sim" THEN c.num ELSE ComputeObservation(c)

\* Mutant: the newest frame goes to the far end.
insertAtEnd(buffer, frame, width, c) ==
    IF buffer = <<>> \/ width # ComputeObservation(c) THEN buffer
    ELSE Append(Tail(buffer), frame)

\* ObservationBuffer::insert ignores a frame of another width.
insert(buffer, frame, width, c) ==
    IF buffer = <<>> \/ width # ComputeObservation(c) THEN buffer
    ELSE <<frame>> \o Front(buffer)

\* The terms of a frame; one that the buffer does not have adds nothing.
Slice(buffer, i, terms) ==
    IF i \in 0 .. Len(buffer) - 1
    THEN [t \in DOMAIN terms |-> <<buffer[i + 1], terms[t]>>]
    ELSE <<>>

\* Those of the frames that the configuration asks for.
History(buffer, c, terms) ==
    FlattenSeq([k \in DOMAIN c.ids |-> Slice(buffer, c.ids[k], terms)])

\* By time the frames one after the other, by term the history of each term.
\* Nothing is returned when no id is below the number of terms.
get_obs_vec(buffer, c) ==
    IF \/ buffer = <<>>
       \/ \A k \in DOMAIN c.ids : c.ids[k] \notin 0 .. Len(c.terms) - 1
    THEN <<>>
    ELSE IF c.priority = "time"
    THEN History(buffer, c, [t \in DOMAIN c.terms |-> t])
    ELSE FlattenSeq([t \in DOMAIN c.terms |-> History(buffer, c, <<t>>)])

Forward ==
    /\ rl = "begun" /\ control = "idle"
    /\ rl' = "idle"
    /\ IF config.ids = <<>>
       THEN /\ input' = [t \in DOMAIN config.terms |-> <<passes + 1, t>>]
            /\ UNCHANGED <<history_obs_buf, passes>>
       ELSE /\ passes < MaxPasses
            /\ history_obs_buf' = insert(history_obs_buf, passes + 1,
                                         ObservationWidth(config), config)
            /\ input' = get_obs_vec(history_obs_buf', config)
            /\ passes' = passes + 1
    /\ UNCHANGED <<robot, backend, config, control, rl_init_done>>

Next ==
    \/ Exit \/ InitRLEnd \/ \E c \in Policies[robot] : InitRL(c)
    \/ RunModel \/ UsePreviousActions \/ Forward

Spec == Init /\ [][Next]_vars
-----------------------------------------------------------------------------
\* The variables have values of their types.
TypeOK ==
    /\ config \in Policies[robot]
    /\ backend \in {"real", "sim"} /\ control \in {"idle", "init"}
    /\ rl \in {"idle", "begun"} /\ rl_init_done \in BOOLEAN
    /\ \A i \in DOMAIN history_obs_buf : history_obs_buf[i] \in Nat
    /\ passes \in Nat

\* The network is given as many numbers as it was trained with, once per frame
\* of its history: no term is wider or narrower than the configuration says, and
\* no frame is dropped.  (Without a history the simulation pads or cuts.)
InputFits ==
    /\ input # NoInput /\ control = "idle"
    /\ backend = "real" \/ config.ids # <<>>
    =>  Sum([b \in DOMAIN input |-> Width(config.terms[input[b][2]], config.dofs)])
          = config.num * (IF config.ids = <<>> THEN 1 ELSE Len(config.ids))

\* The k-th entry of the history is the frame of as many passes ago as the
\* configuration says, or zeros if there were none since InitRL, in the order of
\* the configuration: by time frame after frame, by term history after history.
HistoryAsConfigured ==
    (input # NoInput /\ control = "idle" /\ config.ids # <<>>) =>
        LET T == Len(config.terms)
            N == Len(config.ids)
            Frame(k) == IF config.ids[k] < passes THEN passes - config.ids[k] ELSE 0
        IN  /\ Len(input) = T * N
            /\ \A k \in 1 .. N, t \in 1 .. T :
                  input[IF config.priority = "time" THEN (k - 1) * T + t
                                                    ELSE (t - 1) * N + k]
                      = <<Frame(k), t>>

\* The network is given what it was trained with, in width and in order.
ModelInputSafe == TypeOK /\ InputFits /\ HistoryAsConfigured
=============================================================================
