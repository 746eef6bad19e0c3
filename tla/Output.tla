------------------------------- MODULE Output -------------------------------
(***************************************************************************)
(* From the action of a policy to the target of one joint                  *)
(* (RL::ComputeOutput), pass after pass, while the joint follows.          *)
(*                                                                         *)
(* Angles and torques are small integers; the order of scaling, clipping,  *)
(* dead zone, limits, rate limit and ramp is that of the code.             *)
(***************************************************************************)
EXTENDS Integers, FiniteSetsExt

CONSTANTS
    MaxAngle,       \* bound: the joint's mechanical stops
    MaxAction       \* bound: the largest action, as the network gives it

\* The least that makes sense; the runs assume it.
OutputAssumption == {MaxAngle, MaxAction} \subseteq Nat \ {0}

Angles == -MaxAngle .. MaxAngle
Actions == -MaxAction .. MaxAction

\* The keys of a configuration that decide how an action is turned into a target.
Configurations ==
    [relative_position : BOOLEAN, use_soft_joint_pos_action : BOOLEAN,
     soft_limit_apply_action_scale : BOOLEAN, disable_action_clip : BOOLEAN,
     enable_q_target_clamp : BOOLEAN, enable_q_target_rate_limit : BOOLEAN,
     enable_action_ramp : BOOLEAN, wheel : BOOLEAN]

action_scale == 2
clip_actions == [lower |-> -3, upper |-> 3]
action_deadzone == [lower |-> -1, upper |-> 2]
default_dof_pos == 1
q_target_lower == -2
q_target_upper == 2
q_target_max_step == 1
soft_joint_pos == [min |-> -2, max |-> 1]
action_ramp_passes == 3
rl_kp == 2
rl_kd == 1
torque_limits == 3

VARIABLES
    params,
    episode_length_buf,
    q,                  \* the measured angle
    q_at,               \* ... when the last target was computed
    output_dof_pos, output_dof_vel, output_dof_tau

vars == <<params, episode_length_buf, q, q_at, output_dof_pos, output_dof_vel,
          output_dof_tau>>

Clamp(x, lower, upper) == IF x < lower THEN lower ELSE IF x > upper THEN upper ELSE x

Clip(x) ==
    IF params.disable_action_clip THEN x
    ELSE Clamp(x, clip_actions.lower, clip_actions.upper)

Deadzone(x) ==
    IF x > action_deadzone.lower /\ x < action_deadzone.upper THEN 0 ELSE x

LimitAngle(x) ==
    IF params.enable_q_target_clamp THEN Clamp(x, q_target_lower, q_target_upper)
    ELSE x

\* Mutant: the step is limited around the target before.
LimitStepOfTarget(x) ==
    IF params.enable_q_target_rate_limit
    THEN Clamp(x, output_dof_pos - q_target_max_step, output_dof_pos + q_target_max_step)
    ELSE x

LimitStep(x) ==
    IF params.enable_q_target_rate_limit
    THEN Clamp(x, q - q_target_max_step, q + q_target_max_step) ELSE x

Ramp(x) ==
    IF params.enable_action_ramp
    THEN LET alpha == Min({episode_length_buf + 1, action_ramp_passes})
             way == alpha * (x - q)
         IN  q + (IF way >= 0 THEN way \div action_ramp_passes
                  ELSE -(-way \div action_ramp_passes))
    ELSE x

apply_q_target_safety(x) == Ramp(LimitStep(LimitAngle(x)))

\* The middle of the soft limits plus their width times the action.
SoftAction(a) ==
    IF params.soft_limit_apply_action_scale THEN action_scale * a ELSE Clip(a)

SoftPosition(a) ==
    (soft_joint_pos.max + soft_joint_pos.min) \div 2
        + (soft_joint_pos.max - soft_joint_pos.min) * SoftAction(a)

\* A wheel is driven by its velocity; its position does not take part.
PositionAction(a) ==
    Deadzone(IF params.wheel THEN 0 ELSE Clip(action_scale * a))

Position(a) ==
    IF params.relative_position THEN q + PositionAction(a)
    ELSE PositionAction(a) + default_dof_pos

Velocity(a) ==
    IF ~params.wheel THEN 0
    ELSE IF params.use_soft_joint_pos_action THEN SoftAction(a)
    ELSE Clip(action_scale * a)

\* The delta itself is the torque of a relative action, before the safety limits.
Stretch(a) ==
    IF params.relative_position /\ ~params.use_soft_joint_pos_action
    THEN PositionAction(a) ELSE output_dof_pos' - q

Init ==
    /\ params \in Configurations
    /\ episode_length_buf = 0
    /\ q \in Angles /\ q_at = q
    /\ output_dof_pos = q /\ output_dof_vel = 0 /\ output_dof_tau = 0

\* A policy state is entered: InitOutputs, and the episode begins.
InitOutputs ==
    /\ episode_length_buf' = 0
    /\ q_at' = q
    /\ output_dof_pos' = default_dof_pos
    /\ output_dof_vel' = 0 /\ output_dof_tau' = 0
    /\ UNCHANGED <<params, q>>

\* One pass.  The counter of passes stops at the end of the ramp.
ComputeOutput(a) ==
    /\ episode_length_buf' = Min({episode_length_buf + 1, action_ramp_passes})
    /\ q_at' = q
    /\ output_dof_pos' =
          apply_q_target_safety(IF params.use_soft_joint_pos_action
                                THEN SoftPosition(a) ELSE Position(a))
    /\ output_dof_vel' = Velocity(a)
    /\ output_dof_tau' =
          Clamp(rl_kp * Stretch(a) + rl_kd * output_dof_vel', -torque_limits,
                torque_limits)
    /\ UNCHANGED <<params, q>>

\* The joint moves, towards the target or pushed from outside.
Move ==
    /\ q' \in {q - 1, q + 1} \cap Angles
    /\ UNCHANGED <<params, episode_length_buf, q_at, output_dof_pos,
                   output_dof_vel, output_dof_tau>>

Next == InitOutputs \/ Move \/ \E a \in Actions : ComputeOutput(a)

Spec == Init /\ [][Next]_vars
-----------------------------------------------------------------------------
\* The variables have values of their types.
TypeOK ==
    /\ params \in Configurations
    /\ episode_length_buf \in 0 .. action_ramp_passes
    /\ {q, q_at} \subseteq Angles
    /\ {output_dof_pos, output_dof_vel, output_dof_tau} \subseteq Int
    /\ output_dof_tau \in -torque_limits .. torque_limits

Computed == episode_length_buf > 0

\* With the limits of the target on, no pass drives a joint out of them, nor
\* further out when it was pushed out: what the rate limit and the ramp do after
\* the limits stays between the joint and the limits.
TargetInLimits ==
    Computed /\ params.enable_q_target_clamp =>
        output_dof_pos \in Min({q_target_lower, q_at}) .. Max({q_target_upper, q_at})

\* With the rate limit on, no target is further from where the joint was measured
\* than one step, and none in the first passes of a ramp either.
StepInLimits ==
    Computed /\ params.enable_q_target_rate_limit =>
        output_dof_pos - q_at \in -q_target_max_step .. q_target_max_step


\* None of the limits of a target is undone by one that comes after it.
OutputSafe == TypeOK /\ TargetInLimits /\ StepInLimits
=============================================================================
