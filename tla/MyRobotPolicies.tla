-------------------------- MODULE MyRobotPolicies --------------------------
(***************************************************************************)
(* The policies of the robot `myrobot' as data: what each configuration    *)
(* file under policy/myrobot defines, which configuration a learned state  *)
(* loads, and from which state it can be entered.  Only the parameters     *)
(* that distinguish the policies are kept.                                 *)
(***************************************************************************)
EXTENDS Naturals

VARIABLE deployment     \* the program that runs: "real" (rl_real_myrobot) or
                        \* "sim" (rl_sim_mujoco); it never changes

Deployment == {"real", "sim"}

Config == {"robot_lab_real", "robot_lab", "whole_body_tracking", "mjlab"}

RLState == {"RLLocomotion", "RLWholeBodyTrackingDance", "RLMjlabTracking"}
State == {"Passive", "GetUp", "GetDown"} \cup RLState

\* The states a state can be left for (CheckChange), the end of a motion and a
\* failed InitRL included.
Successors ==
    [Passive                  |-> {"GetUp"},
     GetUp                    |-> {"Passive", "GetDown"} \cup RLState,
     GetDown                  |-> {"Passive", "GetUp"},
     RLLocomotion             |-> {"GetUp", "GetDown",
                                   "RLWholeBodyTrackingDance",
                                   "RLMjlabTracking"},
     RLWholeBodyTrackingDance |-> {"Passive", "GetUp", "GetDown",
                                   "RLLocomotion"},
     RLMjlabTracking          |-> {"Passive", "GetUp", "GetDown",
                                   "RLLocomotion", "RLWholeBodyTrackingDance"}]

\* config_name as the constructor leaves it: the simulation does not set it.
FirstConfig == IF deployment = "real" THEN "robot_lab_real" ELSE ""

\* config_name after Enter of the state s: locomotion replaces an empty name
\* and the dance's, and keeps any other.
ConfigOf(s, config) ==
    CASE s = "RLWholeBodyTrackingDance" -> "whole_body_tracking"
      [] s = "RLMjlabTracking" -> "mjlab"
      [] s = "RLLocomotion" /\ config \in {"", "whole_body_tracking"}
            -> "robot_lab"
      [] OTHER -> config

\* Times are rates in Hz.  A clip range is named by its bound, 100 or 1.25.
Base ==
    IF deployment = "real" THEN [dt |-> 200, decimation |-> 4]
                           ELSE [dt |-> 240, decimation |-> 4]

Defines ==
    [robot_lab_real      |-> [dt |-> 200, decimation |-> 4,
                              clip_actions |-> "100"],
     robot_lab           |-> [clip_actions |-> "100",
                              action_type |-> "relative_position"],
     whole_body_tracking |-> [policy_step_time |-> 60,
                              clip_actions |-> "1.25",
                              action_type |-> "relative_position",
                              enable_q_target_clamp |-> TRUE,
                              max_episode_length |-> 1026],
     mjlab               |-> [dt |-> 200, decimation |-> 4,
                              policy_step_time |-> 50,
                              disable_action_clip |-> TRUE,
                              action_type |-> "default_position",
                              max_episode_length |-> 852]]

Has(params, key) == key \in DOMAIN params

\* GetPolicyStepTime, as a rate.
PolicyRate(params) ==
    IF Has(params, "policy_step_time") THEN params.policy_step_time
    ELSE params.dt \div params.decimation
=============================================================================
