---------------------------- MODULE PolicyConfig ----------------------------
(***************************************************************************)
(* What the learned states leave behind for one another: config_name, the  *)
(* parameters, the model and the period of the policy loop.  ReadYaml      *)
(* writes the keys of a file over those that are there and removes none,   *)
(* so the parameters in force depend on the states visited before.         *)
(***************************************************************************)
EXTENDS MyRobotPolicies

VARIABLES
    state,          \* the state of the FSM
    config_name,
    params,         \* params.config_node
    model,          \* the config whose model is loaded, or "null"
    period,         \* of loop_rl, as a rate
    control_period, \* of loop_control, as a rate
    rl_init_done

vars == <<deployment, state, config_name, params, model, period,
          control_period, rl_init_done>>

Init ==
    /\ deployment \in Deployment
    /\ state = "Passive"
    /\ config_name = FirstConfig
    /\ params = Base
    /\ model = "null"
    /\ period = PolicyRate(Base)
    /\ control_period = Base.dt
    /\ rl_init_done = FALSE

\* The keys of both; of those in both, the new ones.
Overlaid(new, old) ==
    [key \in DOMAIN new \cup DOMAIN old |->
        IF key \in DOMAIN new THEN new[key] ELSE old[key]]

\* Mutant: a key that is there is not replaced.
ReadYamlKeeps(config) == Overlaid(params, Defines[config])
ReadYaml(config) == Overlaid(Defines[config], params)

\* Exit of a learned state stops the policy, Enter of s loads another one.
InitRL(s) ==
    LET config == ConfigOf(s, config_name)
    IN  /\ state' = s
        /\ config_name' = config
        /\ params' = ReadYaml(config)
        /\ model' = config
        /\ period' = PolicyRate(params')
        /\ rl_init_done' = FALSE
        /\ UNCHANGED control_period

\* Mutant: the catch block does not stop the state from running its policy.
InitRLThrowsUnnoticed(s) ==
    LET config == ConfigOf(s, config_name)
    IN  /\ state' = s
        /\ config_name' = config
        /\ params' \in {params, ReadYaml(config)}
        /\ model' \in {model, "null"}
        /\ rl_init_done' = FALSE
        /\ UNCHANGED <<period, control_period>>

\* InitRL throws: the file cannot be parsed, the model is missing or cannot be
\* loaded.  The catch block sends the robot to the passive state.
InitRLThrows(s) ==
    LET config == ConfigOf(s, config_name)
    IN  /\ state' = "Passive"
        /\ config_name' = config
        /\ \/ params' = params /\ model' = model
           \/ params' = ReadYaml(config) /\ model' \in {model, "null"}
        /\ rl_init_done' = FALSE
        /\ UNCHANGED <<period, control_period>>

EnterRL ==
    \E s \in Successors[state] \cap RLState : InitRL(s) \/ InitRLThrows(s)

EnterOther ==
    /\ \E s \in Successors[state] \ RLState : state' = s
    /\ rl_init_done' = FALSE
    /\ UNCHANGED <<config_name, params, model, period, control_period>>

\* Run of a learned state enables the policy thread.
Run ==
    /\ state \in RLState
    /\ rl_init_done' = TRUE
    /\ UNCHANGED <<state, config_name, params, model, period, control_period>>

\* Forward clips the raw action: only the simulation asks disable_action_clip.
Clips(p) ==
    /\ Has(p, "clip_actions")
    /\ deployment = "real" \/ ~Has(p, "disable_action_clip")

\* ComputeOutput clamps the target to the range of the dance's joints.
Clamps(p) == Has(p, "enable_q_target_clamp")

Next == (EnterRL \/ EnterOther \/ Run) /\ UNCHANGED deployment

Spec == Init /\ [][Next]_vars
-----------------------------------------------------------------------------
Keys == DOMAIN Base \cup UNION {DOMAIN Defines[c] : c \in Config}

\* The variables have values of their types; the base parameters never go.
TypeOK ==
    /\ deployment \in Deployment
    /\ state \in State
    /\ config_name \in Config \cup {""}
    /\ DOMAIN Base \subseteq DOMAIN params
    /\ DOMAIN params \subseteq Keys
    /\ model \in Config \cup {"null"}
    /\ {period, control_period} \subseteq {50, 60, 200, 240}
    /\ rl_init_done \in BOOLEAN

\* While the policy runs, the model, the period of its loop and every parameter
\* that the file of config_name defines are those of this one configuration,
\* whatever was loaded, or failed to load, before; and for the dance and for
\* mjlab it is their own.  Locomotion runs what it found in config_name, unless
\* that was the dance's: after mjlab, mjlab's file and model.
RunsItsOwnConfig ==
    rl_init_done =>
        /\ model = config_name
        /\ period = PolicyRate(params)
        /\ \A k \in DOMAIN Defines[config_name] :
               params[k] = Defines[config_name][k]
        /\ state = "RLWholeBodyTrackingDance" =>
               config_name = "whole_body_tracking"
        /\ state = "RLMjlabTracking" => config_name = "mjlab"
        /\ state = "RLLocomotion" => config_name # "whole_body_tracking"

\* Each tracking policy runs at the rate it was trained at: the rate of the
\* other one, or of locomotion, does not survive in the parameters.
TrackingAtItsRate ==
    rl_init_done =>
        /\ state = "RLWholeBodyTrackingDance" => period = 60
        /\ state = "RLMjlabTracking" => period = 50

\* On the real robot the frames Interpolate counts and the time RLControl adds
\* per cycle are those of the loop that calls them.  (In the simulation mjlab's
\* file changes dt under a loop whose period stays.)
DtIsControlPeriod == deployment = "real" => params.dt = control_period

\* Claimed by OnPolicyConfigLoaded, on entering mjlab: "q_target =
\* default_dof_pos + action_scale(.)action (no action clip)", whatever ran
\* before.  A clip to 100 changes nothing.
MjlabTargetIsOffset ==
    rl_init_done /\ state = "RLMjlabTracking" =>
        /\ Clips(params) => params.clip_actions = "100"
        /\ ~Clamps(params)

\* The periods of the loops are those of the files of the states they serve.
RatesAgree == TypeOK /\ TrackingAtItsRate /\ DtIsControlPeriod
=============================================================================
