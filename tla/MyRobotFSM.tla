---------------------------- MODULE MyRobotFSM ----------------------------
(***************************************************************************)
(* The six states of the robot `myrobot' (fsm_robot/fsm_myrobot.hpp) driven *)
(* by the engine FSMEngine, together with the input they read and the      *)
(* policy thread that moves their episode counter.                         *)
(*                                                                         *)
(* Three threads (LoopFunc): loop_control calls RobotControl, here one     *)
(* action per handler the engine calls and one for the end of the cycle;   *)
(* loop_keyboard (and loop_joystick) may change the input between any two  *)
(* of them; loop_rl runs the policy while rl_init_done is set.  How that   *)
(* thread races with Enter in detail is the subject of PolicyHandover.     *)
(***************************************************************************)
EXTENDS MyRobotPolicies, Sequences

CONSTANTS
    Keyboard,           \* the keys the operator may press
    Gamepad,            \* the buttons, each named by the key it doubles
    GetUpFrames,        \* Interpolate steps of GetUp
    GetDownFrames,      \* Interpolate steps of GetDown
    MaxEpisodeLength    \* max_episode_length of the dance and of mjlab

ASSUME MyRobotAssumption ==
    /\ "None" \notin Keyboard \cup Gamepad
    /\ GetUpFrames \in Nat \ {0}
    /\ GetDownFrames \in Nat \ {0}
    /\ MaxEpisodeLength \in Nat \ {0, 1}

InitialState == "Passive"
NotAState == "null"

VARIABLES
    current_state, next_state, previous_state, mode, call,   \* FSM
    current_keyboard, last_keyboard, current_gamepad,        \* Control
    percent_getup, percent_getdown,     \* in frames
    rl_init_done,       \* the policy thread may run
    episode_length_buf, \* policy steps of this episode, up to the maximum
    config_name,        \* the configuration the last learned state named
    model,              \* the configuration whose policy InitRL installed
    raised,             \* GetUp came to its end, and no other state has
                        \* commanded the joints since
    phase,              \* of RobotControl: "boot", "fsm" or "tail"
    quiet               \* the operator has left

fsm == <<current_state, next_state, previous_state, mode, call>>
input == <<current_keyboard, last_keyboard, current_gamepad>>
policy == <<rl_init_done, episode_length_buf, config_name, model>>
percent == <<percent_getup, percent_getdown, raised>>
vars == <<fsm, input, policy, percent, phase, quiet, deployment>>

Engine == INSTANCE FSMEngine

Init ==
    /\ Engine!Init
    /\ current_keyboard = "None"
    /\ last_keyboard = "None"
    /\ current_gamepad = "None"
    /\ percent_getup = 0
    /\ percent_getdown = 0
    /\ raised = FALSE
    /\ rl_init_done = FALSE
    /\ episode_length_buf = 0
    /\ deployment \in Deployment
    /\ config_name = FirstConfig
    /\ model = NotAState
    /\ phase = "boot"
    /\ quiet = FALSE
-----------------------------------------------------------------------------
(* CheckChange of each state: the first rule whose key is pressed wins.    *)

Pressed(k) == current_keyboard = k \/ current_gamepad = k

On(k, s) == [key |-> k, to |-> s]

FirstPressed(rules, otherwise) ==
    LET hits == {i \in DOMAIN rules : Pressed(rules[i].key)}
    IN  IF hits = {} THEN otherwise
        ELSE rules[CHOOSE i \in hits : \A j \in hits : i <= j].to

PassiveCheckChange == FirstPressed(<<On("Num0", "GetUp")>>, "Passive")

\* The skills are offered once the robot stands.
GetUpCheckChange ==
    LET stand == <<On("Num1", "RLLocomotion"),
                   On("Num2", "RLWholeBodyTrackingDance"),
                   On("Num3", "RLMjlabTracking"),
                   On("Num9", "GetDown")>>
    IN  FirstPressed(
            <<On("P", "Passive")>>
              \o (IF percent_getup >= GetUpFrames THEN stand ELSE <<>>),
            "GetUp")

GetDownCheckChange ==
    IF Pressed("P") \/ percent_getdown >= GetDownFrames
    THEN "Passive"
    ELSE FirstPressed(<<On("Num0", "GetUp")>>, "GetDown")

\* P is not among the rules: locomotion is kept when the robot falls.
RLLocomotionCheckChange ==
    FirstPressed(<<On("Num9", "GetDown"), On("Num0", "GetUp"),
                   On("Num1", "RLLocomotion"),
                   On("Num2", "RLWholeBodyTrackingDance"),
                   On("Num3", "RLMjlabTracking")>>,
                 "RLLocomotion")

\* The rules the dance and mjlab have in common; there is none for Num3.
ManualRules ==
    <<On("P", "Passive"), On("Num9", "GetDown"), On("Num0", "GetUp"),
      On("Num1", "RLLocomotion"), On("Num2", "RLWholeBodyTrackingDance")>>

EpisodeOver == episode_length_buf >= MaxEpisodeLength

\* Mutant: the comparison is off by one.
RLWholeBodyTrackingDanceCheckChangeLate ==
    FirstPressed(ManualRules, IF episode_length_buf > MaxEpisodeLength
                              THEN "GetDown" ELSE "RLWholeBodyTrackingDance")

RLWholeBodyTrackingDanceCheckChange ==
    FirstPressed(ManualRules, IF EpisodeOver THEN "GetDown"
                              ELSE "RLWholeBodyTrackingDance")

RLMjlabTrackingCheckChange ==
    FirstPressed(ManualRules, IF EpisodeOver THEN "GetDown"
                              ELSE "RLMjlabTracking")

CheckChangeOf(s) ==
    CASE s = "Passive"                  -> PassiveCheckChange
      [] s = "GetUp"                    -> GetUpCheckChange
      [] s = "GetDown"                  -> GetDownCheckChange
      [] s = "RLLocomotion"             -> RLLocomotionCheckChange
      [] s = "RLWholeBodyTrackingDance" -> RLWholeBodyTrackingDanceCheckChange
      [] s = "RLMjlabTracking"          -> RLMjlabTrackingCheckChange
-----------------------------------------------------------------------------
(* What the other handlers do to the variables outside the engine.         *)

\* Mutant: percent is not limited to 1.
InterpolateOvershoots(p, frames) ==
    {p + 1} \cup (IF p = 0 THEN {frames + 1} ELSE {})

\* One frame; a start that is within 0.1 rad of the target ends at once.
Interpolate(p, frames) ==
    IF p >= frames THEN {p}
    ELSE {p + 1} \cup (IF p = 0 THEN {frames} ELSE {})

\* Locomotion asks for the dance from Run, before it enables the policy.
RunRequest ==
    IF current_state = "RLLocomotion" /\ Pressed("Num2")
    THEN "RLWholeBodyTrackingDance" ELSE NotAState

\* GetUp raises the robot with its last frame and commands nothing after it,
\* as GetDown commands nothing when it is over; Passive and the policies write
\* the command in every cycle.
Raise ==
    raised' = CASE current_state = "GetUp" ->
                     IF percent_getup < GetUpFrames
                     THEN percent_getup' = GetUpFrames ELSE raised
                [] current_state = "GetDown" ->
                     raised /\ percent_getdown >= GetDownFrames
                [] OTHER -> FALSE

RunEffect ==
    /\ percent_getup' \in (IF current_state = "GetUp"
                           THEN Interpolate(percent_getup, GetUpFrames)
                           ELSE {percent_getup})
    /\ percent_getdown' \in (IF current_state = "GetDown"
                             THEN Interpolate(percent_getdown, GetDownFrames)
                             ELSE {percent_getdown})
    /\ Raise
    /\ rl_init_done' = \/ rl_init_done
                       \/ current_state \in RLState /\ RunRequest = NotAState
    /\ UNCHANGED <<episode_length_buf, config_name, model>>

\* Mutant: Exit leaves the policy enabled.
ExitKeepsPolicy == UNCHANGED <<percent, policy>>

ExitEffect ==
    /\ rl_init_done' = (rl_init_done /\ current_state \notin RLState)
    /\ UNCHANGED <<percent, episode_length_buf, config_name, model>>

\* Mutant: Enter keeps the progress of the last time.
EnterGetUpKeepsProgress == UNCHANGED <<percent, policy>>

EnterGetUp ==
    /\ percent_getup' = 0
    /\ UNCHANGED <<percent_getdown, raised, policy>>

EnterGetDown ==
    /\ percent_getdown' = 0
    /\ UNCHANGED <<percent_getup, raised, policy>>

\* Enter names the configuration, and InitRL succeeds and installs its policy,
\* or throws: before the new model is assigned (the old one stays), because the
\* new one is null, or after that.
EnterRL(ok) ==
    /\ episode_length_buf' = 0
    /\ config_name' = ConfigOf(next_state, config_name)
    /\ model' \in IF ok THEN {config_name'} ELSE {model, NotAState, config_name'}
    /\ rl_init_done' = (rl_init_done /\ ok)
    /\ UNCHANGED percent

\* The catch block asks for the passive state.
EnterRequest(ok) == IF ok THEN NotAState ELSE "Passive"
-----------------------------------------------------------------------------
(* The control thread.                                                     *)

\* CreateFSM, in the constructor: before the loops start.
Construct ==
    /\ phase = "boot"
    /\ Engine!SetInitialState
    /\ UNCHANGED <<input, policy, percent, phase, quiet>>

RunInNormal ==
    /\ phase = "fsm"
    /\ Engine!RunInNormal(RunRequest)
    /\ RunEffect
    /\ UNCHANGED <<input, phase, quiet>>

CheckChange ==
    /\ Engine!CheckChange(CheckChangeOf(current_state))
    /\ UNCHANGED <<input, policy, percent, phase, quiet>>

Exit ==
    /\ phase = "fsm"
    /\ Engine!Exit
    /\ ExitEffect
    /\ UNCHANGED <<input, phase, quiet>>

Enter ==
    /\ \/ /\ next_state = "Passive"
          /\ Engine!Enter(NotAState)
          /\ UNCHANGED <<percent, policy>>
       \/ next_state = "GetUp" /\ Engine!Enter(NotAState) /\ EnterGetUp
       \/ next_state = "GetDown" /\ Engine!Enter(NotAState) /\ EnterGetDown
       \/ /\ next_state \in RLState
          /\ \E ok \in BOOLEAN : Engine!Enter(EnterRequest(ok)) /\ EnterRL(ok)
    /\ UNCHANGED <<input, phase, quiet>>

RunAfterEnter ==
    /\ Engine!RunAfterEnter(RunRequest)
    /\ RunEffect
    /\ UNCHANGED <<input, phase, quiet>>

Return ==
    /\ Engine!Return
    /\ phase' = IF phase = "boot" THEN "fsm" ELSE "tail"
    /\ UNCHANGED <<input, policy, percent, quiet>>

\* The end of RobotControl: ClearInput puts the previous key back.
ClearInput ==
    /\ phase = "tail"
    /\ current_keyboard' = last_keyboard
    /\ current_gamepad' = "None"
    /\ phase' = "fsm"
    /\ UNCHANGED <<fsm, last_keyboard, policy, percent, quiet>>

Control ==
    /\ \/ Construct \/ RunInNormal \/ CheckChange \/ Exit \/ Enter
       \/ RunAfterEnter \/ Return \/ ClearInput
    /\ UNCHANGED deployment
-----------------------------------------------------------------------------
(* The other threads, which start after the constructor has built the FSM. *)

SetKeyboard(k) ==
    /\ phase # "boot" /\ ~quiet
    /\ k # current_keyboard
    /\ last_keyboard' = current_keyboard
    /\ current_keyboard' = k
    /\ UNCHANGED <<fsm, current_gamepad, policy, percent, phase, quiet,
                   deployment>>

SetGamepad(b) ==
    /\ phase # "boot" /\ ~quiet
    /\ b # current_gamepad
    /\ current_gamepad' = b
    /\ UNCHANGED <<fsm, current_keyboard, last_keyboard, policy, percent,
                   phase, quiet, deployment>>

\* No manual input arrives any more.
OperatorLeaves ==
    /\ ~quiet
    /\ quiet' = TRUE
    /\ UNCHANGED <<fsm, input, policy, percent, phase, deployment>>

\* One policy step; the counter is only compared with the maximum.
RunModel ==
    /\ rl_init_done
    /\ episode_length_buf < MaxEpisodeLength
    /\ episode_length_buf' = episode_length_buf + 1
    /\ UNCHANGED <<fsm, input, rl_init_done, config_name, model, percent,
                   phase, quiet, deployment>>

Next ==
    \/ Control
    \/ \E k \in Keyboard : SetKeyboard(k)
    \/ \E b \in Gamepad : SetGamepad(b)
    \/ OperatorLeaves
    \/ RunModel

Spec == Init /\ [][Next]_vars

\* loop_control and loop_rl call their functions every period; the operator
\* owes nothing.
FairSpec == Spec /\ WF_vars(Control) /\ WF_vars(RunModel)
-----------------------------------------------------------------------------
\* The variables have values of their types.
TypeOK ==
    /\ Engine!TypeOK
    /\ {current_keyboard, last_keyboard} \subseteq Keyboard \cup {"None"}
    /\ current_gamepad \in Gamepad \cup {"None"}
    /\ percent_getup \in 0 .. GetUpFrames
    /\ percent_getdown \in 0 .. GetDownFrames
    /\ rl_init_done \in BOOLEAN
    /\ episode_length_buf \in 0 .. MaxEpisodeLength
    /\ raised \in BOOLEAN
    /\ deployment \in Deployment
    /\ config_name \in Config \cup {""}
    /\ model \in Config \cup {NotAState}
    /\ phase \in {"boot", "fsm", "tail"}
    /\ quiet \in BOOLEAN

\* The configurations a learned state may run.  Locomotion is not tied to its
\* own: after mjlab tracking it keeps mjlab's, because only an empty name and
\* the dance's are replaced.
Admits ==
    [RLWholeBodyTrackingDance |-> {"whole_body_tracking"},
     RLMjlabTracking          |-> {"mjlab"},
     RLLocomotion             |-> Config \ {"whole_body_tracking"}]

\* The policy thread is enabled only in a learned state, with the model of the
\* configuration that state named: neither a failed InitRL nor a state that has
\* been left runs one, the dance and mjlab run their own policy, and
\* locomotion never the dance's.
PolicyGate ==
    rl_init_done => /\ current_state \in RLState
                    /\ model = config_name
                    /\ config_name \in Admits[current_state]

\* From a state without a policy, a learned one is chosen and entered only when
\* GetUp has brought the joints to the standing pose this time: not with the
\* progress of an earlier GetUp (percent_getup outlives its state), and not
\* after Passive or GetDown has commanded them since.  Nothing is claimed
\* between two learned states: a fall under a policy is not noticed, and the
\* next policy can be chosen from the floor.
PolicyOnlyStanding ==
    next_state \in RLState /\ current_state \notin RLState => raised

\* A learned state whose InitRL failed is given up for the passive state,
\* whatever keys are pressed meanwhile.
FailedEntryFallsBack ==
    (call = "Enter" /\ current_state \in RLState /\ model # config_name)
        ~> (current_state = "Passive")

\* GetDown always ends.
GetDownEnds == (current_state = "GetDown") ~> (current_state # "GetDown")

\* mjlab tracking always ends, at the latest with its motion.
MjlabEnds ==
    (current_state = "RLMjlabTracking") ~> (current_state # "RLMjlabTracking")

\* The dance ends by itself when the operator has left, provided that no dance
\* key is pressed or waiting to be put back by ClearInput.
DanceEnds ==
    (/\ quiet /\ current_state = "RLWholeBodyTrackingDance"
     /\ "Num2" \notin {current_keyboard, last_keyboard, current_gamepad})
        ~> (current_state # "RLWholeBodyTrackingDance")

\* No state is kept for ever that should end by itself: one whose policy could
\* not be loaded, the way down and mjlab whatever is pressed, the dance when the
\* operator has left.
StatesEnd == FailedEntryFallsBack /\ GetDownEnds /\ MjlabEnds /\ DanceEnds
=============================================================================
