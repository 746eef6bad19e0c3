------------------------------ MODULE RobotFSM ------------------------------
(***************************************************************************)
(* The states of the robots other than `myrobot' on the engine FSMEngine,  *)
(* with the policy thread.  These states do not empty the queue of frames  *)
(* when they are entered, so frames are part of the model: `own' when      *)
(* their pass of RunModel began after the latest entry of a learned state, *)
(* `old' otherwise.                                                        *)
(*                                                                         *)
(* The keyboard and the gamepad are written by other threads (see the      *)
(* modules OperatorInput and Gamepad): here each CheckChange reads any key *)
(* and any button.                                                         *)
(***************************************************************************)
EXTENDS RobotStates, Naturals

CONSTANTS
    Robots,         \* the robots, names of Fleet
    Frames,         \* Interpolate steps of each motion
    MotionSteps,    \* policy steps after which a motion has ended
    MaxBacklog      \* frames that wait for the control thread

ASSUME RobotAssumption ==
    /\ Robots \subseteq DOMAIN Fleet
    /\ Frames \in Nat \ {0}
    /\ MotionSteps \in Nat \ {0}
    /\ MaxBacklog \in Nat \ {0}

InitialState == "Passive"
NotAState == "null"

VARIABLES
    robot,
    current_state, next_state, previous_state, mode, call,   \* FSM
    terminated,         \* an exception has left the control thread
    percent_pre_getup, percent_getup, percent_getdown,       \* in frames
    stand_from_passive,
    rl_init_done,
    episode_length_buf, \* up to MotionSteps
    model,              \* configuration of the model InitRL loaded last
    pass,               \* of the policy thread: "none", "own" or "old"
    queue,              \* output_dof_pos_queue, of "own" and "old"
    stale,              \* old frames applied since the latest entry
    posture,            \* of the robot: "low", "up" or "between"
    start_state         \* the posture GetDown returns to

fsm == <<current_state, next_state, previous_state, mode, call>>
percent == <<percent_pre_getup, percent_getup, percent_getdown,
             stand_from_passive>>
policy == <<rl_init_done, episode_length_buf, model>>
frames == <<pass, queue, stale>>
body == <<posture, start_state>>
vars == <<robot, fsm, terminated, percent, policy, frames, body>>

Engine == INSTANCE FSMEngine

Skills == Fleet[robot].skills
Learned(s) == s \in DOMAIN Skills

Init ==
    /\ robot \in Robots
    /\ Engine!Init
    /\ terminated = FALSE
    /\ percent_pre_getup = 0 /\ percent_getup = 0 /\ percent_getdown = 0
    /\ stand_from_passive = TRUE
    /\ rl_init_done = FALSE
    /\ episode_length_buf = 0
    /\ model = "none"
    /\ pass = "none" /\ queue = <<>> /\ stale = 0
    /\ posture = "low" /\ start_state = "low"
-----------------------------------------------------------------------------
(* CheckChange of each state, given the keys that are pressed.             *)

FirstPressed(rules, pressed, otherwise) ==
    LET hits == {i \in DOMAIN rules : rules[i].key \in pressed}
    IN  IF hits = {} THEN otherwise
        ELSE rules[CHOOSE i \in hits : \A j \in hits : i <= j].to

GetUpRules ==
    IF percent_getup >= Frames
    THEN <<On("P", "Passive"), On("Num1", Fleet[robot].ready),
           On("Num9", "GetDown")>>
    ELSE <<On("P", "Passive")>>

GetDownAnswer(pressed) ==
    IF percent_getdown >= Frames THEN "Passive"
    ELSE FirstPressed(<<On("P", "Passive"), On("Num0", "GetUp")>>, pressed,
                      "GetDown")

Answer(pressed) ==
    CASE current_state = "Passive" ->
            FirstPressed(<<On("Num0", "GetUp")>>, pressed, "Passive")
      [] current_state = "GetUp" -> FirstPressed(GetUpRules, pressed, "GetUp")
      [] current_state = "GetDown" -> GetDownAnswer(pressed)
      [] Learned(current_state) ->
            FirstPressed(Skills[current_state].rules, pressed, current_state)
-----------------------------------------------------------------------------
(* Run of each state.                                                      *)

\* A start within 0.1 rad of the target ends at once.
Interpolate(p) ==
    IF p >= Frames THEN {p}
    ELSE {p + 1} \cup (IF p = 0 THEN {Frames} ELSE {})

\* The motors are damped: a robot off the ground sinks, sooner or later.
RunPassive ==
    /\ posture' \in {posture, "low"}
    /\ UNCHANGED <<percent, policy, frames, start_state>>

\* From the floor by way of pre_running_pos, if there is one.  In the frame
\* that reaches it the second half begins; it is too far for a jump.  A motion
\* that is over commands nothing.
RunGetUp ==
    /\ IF Fleet[robot].crouches /\ stand_from_passive
       THEN /\ percent_pre_getup' \in Interpolate(percent_pre_getup)
            /\ percent_getup' =
                 IF percent_pre_getup' >= Frames /\ percent_getup < Frames
                 THEN percent_getup + 1 ELSE percent_getup
       ELSE /\ percent_getup' \in Interpolate(percent_getup)
            /\ UNCHANGED percent_pre_getup
    /\ posture' = IF percent_getup >= Frames THEN posture
                  ELSE IF percent_getup' >= Frames THEN "up" ELSE "between"
    /\ UNCHANGED <<percent_getdown, stand_from_passive, policy, frames,
                   start_state>>

RunGetDown ==
    /\ percent_getdown' \in Interpolate(percent_getdown)
    /\ posture' = IF percent_getdown >= Frames THEN posture
                  ELSE IF percent_getdown' >= Frames THEN start_state
                  ELSE "between"
    /\ UNCHANGED <<percent_pre_getup, percent_getup, stand_from_passive, policy,
                   frames, start_state>>

\* The policy thread is let go, and RLControl applies the next frame, if any;
\* it may make the robot fall.
RunLearned ==
    /\ rl_init_done' = TRUE
    /\ queue' = IF queue = <<>> THEN queue ELSE Tail(queue)
    /\ stale' = IF queue # <<>> /\ Head(queue) = "old" THEN stale + 1 ELSE stale
    /\ posture' \in {"low", "up"}
    /\ UNCHANGED <<percent, episode_length_buf, model, pass, start_state>>

RunEffect ==
    CASE current_state = "Passive" -> RunPassive
      [] current_state = "GetUp" -> RunGetUp
      [] current_state = "GetDown" -> RunGetDown
      [] Learned(current_state) -> RunLearned

\* Mutant: the end of the motion is only noticed after it.
RunRequestLate ==
    IF /\ Learned(current_state) /\ Skills[current_state].ends
       /\ episode_length_buf > MotionSteps
    THEN Home ELSE NotAState

\* At the end of its motion a state asks for locomotion.
RunRequest ==
    IF /\ Learned(current_state) /\ Skills[current_state].ends
       /\ episode_length_buf >= MotionSteps
    THEN Home ELSE NotAState
-----------------------------------------------------------------------------
(* Enter and Exit of each state.                                           *)

\* Mutant: Enter keeps the progress of the last time.
EnterGetUpKeepsProgress ==
    /\ stand_from_passive' = (current_state = "Passive")
    /\ start_state' = posture
    /\ UNCHANGED <<percent_pre_getup, percent_getup, percent_getdown, policy,
                   frames, posture>>

EnterGetUp ==
    /\ percent_pre_getup' = 0 /\ percent_getup' = 0
    /\ stand_from_passive' = (current_state = "Passive")
    /\ start_state' = posture
    /\ UNCHANGED <<percent_getdown, policy, frames, posture>>

EnterGetDown ==
    /\ percent_getdown' = 0
    /\ UNCHANGED <<percent_pre_getup, percent_getup, stand_from_passive, policy,
                   frames, body>>

Aged(q) == [i \in DOMAIN q |-> "old"]

\* InitRL and the motion file are there, or an exception is thrown: before the
\* model is assigned, because it is null, or after it for want of the file.
EnterLearned(s, ok) ==
    /\ episode_length_buf' = 0
    /\ model' \in
         IF ok THEN {Skills[s].config}
         ELSE {model, "none"}
                \cup (IF Skills[s].file THEN {Skills[s].config} ELSE {})
    /\ rl_init_done' = (rl_init_done /\ ok)
    /\ queue' = Aged(queue)
    /\ pass' = IF pass = "none" THEN "none" ELSE "old"
    /\ stale' = 0
    /\ UNCHANGED <<percent, body>>

EnterRequest(ok) == IF ok THEN NotAState ELSE "Passive"

ExitEffect ==
    /\ rl_init_done' = (rl_init_done /\ ~Learned(current_state))
    /\ UNCHANGED <<percent, episode_length_buf, model, frames, body>>
-----------------------------------------------------------------------------
(* The control thread.                                                     *)

Construct ==
    /\ Engine!SetInitialState
    /\ UNCHANGED <<robot, terminated, percent, policy, frames, body>>

RunInNormal ==
    /\ ~terminated
    /\ Engine!RunInNormal(RunRequest)
    /\ RunEffect
    /\ UNCHANGED <<robot, terminated>>

CheckChange(pressed) ==
    /\ call = "Run"
    /\ Answer(pressed) \in StatesOf(robot)
    /\ Engine!CheckChange(Answer(pressed))
    /\ UNCHANGED <<robot, terminated, percent, policy, frames, body>>

\* states_.at throws, and nothing on the control thread catches it.
CheckChangeThrows(pressed) ==
    /\ call = "Run" /\ ~terminated
    /\ Answer(pressed) \notin StatesOf(robot)
    /\ terminated' = TRUE
    /\ mode' = "CHANGE"
    /\ UNCHANGED <<robot, current_state, next_state, previous_state, call,
                   percent, policy, frames, body>>

Exit ==
    /\ Engine!Exit
    /\ ExitEffect
    /\ UNCHANGED <<robot, terminated>>

Enter ==
    /\ \/ /\ next_state = "Passive"
          /\ Engine!Enter(NotAState)
          /\ UNCHANGED <<percent, policy, frames, body>>
       \/ next_state = "GetUp" /\ Engine!Enter(NotAState) /\ EnterGetUp
       \/ next_state = "GetDown" /\ Engine!Enter(NotAState) /\ EnterGetDown
       \/ /\ Learned(next_state)
          /\ \E ok \in BOOLEAN :
                /\ ok => Skills[next_state].deployed
                /\ Engine!Enter(EnterRequest(ok))
                /\ EnterLearned(next_state, ok)
    /\ UNCHANGED <<robot, terminated>>

RunAfterEnter ==
    /\ Engine!RunAfterEnter(RunRequest)
    /\ RunEffect
    /\ UNCHANGED <<robot, terminated>>

Return ==
    /\ Engine!Return
    /\ UNCHANGED <<robot, terminated, percent, policy, frames, body>>

Control ==
    /\ ~terminated
    /\ \/ Construct \/ RunInNormal \/ Exit \/ Enter \/ RunAfterEnter \/ Return
       \/ \E k, b \in Key \cup {"None"} : CheckChange({k, b})
       \/ \E k, b \in Key \cup {"None"} : CheckChangeThrows({k, b})
-----------------------------------------------------------------------------
(* The policy thread: one pass of RunModel.                                *)

\* The policy runs at a fraction of the control rate: it does not begin while
\* MaxBacklog frames wait.
RunModel ==
    /\ ~terminated /\ pass = "none"
    /\ rl_init_done
    /\ Len(queue) < MaxBacklog
    /\ episode_length_buf' = IF episode_length_buf < MotionSteps
                             THEN episode_length_buf + 1 ELSE MotionSteps
    /\ pass' = "own"
    /\ UNCHANGED <<robot, fsm, terminated, rl_init_done, model, percent, queue,
                   stale, body>>

\* Mutant: the newest frame is served first.
PushFirst ==
    /\ ~terminated /\ pass # "none"
    /\ queue' = <<pass>> \o queue
    /\ pass' = "none"
    /\ UNCHANGED <<robot, fsm, terminated, policy, percent, stale, body>>

Push ==
    /\ ~terminated /\ pass # "none"
    /\ queue' = Append(queue, pass)
    /\ pass' = "none"
    /\ UNCHANGED <<robot, fsm, terminated, policy, percent, stale, body>>

\* The process is gone.
Terminated == terminated /\ UNCHANGED vars

Next == Control \/ RunModel \/ Push \/ Terminated

Spec == Init /\ [][Next]_vars

\* loop_control and loop_rl call their functions every period.
FairSpec == Spec /\ WF_vars(Control) /\ WF_vars(RunModel) /\ WF_vars(Push)
-----------------------------------------------------------------------------
\* The variables have values of their types.
TypeOK ==
    /\ robot \in Robots
    /\ Engine!TypeOK
    /\ {percent_pre_getup, percent_getup, percent_getdown} \subseteq 0 .. Frames
    /\ {stand_from_passive, rl_init_done, terminated} \subseteq BOOLEAN
    /\ episode_length_buf \in 0 .. MotionSteps
    /\ model \in {"none"} \cup {Skills[s].config : s \in DOMAIN Skills}
    /\ pass \in {"none", "own", "old"}
    /\ queue \in UNION {[1 .. n -> {"own", "old"}] : n \in 0 .. MaxBacklog}
    /\ {posture, start_state} \subseteq {"low", "up", "between"}

\* The policy thread is enabled only in a learned state whose own model was
\* loaded, and never on a robot whose policy is not there.
PolicyGate ==
    rl_init_done => /\ Learned(current_state)
                    /\ model = Skills[current_state].config
                    /\ Skills[current_state].deployed

\* From a state without a policy, a learned one is chosen and entered only on a
\* robot that GetUp has just brought up: not with the progress of an earlier
\* GetUp (percent_getup outlives its state), and not after Passive let it sink
\* or GetDown took it down.  Nothing is claimed between two learned states: a
\* fall under a policy is not noticed.
PolicyOnlyStanding ==
    Learned(next_state) /\ ~Learned(current_state) => posture = "up"

\* These states do not empty the queues, so frames of an earlier entry, however
\* long ago, reach the motors: no more of them than wait or are under way at
\* one time, and none after the first frame of the new one.
StaleFramesFirst ==
    /\ stale <= MaxBacklog
    /\ \A i, j \in DOMAIN queue :
          i < j /\ queue[i] = "own" => queue[j] = "own" /\ pass # "old"

\* GetDown always ends, or the process does.
GetDownEnds == (current_state = "GetDown") ~> (current_state # "GetDown")

\* A dance always ends: with its motion, with its Enter, or with the process.
MotionEnds ==
    (Learned(current_state) /\ Skills[current_state].ends)
        ~> \/ terminated
           \/ ~(Learned(current_state) /\ Skills[current_state].ends)

\* A learned state whose Enter did not load its model gives way to Passive,
\* whatever keys are pressed meanwhile.
FailedEntryFallsBack ==
    (/\ call = "Enter"
     /\ Learned(current_state)
     /\ model # Skills[current_state].config)
        ~> current_state = "Passive"

\* Claimed by the control table of README.md: "|RB+DPadUp|Num1|Basic
\* Locomotion|", among the skills of every robot that has them.
SkillKeysSwitch == ~terminated

\* The policy thread is enabled only in a state whose model is there and loaded,
\* and the first policy after a motion only on a robot that GetUp brought up.
PolicyIsReady == TypeOK /\ PolicyGate /\ PolicyOnlyStanding

\* Whatever is pressed, no state is kept for ever that should end by itself.
StatesEnd == GetDownEnds /\ MotionEnds /\ FailedEntryFallsBack
=============================================================================
