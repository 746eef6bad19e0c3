--------------------------- MODULE RobotFSMProofs ---------------------------
(***************************************************************************)
(* Proofs about RobotFSM for every fleet of these robots, every length of  *)
(* the motions and every backlog of frames.                                *)
(***************************************************************************)
EXTENDS RobotFSM, TLAPS

\* The theorems about the engine, for the states of these robots.
EngineProofs == INSTANCE FSMEngineProofs

(***************************************************************************)
(* The fleet.                                                              *)
(***************************************************************************)

\* A robot with one learned state, which does not end.
LEMMA WalkerSkills ==
    ASSUME NEW crouches, NEW config, NEW deployed
    PROVE  LET w == Walker(crouches, config, deployed)
           IN  /\ DOMAIN w.skills = {"RLLocomotion"}
               /\ ~w.skills["RLLocomotion"].ends
  BY DEF Walker, Skill

\* Learned states are none of the basic ones, and a robot whose states end has
\* the locomotion that they ask for.
LEMMA FleetSkills ==
    ASSUME NEW r \in DOMAIN Fleet
    PROVE  /\ DOMAIN Fleet[r].skills \cap Basic = {}
           /\ DOMAIN Fleet[r].skills \cap {"null", "none"} = {}
           /\ \A s \in DOMAIN Fleet[r].skills :
                  Fleet[r].skills[s].ends => Home \in DOMAIN Fleet[r].skills
<1>1. CASE r = "g1"
  <2>1. Fleet[r].skills = G1.skills
    BY <1>1 DEF Fleet
  <2>2. DOMAIN G1.skills = {"RLRoboMimicLocomotion", "RLRoboMimicCharleston",
                            "RLWholeBodyTrackingDance102",
                            "RLWholeBodyTrackingGangnamStyle"}
    BY DEF G1
  <2> QED
    BY <2>1, <2>2 DEF Basic, Home
<1>2. CASE r # "g1"
  <2>1. Fleet[r] \in {A1, B2, B2W, Go2, Go2W, L4W4, Lite3, Tita, GR1T1, GR1T2}
    BY <1>2 DEF Fleet
  <2>2. PICK crouches, config, deployed :
            Fleet[r] = Walker(crouches, config, deployed)
    BY <2>1 DEF A1, B2, B2W, Go2, Go2W, L4W4, Lite3, Tita, GR1T1, GR1T2
  <2> QED
    BY <2>2, WalkerSkills DEF Basic
<1> QED
  BY <1>1, <1>2

\* The states of a robot are registered, and none is the null pointer.
LEMMA StatesRegistered ==
    ASSUME NEW r \in DOMAIN Fleet
    PROVE  StatesOf(r) \subseteq State /\ NotAState \notin StatesOf(r)
<1>1. StatesOf(r) \subseteq State
  BY DEF State
<1>2. NotAState \notin Basic
  BY DEF NotAState, Basic
<1> QED
  BY <1>1, <1>2, FleetSkills DEF StatesOf, NotAState

\* What the engine asks of the states of a robot.
LEMMA EngineAssumptionHolds == InitialState \in State /\ NotAState \notin State
<1>1. "a1" \in DOMAIN Fleet
  BY DEF Fleet
<1>2. InitialState \in StatesOf("a1")
  BY DEF InitialState, StatesOf, Basic
<1> QED
  BY <1>1, <1>2, StatesRegistered DEF State

(***************************************************************************)
(* The answers of CheckChange.                                             *)
(***************************************************************************)

\* Of one or two rules that are tried in order, one answers or none is pressed.
LEMMA RulesAnswer ==
    ASSUME NEW rules, NEW n \in {1, 2}, DOMAIN rules = 1 .. n, NEW T,
           \A i \in 1 .. n : rules[i].to \in T, NEW otherwise \in T, NEW pressed
    PROVE  FirstPressed(rules, pressed, otherwise) \in T
<1> DEFINE hits == {i \in DOMAIN rules : rules[i].key \in pressed}
<1>1. CASE hits = {}
  BY <1>1 DEF FirstPressed
<1>2. CASE hits # {}
  <2>1. hits \subseteq 1 .. n
    OBVIOUS
  <2>2. \E i \in hits : \A j \in hits : i <= j
    <3> HIDE DEF hits
    <3>1. CASE 1 \in hits
      BY <2>1, <3>1
    <3>2. CASE 1 \notin hits
      <4>1. 1 .. n \subseteq {1, 2}
        OBVIOUS
      <4>2. hits = {2}
        BY <1>2, <2>1, <3>2, <4>1
      <4> QED
        BY <4>2
    <3> QED
      BY <3>1, <3>2
  <2>3. (CHOOSE i \in hits : \A j \in hits : i <= j) \in hits
    BY <2>2
  <2> QED
    BY <1>2, <2>1, <2>3 DEF FirstPressed
<1> QED
  BY <1>1, <1>2

\* No basic state answers with a learned one, but GetUp when it is over.
LEMMA BasicAnswers ==
    ASSUME NEW pressed, robot \in DOMAIN Fleet,
           \/ current_state \in {"Passive", "GetDown"}
           \/ current_state = "GetUp" /\ ~(percent_getup >= Frames)
    PROVE  Answer(pressed) \in Basic
<1> USE DEF Basic
<1>0. ~Learned("Passive") /\ ~Learned("GetUp") /\ ~Learned("GetDown")
  BY FleetSkills DEF Learned, Skills
<1>1. CASE current_state = "Passive"
  <2> DEFINE rules == <<On("Num0", "GetUp")>>
  <2>1. DOMAIN rules = 1 .. 1 /\ \A i \in 1 .. 1 : rules[i].to \in Basic
    BY DEF On
  <2>2. FirstPressed(rules, pressed, "Passive") \in Basic
    <3> HIDE DEF rules
    <3> QED
      BY <2>1, RulesAnswer
  <2> QED
    BY <1>0, <1>1, <2>2 DEF Answer
<1>2. CASE current_state = "GetDown"
  <2> DEFINE rules == <<On("P", "Passive"), On("Num0", "GetUp")>>
  <2>1. DOMAIN rules = 1 .. 2 /\ \A i \in 1 .. 2 : rules[i].to \in Basic
    BY DEF On
  <2>2. FirstPressed(rules, pressed, "GetDown") \in Basic
    <3> HIDE DEF rules
    <3> QED
      BY <2>1, RulesAnswer
  <2> QED
    BY <1>0, <1>2, <2>2 DEF Answer, GetDownAnswer
<1>3. CASE current_state = "GetUp" /\ ~(percent_getup >= Frames)
  <2> DEFINE rules == <<On("P", "Passive")>>
  <2>1. DOMAIN rules = 1 .. 1 /\ \A i \in 1 .. 1 : rules[i].to \in Basic
    BY DEF On
  <2>2. FirstPressed(rules, pressed, "GetUp") \in Basic
    <3> HIDE DEF rules
    <3> QED
      BY <2>1, RulesAnswer
  <2> QED
    BY <1>0, <1>3, <2>2 DEF Answer, GetUpRules
<1> QED
  BY <1>1, <1>2, <1>3
(***************************************************************************)
(* The inductive invariants.                                               *)
(***************************************************************************)

\* The robot is in, and waits for, states of its own.
OwnStates ==
    /\ robot \in Robots
    /\ {current_state, next_state} \subseteq StatesOf(robot) \cup {NotAState}

\* The engine keeps its invariant until CheckChange throws.
EngineInv == Engine!TypeOK /\ (~terminated => EngineProofs!Inv)

\* The variables of the states and of the policy have values of their types.
DataType ==
    /\ {percent_pre_getup, percent_getup, percent_getdown} \subseteq 0 .. Frames
    /\ {stand_from_passive, rl_init_done, terminated} \subseteq BOOLEAN
    /\ episode_length_buf \in 0 .. MotionSteps
    /\ model \in {"none"} \cup {Skills[s].config : s \in DOMAIN Skills}
    /\ {posture, start_state} \subseteq {"low", "up", "between"}

\* The model that a learned state needs is there and loaded.
Ready(s) == model = Skills[s].config /\ Skills[s].deployed

\* GetUp that is over has brought the robot up: its progress was reset when it
\* was entered, and it commands nothing afterwards.
StandingInv ==
    /\ PolicyOnlyStanding
    /\ current_state = "GetUp" /\ percent_getup = Frames => posture = "up"

\* A learned state that is not ready is on its way out: Enter asked for
\* Passive, and neither Run nor CheckChange is called to forget it.  Between
\* Exit and Enter no policy is enabled.
GateInv ==
    /\ rl_init_done => Learned(current_state) /\ Ready(current_state)
    /\ call = "Exit" => ~rl_init_done
    /\ Learned(current_state) /\ ~Ready(current_state)
           => /\ mode = "CHANGE"
              /\ next_state # current_state
              /\ call \in {"Enter", "none", "Exit"}

\* Whether the frame under way is of an earlier entry.
OldPass == IF pass = "old" THEN 1 ELSE 0

\* Frames of an earlier entry are the first k of the queue, and an own one is
\* never followed by the frame of an older pass.  A pass begins only with room
\* for its frame, so those applied, waiting and under way never exceed the room
\* there was at the latest entry.
FramesInv ==
    /\ pass \in {"none", "own", "old"}
    /\ queue \in Seq({"own", "old"})
    /\ Len(queue) <= MaxBacklog
    /\ pass # "none" => Len(queue) < MaxBacklog
    /\ stale \in Nat
    /\ \E k \in 0 .. Len(queue) :
          /\ \A j \in 1 .. Len(queue) : queue[j] = "old" <=> j <= k
          /\ pass = "old" => k = Len(queue)
          /\ stale + k + OldPass <= MaxBacklog
(***************************************************************************)
(* The engine.                                                             *)
(***************************************************************************)

\* A state that asks for locomotion from Run is a learned one, of a robot that
\* has locomotion.
LEMMA RunRequestOwn ==
    ASSUME OwnStates
    PROVE  /\ RunRequest \in StatesOf(robot) \cup {NotAState}
           /\ RunRequest # NotAState => Learned(current_state)
<1>1. robot \in DOMAIN Fleet
  BY RobotAssumption DEF OwnStates
<1>2. CASE Learned(current_state) /\ Skills[current_state].ends
  <2>1. Home \in StatesOf(robot)
    BY <1>1, <1>2, FleetSkills DEF Learned, Skills, StatesOf
  <2> QED
    BY <1>2, <2>1 DEF RunRequest
<1>3. CASE ~(Learned(current_state) /\ Skills[current_state].ends)
  BY <1>3 DEF RunRequest
<1> QED
  BY <1>2, <1>3

\* CheckChange found a state that is not there, and the process is gone.
Thrown ==
    /\ ~terminated /\ terminated'
    /\ UNCHANGED <<current_state, next_state, previous_state, call>>
    /\ mode' = "CHANGE"

\* Whatever a step does beside, it is one of the engine or leaves it alone, or
\* it ends the process.
LEMMA EngineStep ==
    ASSUME OwnStates, [Next]_vars
    PROVE  \/ Engine!Next /\ ~terminated /\ terminated' = terminated
           \/ UNCHANGED <<fsm, terminated>>
           \/ Thrown
<1>0. StatesOf(robot) \subseteq State
  BY RobotAssumption, StatesRegistered DEF OwnStates
<1>1. CASE Control
  <2> SUFFICES ASSUME ~Thrown PROVE Engine!Next /\ terminated' = terminated
    BY <1>1 DEF Control
  <2>1. CASE Construct
    BY <2>1 DEF Construct, Engine!Next
  <2>2. CASE RunInNormal
    <3>1. RunRequest \in Engine!Request
      BY <1>0, RunRequestOwn DEF Engine!Request
    <3> QED
      BY <2>2, <3>1 DEF RunInNormal, Engine!Next
  <2>3. CASE Exit
    BY <2>3 DEF Exit, Engine!Next
  <2>4. CASE Enter
    <3>1. "Passive" \in State
      BY EngineAssumptionHolds DEF InitialState
    <3>2. \E r \in Engine!Request : Engine!Enter(r)
      BY <2>4, <3>1 DEF Enter, EnterRequest, Engine!Request
    <3> QED
      BY <2>4, <3>2 DEF Enter, Engine!Next
  <2>5. CASE RunAfterEnter
    <3>1. RunRequest \in Engine!Request
      BY <1>0, RunRequestOwn DEF Engine!Request
    <3> QED
      BY <2>5, <3>1 DEF RunAfterEnter, Engine!Next
  <2>6. CASE Return
    BY <2>6 DEF Return, Engine!Next
  <2>7. ASSUME NEW k, NEW b, CheckChange({k, b})
        PROVE  Engine!Next /\ terminated' = terminated
    BY <1>0, <2>7 DEF CheckChange, Engine!Next
  <2>8. ASSUME NEW k, NEW b, CheckChangeThrows({k, b}) PROVE FALSE
    BY <2>8 DEF CheckChangeThrows, Thrown
  <2> QED
    BY <1>1, <2>1, <2>2, <2>3, <2>4, <2>5, <2>6, <2>7, <2>8 DEF Control
<1>2. CASE RunModel \/ Push \/ Terminated \/ UNCHANGED vars
  BY <1>2 DEF RunModel, Push, Terminated, vars
<1> QED
  BY <1>1, <1>2 DEF Next, Control

\* In terms of the instance that holds the theorems.
LEMMA SameEngine ==
    /\ Engine!Next => EngineProofs!Next
    /\ EngineProofs!Inv => Engine!TypeOK
<1>1. Engine!Next => EngineProofs!Next
  BY DEF Engine!Next, EngineProofs!Next, Engine!Request, EngineProofs!Request,
     Engine!SetInitialState, EngineProofs!SetInitialState,
     Engine!RunInNormal, EngineProofs!RunInNormal,
     Engine!CheckChange, EngineProofs!CheckChange,
     Engine!Exit, EngineProofs!Exit, Engine!Enter, EngineProofs!Enter,
     Engine!RunAfterEnter, EngineProofs!RunAfterEnter,
     Engine!Return, EngineProofs!Return,
     Engine!Accepts, EngineProofs!Accepts,
     Engine!StillExpected, EngineProofs!StillExpected
<1>2. EngineProofs!Inv => Engine!TypeOK
  BY DEF EngineProofs!Inv, EngineProofs!TypeOK, Engine!TypeOK,
     EngineProofs!Request, Engine!Request
<1> QED
  BY <1>1, <1>2

LEMMA EngineInvNext ==
    ASSUME OwnStates, EngineInv, DataType, [Next]_vars
    PROVE  EngineInv'
<1>1. CASE Engine!Next /\ ~terminated /\ terminated' = terminated
  <2>1. EngineProofs!Inv /\ [EngineProofs!Next]_(EngineProofs!fsm)
            => EngineProofs!Inv'
    BY EngineAssumptionHolds, EngineProofs!InvNext
  <2>2. EngineProofs!Inv'
    BY <1>1, <2>1, SameEngine DEF EngineInv
  <2>3. EngineProofs!Inv' => Engine!TypeOK'
    BY DEF EngineProofs!Inv, EngineProofs!TypeOK, Engine!TypeOK,
       EngineProofs!Request, Engine!Request
  <2> QED
    BY <1>1, <2>2, <2>3 DEF EngineInv
<1>2. CASE UNCHANGED <<fsm, terminated>>
  BY <1>2 DEF EngineInv, Engine!TypeOK, Engine!Request, fsm, EngineProofs!Inv,
     EngineProofs!TypeOK, EngineProofs!Request
<1>3. CASE Thrown
  <2>1. Engine!TypeOK'
    BY <1>3 DEF Thrown, EngineInv, Engine!TypeOK, Engine!Request
  <2> QED
    BY <1>3, <2>1 DEF Thrown, EngineInv
<1> QED
  BY <1>1, <1>2, <1>3, EngineStep

\* What the engine says of a step.
EngineFacts ==
    /\ Engine!TypeOK
    /\ ~terminated =>
          /\ call # "Enter" => (mode = "CHANGE" <=> next_state # current_state)
          /\ call = "Enter" => (mode = "NORMAL" => next_state = current_state)
          /\ call = "Exit" => mode = "CHANGE"

LEMMA EngineFactsFollow == EngineInv => EngineFacts
  BY DEF EngineFacts, EngineInv, EngineProofs!Inv

\* The step that OwnStates is inductive under: requests and answers are for
\* states that the robot has.
LEMMA OwnStatesNext ==
    ASSUME OwnStates, [Next]_vars
    PROVE  OwnStates'
<1>1. robot' = robot /\ Basic \subseteq StatesOf(robot)
  <2>1. robot' = robot
    BY DEF Next, Control, Construct, RunInNormal, CheckChange,
       CheckChangeThrows, Exit, Enter, RunAfterEnter, Return, RunModel, Push,
       Terminated, vars
  <2> QED
    BY <2>1 DEF StatesOf
<1>2. SUFFICES
        {current_state', next_state'} \subseteq StatesOf(robot) \cup {NotAState}
  BY <1>1 DEF OwnStates
<1>3. CASE Construct
  BY <1>1, <1>3 DEF Construct, Engine!SetInitialState, InitialState, Basic
<1>4. CASE RunInNormal \/ RunAfterEnter
  <2>1. /\ current_state' = current_state
        /\ next_state' \in {next_state, RunRequest}
    BY <1>4 DEF RunInNormal, RunAfterEnter, Engine!RunInNormal,
       Engine!RunAfterEnter
  <2> QED
    BY <2>1, RunRequestOwn DEF OwnStates
<1>5. ASSUME NEW pressed, CheckChange(pressed)
      PROVE {current_state', next_state'} \subseteq StatesOf(robot) \cup {NotAState}
  BY <1>5 DEF CheckChange, Engine!CheckChange, OwnStates
<1>6. CASE Exit \/ Return
  BY <1>6 DEF Exit, Return, Engine!Exit, Engine!Return, OwnStates
<1>7. CASE Enter
  <2>1. /\ current_state' = next_state
        /\ next_state' \in {next_state, NotAState, "Passive"}
    BY <1>7 DEF Enter, EnterRequest, Engine!Enter
  <2> QED
    BY <1>1, <2>1 DEF OwnStates, Basic
<1>8. ASSUME NEW pressed, CheckChangeThrows(pressed)
      PROVE {current_state', next_state'} \subseteq StatesOf(robot) \cup {NotAState}
  BY <1>8 DEF CheckChangeThrows, OwnStates
<1>9. CASE RunModel \/ Push \/ Terminated \/ UNCHANGED vars
  BY <1>9 DEF RunModel, Push, Terminated, vars, fsm, OwnStates
<1> QED
  BY <1>3, <1>4, <1>5, <1>6, <1>7, <1>8, <1>9 DEF Next, Control
(***************************************************************************)
(* What the handlers do to the states and to the policy.                   *)
(***************************************************************************)

\* Run is called on a state of the robot, and each has its own.
LEMMA RunCases ==
    ASSUME OwnStates, Engine!TypeOK, RunInNormal \/ RunAfterEnter
    PROVE  \/ current_state = "Passive" /\ ~Learned(current_state) /\ RunPassive
           \/ current_state = "GetUp" /\ ~Learned(current_state) /\ RunGetUp
           \/ current_state = "GetDown" /\ ~Learned(current_state) /\ RunGetDown
           \/ Learned(current_state) /\ RunLearned
<1>1. current_state # NotAState
  BY EngineAssumptionHolds DEF RunInNormal, RunAfterEnter, Engine!RunInNormal,
     Engine!RunAfterEnter, Engine!TypeOK
<1>2. current_state \in Basic \/ Learned(current_state)
  BY <1>1 DEF OwnStates, StatesOf, Learned, Skills
<1>3. current_state \in Basic => ~Learned(current_state)
  BY RobotAssumption, FleetSkills DEF OwnStates, Learned, Skills
<1>4. RunEffect
  BY DEF RunInNormal, RunAfterEnter
<1>5. Learned(current_state) => current_state \notin Basic
  BY <1>3
<1> QED
  BY <1>2, <1>3, <1>4, <1>5 DEF RunEffect, Basic

LEMMA InterpolateBounded ==
    ASSUME NEW p \in 0 .. Frames, NEW q \in Interpolate(p)
    PROVE  q \in 0 .. Frames /\ (p = Frames => q = Frames)
  BY RobotAssumption DEF Interpolate

\* Run keeps the types, and what has reached its end stays there.
LEMMA RunTypes ==
    ASSUME OwnStates, Engine!TypeOK, DataType, RunInNormal \/ RunAfterEnter
    PROVE  DataType'
<1>1. robot' = robot /\ terminated' = terminated
  BY DEF RunInNormal, RunAfterEnter
<1>2. CASE RunPassive
  BY <1>1, <1>2 DEF RunPassive, DataType, Skills, percent, policy
<1>3. CASE RunGetUp
  <2>1. CASE Fleet[robot].crouches /\ stand_from_passive
    <3>1. percent_pre_getup' \in 0 .. Frames
      BY <1>3, <2>1, InterpolateBounded DEF RunGetUp, DataType
    <3>2. \/ percent_getup' = percent_getup
          \/ percent_getup < Frames /\ percent_getup' = percent_getup + 1
      BY <1>3, <2>1 DEF RunGetUp
    <3>3. /\ percent_getup' \in 0 .. Frames
          /\ percent_getup = Frames => percent_getup' = Frames
      BY <3>2, RobotAssumption DEF DataType
    <3> QED
      BY <1>1, <1>3, <3>1, <3>3 DEF RunGetUp, DataType, Skills, policy
  <2>2. CASE ~(Fleet[robot].crouches /\ stand_from_passive)
    <3>1. /\ percent_getup' \in 0 .. Frames
          /\ percent_getup = Frames => percent_getup' = Frames
          /\ percent_pre_getup' = percent_pre_getup
      BY <1>3, <2>2, InterpolateBounded DEF RunGetUp, DataType
    <3> QED
      BY <1>1, <1>3, <3>1 DEF RunGetUp, DataType, Skills, policy
  <2> QED
    BY <2>1, <2>2
<1>4. CASE RunGetDown
  <2>1. percent_getdown' \in 0 .. Frames
    BY <1>4, InterpolateBounded DEF RunGetDown, DataType
  <2> QED
    BY <1>1, <1>4, <2>1 DEF RunGetDown, DataType, Skills, policy
<1>5. CASE RunLearned
  BY <1>1, <1>5 DEF RunLearned, DataType, Skills, percent
<1> QED
  BY <1>2, <1>3, <1>4, <1>5, RunCases

\* Enter of a state is the one of a basic state, or tries to load the model.
LEMMA EnterCases ==
    ASSUME OwnStates, Enter
    PROVE  \/ /\ ~Learned(next_state)
              /\ next_state \in Basic
              /\ Engine!Enter(NotAState)
              /\ UNCHANGED <<policy, frames>>
           \/ /\ Learned(next_state)
              /\ next_state \notin Basic
              /\ \E ok \in BOOLEAN :
                    /\ ok => Skills[next_state].deployed
                    /\ Engine!Enter(EnterRequest(ok))
                    /\ EnterLearned(next_state, ok)
<1>1. next_state \in Basic => ~Learned(next_state)
  BY RobotAssumption, FleetSkills DEF OwnStates, Learned, Skills
<1> QED
  BY <1>1 DEF Enter, EnterGetUp, EnterGetDown, Basic

\* The step that DataType is inductive under.
LEMMA DataTypeNext ==
    ASSUME OwnStates, Engine!TypeOK, DataType, [Next]_vars
    PROVE  DataType'
<1> USE RobotAssumption
<1>1. CASE Construct \/ Return
  BY <1>1 DEF Construct, Return, DataType, Skills, percent, policy, body
<1>2. CASE RunInNormal \/ RunAfterEnter
  BY <1>2, RunTypes
<1>3. ASSUME NEW pressed, CheckChange(pressed) PROVE DataType'
  BY <1>3 DEF CheckChange, DataType, Skills, percent, policy, body
<1>4. ASSUME NEW pressed, CheckChangeThrows(pressed) PROVE DataType'
  BY <1>4 DEF CheckChangeThrows, DataType, Skills, percent, policy, body
<1>5. CASE Exit
  <2>1. rl_init_done' \in BOOLEAN
    BY <1>5, Zenon DEF Exit, ExitEffect
  <2> QED
    BY <1>5, <2>1 DEF Exit, ExitEffect, DataType, Skills, percent, body
<1>6. CASE Enter
  <2>1. robot' = robot /\ terminated' = terminated
    BY <1>6 DEF Enter
  <2>2. CASE next_state = "Passive" /\ UNCHANGED <<percent, policy, frames, body>>
    BY <2>1, <2>2 DEF DataType, Skills, percent, policy, body
  <2>3. CASE EnterGetUp
    <3>1. stand_from_passive' \in BOOLEAN
      BY <2>3, Zenon DEF EnterGetUp
    <3> QED
      BY <2>1, <2>3, <3>1 DEF EnterGetUp, DataType, Skills, policy
  <2>4. CASE EnterGetDown
    BY <2>1, <2>4 DEF EnterGetDown, DataType, Skills, policy, body
  <2>5. ASSUME NEW ok \in BOOLEAN, Learned(next_state),
               EnterLearned(next_state, ok)
        PROVE  DataType'
    <3>1. rl_init_done' \in BOOLEAN
      BY <2>5, Zenon DEF EnterLearned
    <3>2. model' \in {model, "none", Skills[next_state].config}
      BY <2>5 DEF EnterLearned
    <3>3. model' \in {"none"} \cup {Skills[s].config : s \in DOMAIN Skills}
      BY <2>5, <3>2 DEF DataType, Learned
    <3>4. /\ UNCHANGED <<percent, body>>
          /\ episode_length_buf' = 0
      BY <2>5 DEF EnterLearned
    <3> QED
      BY <2>1, <3>1, <3>3, <3>4 DEF DataType, Skills, percent, body
  <2> QED
    BY <1>6, <2>2, <2>3, <2>4, <2>5 DEF Enter
<1>7. CASE RunModel
  BY <1>7 DEF RunModel, DataType, Skills, percent, body
<1>8. CASE Push \/ Terminated \/ UNCHANGED vars
  BY <1>8 DEF Push, Terminated, vars, DataType, Skills, percent, policy, body
<1> QED
  BY <1>1, <1>2, <1>3, <1>4, <1>5, <1>6, <1>7, <1>8 DEF Next, Control
\* The step that GateInv is inductive under: the handlers that enable the
\* policy find the state settled, and only one that is ready ever is.
LEMMA GateNext ==
    ASSUME OwnStates, EngineFacts, GateInv, [Next]_vars
    PROVE  GateInv'
<1> USE DEF GateInv, Learned, Ready, Skills
<1>1. CASE ~terminated /\ Construct
  <2>1. /\ current_state' = "Passive" /\ call' = "Enter" /\ robot' = robot
        /\ current_state = NotAState /\ rl_init_done' = rl_init_done
    BY <1>1 DEF Construct, Engine!SetInitialState, InitialState, policy
  <2>2. "Passive" \notin DOMAIN Fleet[robot].skills
    BY RobotAssumption, FleetSkills DEF OwnStates, Basic
  <2>3. NotAState \notin DOMAIN Fleet[robot].skills
    BY RobotAssumption, FleetSkills DEF OwnStates, NotAState
  <2> QED
    BY <2>1, <2>2, <2>3
<1>2. CASE ~terminated /\ (RunInNormal \/ RunAfterEnter)
  <2>1. /\ next_state = current_state /\ robot' = robot
        /\ current_state' = current_state
        /\ call' \in {"Run", "EnteredRun"}
    BY <1>2 DEF RunInNormal, RunAfterEnter, Engine!RunInNormal,
       Engine!RunAfterEnter, Engine!StillExpected, EngineFacts
  <2>2. Learned(current_state) => Ready(current_state)
    BY <2>1
  <2>3. model' = model
    BY <1>2, RunCases DEF RunPassive, RunGetUp, RunGetDown, RunLearned, policy,
       EngineFacts
  <2>4. rl_init_done' => rl_init_done \/ Learned(current_state)
    BY <1>2, RunCases DEF RunPassive, RunGetUp, RunGetDown, policy, EngineFacts
  <2> QED
    BY <2>1, <2>2, <2>3, <2>4
<1>3. ASSUME ~terminated, NEW pressed, CheckChange(pressed) PROVE GateInv'
  BY <1>3 DEF CheckChange, Engine!CheckChange, policy
<1>4. ASSUME ~terminated, NEW pressed, CheckChangeThrows(pressed) PROVE GateInv'
  BY <1>4 DEF CheckChangeThrows, policy
<1>5. CASE ~terminated /\ Exit
  <2>1. /\ UNCHANGED <<robot, current_state, next_state, mode, model>>
        /\ call = "none" /\ call' = "Exit"
    BY <1>5 DEF Exit, Engine!Exit, ExitEffect
  <2>2. rl_init_done' = (rl_init_done /\ ~Learned(current_state))
    BY <1>5 DEF Exit, ExitEffect
  <2>3. ~rl_init_done'
    BY <2>2, Zenon
  <2> QED
    BY <2>1, <2>3
<1>6. CASE ~terminated /\ Enter
  <2>1. /\ call = "Exit" /\ call' = "Enter" /\ current_state' = next_state
        /\ mode' = mode /\ mode = "CHANGE" /\ ~rl_init_done /\ robot' = robot
    BY <1>6 DEF Enter, Engine!Enter, EngineFacts
  <2>2. CASE ~Learned(next_state)
    <3>1. UNCHANGED policy
      BY <1>6, <2>2, EnterCases
    <3> QED
      BY <2>1, <2>2, <3>1 DEF policy
  <2>3. CASE Learned(next_state)
    <3>1. PICK ok \in BOOLEAN :
              /\ ok => Skills[next_state].deployed
              /\ Engine!Enter(EnterRequest(ok))
              /\ EnterLearned(next_state, ok)
              /\ next_state \notin Basic
      BY <1>6, <2>3, EnterCases
    <3>2. ~rl_init_done'
      <4>1. rl_init_done' = (rl_init_done /\ ok)
        BY <3>1 DEF EnterLearned
      <4> QED
        BY <2>1, <4>1, Zenon
    <3>3. ok => model' = Skills[next_state].config
      BY <3>1 DEF EnterLearned
    <3>4. ~ok => next_state' = "Passive"
      BY <3>1, EngineAssumptionHolds
         DEF EnterRequest, Engine!Enter, Engine!Accepts, InitialState, Basic
    <3>5. next_state # "Passive"
      BY <3>1 DEF Basic
    <3> QED
      BY <2>1, <2>3, <3>1, <3>2, <3>3, <3>4, <3>5
  <2> QED
    BY <2>2, <2>3
<1>7. CASE ~terminated /\ Return
  <2>1. /\ UNCHANGED <<robot, current_state, next_state, mode, policy>>
        /\ call' = "none" /\ call # "Exit"
    BY <1>7 DEF Return, Engine!Return
  <2> QED
    BY <2>1 DEF policy
<1>8. CASE RunModel \/ Push \/ Terminated \/ UNCHANGED vars
  BY <1>8 DEF RunModel, Push, Terminated, vars, fsm, policy
<1> QED
  BY <1>1, <1>2, <1>3, <1>4, <1>5, <1>6, <1>7, <1>8 DEF Next, Control

\* The step that StandingInv is inductive under: CheckChange of GetUp is the
\* only one that admits a learned state from a basic one, and the frame of
\* GetUp that ends its motion brings the robot up.
LEMMA StandingNext ==
    ASSUME OwnStates, EngineFacts, DataType, StandingInv, [Next]_vars
    PROVE  StandingInv'
<1> USE DEF StandingInv, PolicyOnlyStanding
<1>1. robot' = robot
  BY DEF Next, Control, Construct, RunInNormal, CheckChange,
     CheckChangeThrows, Exit, Enter, RunAfterEnter, Return, RunModel, Push,
     Terminated, vars
<1>2. \A s \in Basic : ~Learned(s)
  BY RobotAssumption, FleetSkills DEF OwnStates, Learned, Skills
<1>3. percent_getup < Frames \/ percent_getup = Frames
  BY RobotAssumption DEF DataType
<1>4. CASE Construct
  BY <1>1, <1>2, <1>4 DEF Construct, Engine!SetInitialState, InitialState,
     Learned, Skills, Basic
<1>5. CASE ~terminated /\ (RunInNormal \/ RunAfterEnter)
  <2>1. /\ current_state' = current_state /\ next_state = current_state
        /\ next_state' = next_state \/ next_state' = RunRequest
    BY <1>5 DEF RunInNormal, RunAfterEnter, Engine!RunInNormal,
       Engine!RunAfterEnter, Engine!StillExpected, EngineFacts
  <2>2. ~Learned(NotAState)
    BY RobotAssumption, FleetSkills DEF OwnStates, Learned, Skills, NotAState
  <2>3. Learned(RunRequest) => Learned(current_state)
    BY <2>2, RunRequestOwn
  <2>4. Learned(next_state)' => Learned(current_state)'
    BY <1>1, <2>1, <2>3 DEF Learned, Skills
  <2>5. ASSUME current_state' = "GetUp", percent_getup' = Frames
        PROVE  posture' = "up"
    <3>1. current_state = "GetUp" /\ RunGetUp
      BY <1>2, <1>5, <2>1, <2>5, RunCases DEF Basic, EngineFacts
    <3>2. CASE percent_getup = Frames
      <4>1. percent_getup >= Frames
        BY <3>2, RobotAssumption
      <4>2. posture' = posture
        BY <3>1, <4>1 DEF RunGetUp
      <4> QED
        BY <3>1, <3>2, <4>2
    <3>3. CASE percent_getup < Frames
      <4>1. ~(percent_getup >= Frames) /\ percent_getup' >= Frames
        <5>1. percent_getup \in Nat /\ Frames \in Nat
          BY RobotAssumption DEF DataType
        <5> QED
          BY <2>5, <3>3, <5>1
      <4> QED
        BY <3>1, <4>1 DEF RunGetUp
    <3> QED
      BY <1>3, <3>2, <3>3
  <2> QED
    BY <2>4, <2>5
<1>6. ASSUME NEW pressed, CheckChange(pressed) PROVE StandingInv'
  <2>1. /\ current_state # NotAState
        /\ UNCHANGED <<current_state, percent_getup, posture>>
        /\ next_state' = next_state \/ next_state' = Answer(pressed)
    BY <1>6, EngineAssumptionHolds DEF CheckChange, Engine!CheckChange, percent,
       body, EngineFacts, Engine!TypeOK
  <2>2. CASE Learned(current_state)
    <3>1. current_state # "GetUp"
      BY <1>2, <2>2 DEF Basic
    <3> QED
      BY <1>1, <2>1, <2>2, <3>1 DEF Learned, Skills
  <2>3. CASE current_state = "GetUp" /\ percent_getup >= Frames
    <3>1. posture = "up"
      BY <1>3, <2>3, RobotAssumption DEF DataType
    <3> QED
      BY <2>1, <3>1
  <2>4. CASE \/ current_state \in {"Passive", "GetDown"}
             \/ current_state = "GetUp" /\ ~(percent_getup >= Frames)
    <3>1. Answer(pressed) \in Basic
      BY <2>4, BasicAnswers, RobotAssumption DEF OwnStates
    <3>2. ~(Learned(next_state)' /\ ~Learned(current_state)') \/ posture' = "up"
      BY <1>1, <1>2, <2>1, <3>1 DEF Learned, Skills
    <3>3. current_state' = "GetUp" /\ percent_getup' = Frames => posture' = "up"
      BY <2>1
    <3> QED
      BY <3>2, <3>3
  <2>5. current_state \in Basic \/ Learned(current_state)
    BY <2>1 DEF OwnStates, StatesOf, Learned, Skills
  <2> QED
    BY <2>2, <2>3, <2>4, <2>5 DEF Basic
<1>7. ASSUME NEW pressed, CheckChangeThrows(pressed) PROVE StandingInv'
  BY <1>1, <1>7 DEF CheckChangeThrows, percent, body, Learned, Skills
<1>8. CASE Exit \/ Return
  BY <1>1, <1>8 DEF Exit, Return, Engine!Exit, Engine!Return, ExitEffect,
     percent, body, Learned, Skills
<1>9. CASE Enter
  <2>1. current_state' = next_state
    BY <1>9 DEF Enter, Engine!Enter
  <2>2. CASE ~Learned(next_state)
    <3>1. next_state' = next_state
      BY <1>9, <2>2, EnterCases, EngineAssumptionHolds
         DEF Engine!Enter, Engine!Accepts
    <3>2. next_state = "GetUp" => percent_getup' = 0
      BY <1>9, <2>2 DEF Enter, EnterGetUp
    <3>3. 0 # Frames
      BY RobotAssumption
    <3> QED
      BY <1>1, <2>1, <2>2, <3>1, <3>2, <3>3 DEF Learned, Skills
  <2>3. CASE Learned(next_state)
    <3>1. next_state # "GetUp"
      BY <1>2, <2>3 DEF Basic
    <3> QED
      BY <1>1, <2>1, <2>3, <3>1 DEF Learned, Skills
  <2> QED
    BY <2>2, <2>3
<1>10. CASE RunModel \/ Push \/ Terminated \/ UNCHANGED vars
  BY <1>1, <1>10 DEF RunModel, Push, Terminated, vars, fsm, percent, body,
     Learned, Skills
<1> QED
  BY <1>4, <1>5, <1>6, <1>7, <1>8, <1>9, <1>10 DEF Next, Control

\* The queue is served from its head ...
LEMMA FramesPop ==
    ASSUME FramesInv, queue # <<>>, queue' = Tail(queue), pass' = pass,
           stale' = IF Head(queue) = "old" THEN stale + 1 ELSE stale
    PROVE  FramesInv'
<1> DEFINE n == Len(queue)
<1>1. n \in Nat /\ n # 0 /\ queue \in Seq({"own", "old"})
  BY DEF FramesInv
<1>2. /\ queue' \in Seq({"own", "old"})
      /\ Len(queue') = n - 1
      /\ \A j \in 1 .. n - 1 : queue'[j] = queue[j + 1]
      /\ Head(queue) = queue[1]
  BY <1>1
<1>3. PICK k \in 0 .. n :
          /\ \A j \in 1 .. n : queue[j] = "old" <=> j <= k
          /\ pass = "old" => k = n
          /\ stale + k + OldPass <= MaxBacklog
  BY DEF FramesInv
<1>4. stale \in Nat /\ OldPass \in {0, 1} /\ MaxBacklog \in Nat
  BY RobotAssumption DEF FramesInv, OldPass
<1>5. OldPass' = OldPass
  BY DEF OldPass
<1>6. Head(queue) = "old" <=> 1 <= k
  <2>1. 1 \in 1 .. n
    BY <1>1
  <2> QED
    BY <1>2, <1>3, <2>1
<1> HIDE DEF n
<1>7. \A j \in 1 .. n - 1 : queue'[j] = "old" <=> j + 1 <= k
  <2> SUFFICES ASSUME NEW j \in 1 .. n - 1 PROVE queue'[j] = "old" <=> j + 1 <= k
    OBVIOUS
  <2>1. j + 1 \in 1 .. n
    BY <1>1
  <2> QED
    BY <1>2, <1>3, <2>1
<1>8. \E m \in 0 .. n - 1 :
          /\ \A j \in 1 .. n - 1 : queue'[j] = "old" <=> j <= m
          /\ pass' = "old" => m = n - 1
          /\ stale' + m + OldPass' <= MaxBacklog
  <2>1. CASE 1 <= k
    <3>1. k - 1 \in 0 .. n - 1
      BY <1>1, <2>1
    <3>2. \A j \in 1 .. n - 1 : j + 1 <= k <=> j <= k - 1
      BY <1>1
    <3>3. \A j \in 1 .. n - 1 : queue'[j] = "old" <=> j <= k - 1
      BY <1>7, <3>2
    <3>4. pass' = "old" => k - 1 = n - 1
      BY <1>3
    <3>5. stale' + (k - 1) + OldPass' <= MaxBacklog
      BY <1>3, <1>4, <1>5, <1>6, <2>1
    <3> QED
      BY <3>1, <3>3, <3>4, <3>5
  <2>2. CASE k = 0
    <3>1. \A j \in 1 .. n - 1 : ~(j <= 0) /\ ~(j + 1 <= k)
      BY <1>1, <2>2
    <3>2. \A j \in 1 .. n - 1 : queue'[j] = "old" <=> j <= 0
      BY <1>7, <3>1
    <3>3. pass' # "old"
      BY <1>1, <1>3, <2>2
    <3>4. stale' + 0 + OldPass' <= MaxBacklog
      BY <1>3, <1>4, <1>5, <1>6, <2>2
    <3>5. 0 \in 0 .. n - 1
      BY <1>1
    <3> QED
      BY <3>2, <3>3, <3>4, <3>5
  <2>3. k = 0 \/ 1 <= k
    BY <1>1
  <2> QED
    BY <2>1, <2>2, <2>3, Zenon
<1>9. stale' \in Nat
  BY <1>4
<1>10. /\ Len(queue') <= MaxBacklog
       /\ pass' # "none" => Len(queue') < MaxBacklog
       /\ pass' \in {"none", "own", "old"}
  <2>1. n <= MaxBacklog /\ pass \in {"none", "own", "old"}
    BY DEF FramesInv, n
  <2> QED
    BY <1>1, <1>2, <1>4, <2>1
<1> QED
  BY <1>2, <1>8, <1>9, <1>10 DEF FramesInv

\* ... and filled at its tail.
LEMMA FramesPush ==
    ASSUME FramesInv, pass # "none", queue' = Append(queue, pass),
           pass' = "none", stale' = stale
    PROVE  FramesInv'
<1> DEFINE n == Len(queue)
<1>1. n \in Nat /\ queue \in Seq({"own", "old"}) /\ pass \in {"own", "old"}
  BY DEF FramesInv
<1>2. /\ queue' \in Seq({"own", "old"})
      /\ Len(queue') = n + 1
      /\ \A j \in 1 .. n : queue'[j] = queue[j]
      /\ queue'[n + 1] = pass
  BY <1>1
<1>3. PICK k \in 0 .. n :
          /\ \A j \in 1 .. n : queue[j] = "old" <=> j <= k
          /\ pass = "old" => k = n
          /\ stale + k + OldPass <= MaxBacklog
  BY DEF FramesInv
<1>4. stale \in Nat /\ MaxBacklog \in Nat /\ n < MaxBacklog
  BY RobotAssumption DEF FramesInv
<1>5. OldPass' = 0
  BY DEF OldPass
<1> HIDE DEF n
<1>6. \A j \in 1 .. n + 1 : j \in 1 .. n \/ j = n + 1
  BY <1>1
<1>7. \E m \in 0 .. n + 1 :
          /\ \A j \in 1 .. n + 1 : queue'[j] = "old" <=> j <= m
          /\ stale' + m + OldPass' <= MaxBacklog
  <2>1. CASE pass = "old"
    <3>1. k = n /\ OldPass = 1
      BY <1>3, <2>1 DEF OldPass
    <3>2. \A j \in 1 .. n + 1 : queue'[j] = "old"
      BY <1>2, <1>3, <1>6, <2>1, <3>1
    <3>3. \A j \in 1 .. n + 1 : j <= n + 1
      BY <1>1
    <3>4. stale' + (n + 1) + OldPass' <= MaxBacklog
      BY <1>1, <1>3, <1>4, <1>5, <3>1
    <3>5. n + 1 \in 0 .. n + 1
      BY <1>1
    <3> QED
      BY <3>2, <3>3, <3>4, <3>5
  <2>2. CASE pass = "own"
    <3>1. OldPass = 0
      BY <2>2 DEF OldPass
    <3>2. ~(n + 1 <= k) /\ k \in 0 .. n + 1
      BY <1>1
    <3>3. \A j \in 1 .. n + 1 : queue'[j] = "old" <=> j <= k
      BY <1>2, <1>3, <1>6, <2>2, <3>2
    <3>4. stale' + k + OldPass' <= MaxBacklog
      BY <1>3, <1>5, <3>1
    <3> QED
      BY <3>2, <3>3, <3>4
  <2> QED
    BY <1>1, <2>1, <2>2
<1>8. Len(queue') <= MaxBacklog /\ stale' \in Nat
  BY <1>1, <1>2, <1>4
<1> QED
  BY <1>2, <1>7, <1>8 DEF FramesInv

\* At the entry of a learned state all frames become old ones.
LEMMA FramesAge ==
    ASSUME FramesInv, queue' = Aged(queue), stale' = 0,
           pass' = IF pass = "none" THEN "none" ELSE "old"
    PROVE  FramesInv'
<1> DEFINE n == Len(queue)
<1>1. /\ n \in Nat /\ DOMAIN queue = 1 .. n /\ n <= MaxBacklog
      /\ pass # "none" => n < MaxBacklog
      /\ MaxBacklog \in Nat
  BY RobotAssumption DEF FramesInv
<1>2. queue' = [j \in 1 .. n |-> "old"]
  BY <1>1 DEF Aged
<1>3. queue' \in Seq({"own", "old"}) /\ Len(queue') = n
  BY <1>1, <1>2
<1> HIDE DEF n
<1>4. pass' \in {"none", "old"} /\ (pass' # "none" => pass # "none")
  OBVIOUS
<1>5. /\ n \in 0 .. n
      /\ \A j \in 1 .. n : queue'[j] = "old" <=> j <= n
      /\ stale' + n + OldPass' <= MaxBacklog
  <2>1. \A j \in 1 .. n : queue'[j] = "old" /\ j <= n
    BY <1>1, <1>2
  <2>2. stale' + n + OldPass' <= MaxBacklog
    BY <1>1, <1>4 DEF OldPass
  <2> QED
    BY <1>1, <2>1, <2>2
<1> QED
  BY <1>1, <1>3, <1>4, <1>5 DEF FramesInv

\* The step that FramesInv is inductive under.
LEMMA FramesNext ==
    ASSUME OwnStates, Engine!TypeOK, FramesInv, [Next]_vars
    PROVE  FramesInv'
<1>1. ASSUME UNCHANGED frames PROVE FramesInv'
  BY <1>1 DEF frames, FramesInv, OldPass
<1>2. CASE RunInNormal \/ RunAfterEnter
  <2>1. CASE RunLearned
    <3>1. pass' = pass
      BY <2>1 DEF RunLearned
    <3>2. CASE queue = <<>>
      BY <1>1, <2>1, <3>1, <3>2 DEF RunLearned, frames
    <3>3. CASE queue # <<>>
      BY <2>1, <3>1, <3>3, FramesPop DEF RunLearned
    <3> QED
      BY <3>2, <3>3
  <2>2. CASE RunPassive \/ RunGetUp \/ RunGetDown
    BY <1>1, <2>2 DEF RunPassive, RunGetUp, RunGetDown
  <2> QED
    BY <1>2, <2>1, <2>2, RunCases
<1>3. CASE Enter
  <2>1. CASE UNCHANGED frames
    BY <1>1, <2>1
  <2>2. ASSUME NEW ok, EnterLearned(next_state, ok) PROVE FramesInv'
    BY <2>2, FramesAge DEF EnterLearned
  <2> QED
    BY <1>3, <2>1, <2>2, EnterCases
<1>4. CASE Construct \/ Exit \/ Return \/ Terminated \/ UNCHANGED vars
  BY <1>1, <1>4 DEF Construct, Exit, ExitEffect, Return, Terminated, vars
<1>5. ASSUME NEW pressed, CheckChange(pressed) \/ CheckChangeThrows(pressed)
      PROVE FramesInv'
  BY <1>1, <1>5 DEF CheckChange, CheckChangeThrows
<1>6. CASE RunModel
  <2>1. /\ pass = "none" /\ pass' = "own"
        /\ Len(queue) < MaxBacklog
        /\ queue' = queue /\ stale' = stale
    BY <1>6 DEF RunModel
  <2>2. OldPass = 0 /\ OldPass' = 0
    BY <2>1 DEF OldPass
  <2> QED
    BY <2>1, <2>2 DEF FramesInv
<1>7. CASE Push
  BY <1>7, FramesPush DEF Push
<1> QED
  BY <1>2, <1>3, <1>4, <1>5, <1>6, <1>7 DEF Next, Control

(***************************************************************************)
(* The theorems.                                                           *)
(***************************************************************************)

\* All of it together.
RobotInv ==
    /\ OwnStates
    /\ EngineInv
    /\ DataType
    /\ GateInv
    /\ FramesInv
    /\ StandingInv

LEMMA RobotInvInit == Init => RobotInv
<1> SUFFICES ASSUME Init PROVE RobotInv
  OBVIOUS
<1>1. /\ robot \in Robots
      /\ current_state = "null" /\ next_state = "null" /\ call = "none"
      /\ rl_init_done = FALSE
  BY DEF Init, Engine!Init, NotAState
<1>2. robot \in DOMAIN Fleet
  BY <1>1, RobotAssumption
<1>3. ~Learned("null")
  BY <1>2, FleetSkills DEF Learned, Skills
<1>4. OwnStates
  BY <1>1 DEF OwnStates, NotAState
<1>5. EngineInv
  <2>1. EngineProofs!Init
    BY DEF Init, Engine!Init, EngineProofs!Init
  <2>2. EngineProofs!Inv
    BY <2>1, EngineAssumptionHolds, EngineProofs!InvInit
  <2> QED
    BY <2>2, SameEngine DEF EngineInv
<1>6. DataType
  <2>1. /\ terminated = FALSE /\ stand_from_passive = TRUE
        /\ percent_pre_getup = 0 /\ percent_getup = 0 /\ percent_getdown = 0
        /\ episode_length_buf = 0 /\ model = "none"
        /\ posture = "low" /\ start_state = "low"
    BY DEF Init
  <2>2. 0 \in 0 .. Frames /\ 0 \in 0 .. MotionSteps
    BY RobotAssumption
  <2> QED
    BY <1>1, <2>1, <2>2, Zenon DEF DataType
<1>7. GateInv
  BY <1>1, <1>3 DEF GateInv
<1>8. FramesInv
  <2>1. queue = <<>> /\ pass = "none" /\ stale = 0
    BY DEF Init
  <2>2. OldPass = 0
    BY <2>1 DEF OldPass
  <2>3. \E k \in 0 .. Len(queue) :
            /\ \A j \in 1 .. Len(queue) : queue[j] = "old" <=> j <= k
            /\ pass = "old" => k = Len(queue)
            /\ stale + k + OldPass <= MaxBacklog
    <3>1. 0 \in 0 .. Len(queue) /\ 1 .. Len(queue) = {}
      BY <2>1
    <3>2. stale + 0 + OldPass <= MaxBacklog
      BY <2>1, <2>2, RobotAssumption
    <3> QED
      BY <2>1, <3>1, <3>2
  <2> QED
    BY <2>1, <2>3, RobotAssumption DEF FramesInv
<1>9. StandingInv
  BY <1>1, <1>3 DEF StandingInv, PolicyOnlyStanding
<1> QED
  BY <1>4, <1>5, <1>6, <1>7, <1>8, <1>9 DEF RobotInv

LEMMA RobotInvNext == RobotInv /\ [Next]_vars => RobotInv'
<1> SUFFICES ASSUME RobotInv, [Next]_vars PROVE RobotInv'
  OBVIOUS
<1>1. EngineFacts /\ Engine!TypeOK
  BY EngineFactsFollow DEF RobotInv, EngineInv
<1> QED
  BY <1>1, OwnStatesNext, EngineInvNext, DataTypeNext, GateNext, FramesNext,
     StandingNext DEF RobotInv

LEMMA RobotInvHolds == Spec => []RobotInv
  BY RobotInvInit, RobotInvNext, PTL DEF Spec

\* The policy thread is enabled only in a state whose own model is there and was
\* loaded; from a basic state a learned one is chosen and entered only on a
\* robot that GetUp has just brought up; and the variables keep their types.
THEOREM PolicyIsReadyHolds == Spec => []PolicyIsReady
<1>1. RobotInv => PolicyIsReady
  <2> SUFFICES ASSUME RobotInv PROVE PolicyIsReady
    OBVIOUS
  <2>1. queue \in UNION {[1 .. n -> {"own", "old"}] : n \in 0 .. MaxBacklog}
    <3>1. /\ Len(queue) \in 0 .. MaxBacklog
          /\ queue \in [1 .. Len(queue) -> {"own", "old"}]
      BY RobotAssumption DEF RobotInv, FramesInv
    <3> QED
      BY <3>1
  <2>2. TypeOK
    BY <2>1 DEF RobotInv, OwnStates, EngineInv, DataType, FramesInv, TypeOK
  <2>3. PolicyGate
    BY DEF RobotInv, GateInv, PolicyGate, Ready
  <2> QED
    BY <2>2, <2>3 DEF RobotInv, StandingInv, PolicyIsReady
<1> QED
  BY <1>1, RobotInvHolds, PTL

\* Frames of an earlier entry reach the motors before every own one, and no
\* more of them than waited or were under way at one time.
THEOREM StaleFramesFirstHolds == Spec => []StaleFramesFirst
<1>1. RobotInv => StaleFramesFirst
  <2> SUFFICES ASSUME RobotInv PROVE StaleFramesFirst
    OBVIOUS
  <2>1. PICK k \in 0 .. Len(queue) :
            /\ \A j \in 1 .. Len(queue) : queue[j] = "old" <=> j <= k
            /\ pass = "old" => k = Len(queue)
            /\ stale + k + OldPass <= MaxBacklog
    BY DEF RobotInv, FramesInv
  <2>2. /\ stale \in Nat /\ OldPass \in {0, 1} /\ MaxBacklog \in Nat
        /\ queue \in Seq({"own", "old"})
    BY RobotAssumption DEF RobotInv, FramesInv, OldPass
  <2>3. DOMAIN queue = 1 .. Len(queue) /\ Len(queue) \in Nat
    BY <2>2
  <2>4. stale <= MaxBacklog
    BY <2>1, <2>2
  <2>5. ASSUME NEW i \in DOMAIN queue, NEW j \in DOMAIN queue,
               i < j, queue[i] = "own"
        PROVE  queue[j] = "own" /\ pass # "old"
    <3>1. ~(i <= k)
      BY <2>1, <2>3, <2>5
    <3>2. ~(j <= k) /\ k # Len(queue)
      <4>1. i \in Nat /\ j \in Nat /\ k \in Nat /\ i <= Len(queue)
        BY <2>3
      <4>2. i < j /\ Len(queue) \in Nat
        BY <2>3, <2>5
      <4> QED
        BY <3>1, <4>1, <4>2
    <3>3. queue[j] # "old"
      BY <2>1, <2>3, <3>2
    <3>4. queue[j] \in {"own", "old"}
      BY <2>2, <2>3
    <3> QED
      BY <2>1, <3>2, <3>3, <3>4
  <2> QED
    BY <2>4, <2>5 DEF StaleFramesFirst
<1> QED
  BY <1>1, RobotInvHolds, PTL

\* Each of these robots drives its states as StateLifecycle demands, up to the
\* moment at which CheckChange throws, if it does.
THEOREM RobotsImplementLifecycle == Spec => EngineProofs!LifecycleSafety
<1>1. Init => EngineProofs!Lifecycle!Init
  <2>1. Init => EngineProofs!Init
    BY DEF Init, Engine!Init, EngineProofs!Init
  <2> QED
    BY <2>1, EngineAssumptionHolds, EngineProofs!LifecycleInit
<1>2. RobotInv /\ [Next]_vars
          => [EngineProofs!Lifecycle!Next]_(EngineProofs!Lifecycle!vars)
  <2> SUFFICES ASSUME RobotInv, [Next]_vars
               PROVE [EngineProofs!Lifecycle!Next]_(EngineProofs!Lifecycle!vars)
    OBVIOUS
  <2>1. CASE Engine!Next /\ ~terminated
    <3>1. EngineProofs!Inv /\ [EngineProofs!Next]_(EngineProofs!fsm)
      BY <2>1, SameEngine DEF RobotInv, EngineInv
    <3> QED
      BY <3>1, EngineAssumptionHolds, EngineProofs!LifecycleNext
  <2>2. CASE UNCHANGED <<current_state, previous_state, call>>
    BY <2>2 DEF EngineProofs!Lifecycle!vars
  <2> QED
    BY <2>1, <2>2, EngineStep DEF RobotInv, Thrown, fsm
<1> QED
  BY <1>1, <1>2, RobotInvHolds, PTL
     DEF Spec, EngineProofs!LifecycleSafety, EngineProofs!Lifecycle!Spec
=============================================================================
