-------------------------- MODULE MyRobotFSMProofs --------------------------
(***************************************************************************)
(* Proofs about MyRobotFSM for every set of keys and every length of the   *)
(* motions: it implements the engine, and with it the life cycle of a      *)
(* state, a policy runs only in a state that admits it, and the first one  *)
(* after a motion only when GetUp has raised the robot.                    *)
(***************************************************************************)
EXTENDS MyRobotFSM, WellFoundedInduction, TLAPS

\* The theorems about the engine, for the states of myrobot.
EngineProofs == INSTANCE FSMEngineProofs

(***************************************************************************)
(* The answers of CheckChange.                                             *)
(***************************************************************************)

\* A set of numbers that is not empty has a least one.
LEMMA Least ==
    ASSUME NEW S \in SUBSET Nat, S # {}
    PROVE  \E i \in S : \A j \in S : i <= j
<1> DEFINE less == OpToRel(<, Nat)
<1>1. \A i, j \in Nat : <<i, j>> \in less <=> i < j
  BY DEF OpToRel
<1>2. IsWellFoundedOn(less, Nat)
  BY NatLessThanWellFounded, Zenon
<1> HIDE DEF less
<1>3. PICK i \in S : \A j \in S : <<j, i>> \notin less
  BY <1>2, WFMin
<1>4. ASSUME NEW j \in S PROVE i <= j
  <2>1. i \in Nat /\ j \in Nat /\ ~(j < i)
    BY <1>1, <1>3
  <2> QED
    BY <2>1
<1> QED
  BY <1>4

\* Of rules that are tried in order, one answers or none is pressed: the answer
\* is of the kind that all of them have in common.
LEMMA RulesAnswer ==
    ASSUME NEW rules, NEW n \in Nat, DOMAIN rules = 1 .. n, NEW T,
           \A i \in 1 .. n : rules[i].to \in T, NEW otherwise \in T
    PROVE  FirstPressed(rules, otherwise) \in T
<1> DEFINE hits == {i \in DOMAIN rules : Pressed(rules[i].key)}
<1>1. CASE hits = {}
  BY <1>1 DEF FirstPressed
<1>2. CASE hits # {}
  <2>1. hits \in SUBSET Nat /\ hits \subseteq 1 .. n
    OBVIOUS
  <2>2. (CHOOSE i \in hits : \A j \in hits : i <= j) \in hits
    <3> HIDE DEF hits
    <3> QED
      BY <1>2, <2>1, Least
  <2> QED
    BY <1>2, <2>1, <2>2 DEF FirstPressed
<1> QED
  BY <1>1, <1>2

\* The rules of the dance and of mjlab.
LEMMA ManualRulesAnswer ==
    ASSUME NEW otherwise \in State
    PROVE  FirstPressed(ManualRules, otherwise) \in State
<1>1. /\ DOMAIN ManualRules = 1 .. 5
      /\ \A i \in 1 .. 5 : ManualRules[i].to \in State
  BY DEF ManualRules, On, State, RLState
<1> QED
  BY <1>1, RulesAnswer

\* GetUp offers the learned states when it is over.
LEMMA GetUpAnswers ==
    /\ GetUpCheckChange \in State
    /\ ~(percent_getup >= GetUpFrames) => GetUpCheckChange \notin RLState
<1> DEFINE stand == <<On("Num1", "RLLocomotion"),
                      On("Num2", "RLWholeBodyTrackingDance"),
                      On("Num3", "RLMjlabTracking"),
                      On("Num9", "GetDown")>>
           rules == <<On("P", "Passive")>> \o stand
           none == <<On("P", "Passive")>> \o <<>>
<1>1. CASE percent_getup >= GetUpFrames
  <2>1. DOMAIN rules = 1 .. 5 /\ \A i \in 1 .. 5 : rules[i].to \in State
    BY DEF On, State, RLState
  <2>2. FirstPressed(rules, "GetUp") \in State
    <3> HIDE DEF rules
    <3> QED
      BY <2>1, RulesAnswer DEF State, RLState
  <2> QED
    BY <1>1, <2>2 DEF GetUpCheckChange
<1>2. CASE ~(percent_getup >= GetUpFrames)
  <2>1. /\ DOMAIN none = 1 .. 1
        /\ \A i \in 1 .. 1 : none[i].to \in {"Passive", "GetUp"}
    BY DEF On
  <2>2. FirstPressed(none, "GetUp") \in {"Passive", "GetUp"}
    <3> HIDE DEF none
    <3> QED
      BY <2>1, RulesAnswer
  <2>3. GetUpCheckChange \in {"Passive", "GetUp"}
    BY <1>2, <2>2 DEF GetUpCheckChange
  <2> QED
    BY <1>2, <2>3 DEF State, RLState
<1> QED
  BY <1>1, <1>2

\* Every state answers with a state that is registered, and GetUp offers the
\* learned states only when it is over; Passive and GetDown never do.
LEMMA CheckChangeAnswers ==
    ASSUME NEW s \in State
    PROVE  /\ CheckChangeOf(s) \in State
           /\ s \in {"Passive", "GetDown"} => CheckChangeOf(s) \notin RLState
           /\ s = "GetUp" /\ ~(percent_getup >= GetUpFrames)
                  => CheckChangeOf(s) \notin RLState
<1>1. PassiveCheckChange \in {"Passive", "GetUp"}
  <2> DEFINE rules == <<On("Num0", "GetUp")>>
  <2>1. /\ DOMAIN rules = 1 .. 1
        /\ \A i \in 1 .. 1 : rules[i].to \in {"Passive", "GetUp"}
    BY DEF On
  <2>2. FirstPressed(rules, "Passive") \in {"Passive", "GetUp"}
    <3> HIDE DEF rules
    <3> QED
      BY <2>1, RulesAnswer
  <2> QED
    BY <2>2 DEF PassiveCheckChange
<1>2. GetDownCheckChange \in {"Passive", "GetUp", "GetDown"}
  <2> DEFINE rules == <<On("Num0", "GetUp")>>
  <2>1. /\ DOMAIN rules = 1 .. 1
        /\ \A i \in 1 .. 1 : rules[i].to \in {"GetUp", "GetDown"}
    BY DEF On
  <2>2. FirstPressed(rules, "GetDown") \in {"GetUp", "GetDown"}
    <3> HIDE DEF rules
    <3> QED
      BY <2>1, RulesAnswer
  <2> QED
    BY <2>2 DEF GetDownCheckChange
<1>3. RLLocomotionCheckChange \in State
  <2> DEFINE rules == <<On("Num9", "GetDown"), On("Num0", "GetUp"),
                        On("Num1", "RLLocomotion"),
                        On("Num2", "RLWholeBodyTrackingDance"),
                        On("Num3", "RLMjlabTracking")>>
  <2>1. DOMAIN rules = 1 .. 5 /\ \A i \in 1 .. 5 : rules[i].to \in State
    BY DEF On, State, RLState
  <2>2. FirstPressed(rules, "RLLocomotion") \in State
    <3> HIDE DEF rules
    <3> QED
      BY <2>1, RulesAnswer DEF State, RLState
  <2> QED
    BY <2>2 DEF RLLocomotionCheckChange
<1>4. /\ RLWholeBodyTrackingDanceCheckChange \in State
      /\ RLMjlabTrackingCheckChange \in State
  BY ManualRulesAnswer
     DEF RLWholeBodyTrackingDanceCheckChange, RLMjlabTrackingCheckChange, State, RLState
<1> QED
  BY <1>1, <1>2, <1>3, <1>4, GetUpAnswers DEF CheckChangeOf, State, RLState

(***************************************************************************)
(* The engine.                                                             *)
(***************************************************************************)

\* What the engine asks of the states of a robot.
LEMMA EngineAssumptionHolds == InitialState \in State /\ NotAState \notin State
  BY DEF InitialState, State, RLState, NotAState

\* The requests that the handlers make are for states of myrobot.
LEMMA Requests ==
    /\ RunRequest \in Engine!Request
    /\ \A ok \in BOOLEAN : EnterRequest(ok) \in Engine!Request
    /\ NotAState \in Engine!Request
  BY DEF RunRequest, EnterRequest, Engine!Request, State, RLState, NotAState

\* Whatever a step does beside, it is one of the engine or leaves it alone.
LEMMA EngineStep ==
    Engine!TypeOK /\ [Next]_vars => Engine!Next \/ UNCHANGED fsm
<1> SUFFICES ASSUME Engine!TypeOK, [Next]_vars
             PROVE  Engine!Next \/ UNCHANGED fsm
  OBVIOUS
<1> USE Requests
<1>1. CASE Construct
  BY <1>1 DEF Construct, Engine!Next
<1>2. CASE RunInNormal
  BY <1>2 DEF RunInNormal, Engine!Next
<1>3. CASE CheckChange
  <2>1. current_state \in State
    BY <1>3 DEF CheckChange, Engine!CheckChange, Engine!TypeOK
  <2>2. CheckChangeOf(current_state) \in State
    BY <2>1, CheckChangeAnswers
  <2> QED
    BY <1>3, <2>2 DEF CheckChange, Engine!Next
<1>4. CASE Exit
  BY <1>4 DEF Exit, Engine!Next
<1>5. CASE Enter
  <2>1. \E r \in Engine!Request : Engine!Enter(r)
    BY <1>5 DEF Enter
  <2> QED
    BY <2>1 DEF Engine!Next
<1>6. CASE RunAfterEnter
  BY <1>6 DEF RunAfterEnter, Engine!Next
<1>7. CASE Return
  BY <1>7 DEF Return, Engine!Next
<1>8. CASE ClearInput \/ OperatorLeaves \/ RunModel
  BY <1>8 DEF ClearInput, OperatorLeaves, RunModel
<1>9. CASE (\E k \in Keyboard : SetKeyboard(k)) \/ (\E b \in Gamepad : SetGamepad(b))
  BY <1>9 DEF SetKeyboard, SetGamepad
<1>10. CASE UNCHANGED vars
  BY <1>10 DEF vars
<1> QED
  BY <1>1, <1>2, <1>3, <1>4, <1>5, <1>6, <1>7, <1>8, <1>9, <1>10 DEF Next, Control

\* In terms of the instance that holds the theorems.
LEMMA EngineInvStep ==
    EngineProofs!Inv /\ [Next]_vars => [EngineProofs!Next]_(EngineProofs!fsm)
<1>1. EngineProofs!Inv => Engine!TypeOK
  BY DEF EngineProofs!Inv, EngineProofs!TypeOK, Engine!TypeOK,
     EngineProofs!Request, Engine!Request
<1>2. Engine!Next => EngineProofs!Next
  BY DEF Engine!Next, EngineProofs!Next, Engine!Request, EngineProofs!Request,
     Engine!SetInitialState, EngineProofs!SetInitialState,
     Engine!RunInNormal, EngineProofs!RunInNormal,
     Engine!CheckChange, EngineProofs!CheckChange,
     Engine!Exit, EngineProofs!Exit, Engine!Enter, EngineProofs!Enter,
     Engine!RunAfterEnter, EngineProofs!RunAfterEnter,
     Engine!Return, EngineProofs!Return,
     Engine!Accepts, EngineProofs!Accepts,
     Engine!StillExpected, EngineProofs!StillExpected
<1>3. UNCHANGED fsm => UNCHANGED EngineProofs!fsm
  BY DEF fsm, EngineProofs!fsm
<1> QED
  BY <1>1, <1>2, <1>3, EngineStep

\* The invariant of the engine is one of the robot.
LEMMA EngineInvHolds == Spec => []EngineProofs!Inv
<1>1. Init => EngineProofs!Inv
  <2>1. Init => EngineProofs!Init
    BY DEF Init, Engine!Init, EngineProofs!Init
  <2>2. EngineProofs!Init => EngineProofs!Inv
    BY EngineAssumptionHolds, EngineProofs!InvInit
  <2> QED
    BY <2>1, <2>2
<1>2. EngineProofs!Inv /\ [Next]_vars => EngineProofs!Inv'
  <2>1. EngineProofs!Inv /\ [EngineProofs!Next]_(EngineProofs!fsm)
            => EngineProofs!Inv'
    BY EngineAssumptionHolds, EngineProofs!InvNext
  <2> QED
    BY <2>1, EngineInvStep
<1> QED
  BY <1>1, <1>2, PTL DEF Spec

\* myrobot drives its states as StateLifecycle demands: one Exit before each
\* Enter, never into the state just left, Run and CheckChange on the entered
\* state only, whatever keys are pressed and wherever InitRL fails.
THEOREM MyRobotImplementsLifecycle == Spec => EngineProofs!LifecycleSafety
<1>1. Init => EngineProofs!Init
  BY DEF Init, Engine!Init, EngineProofs!Init
<1>2. EngineProofs!Inv /\ [Next]_vars => [EngineProofs!Next]_(EngineProofs!fsm)
  BY EngineInvStep
<1>3. Spec => EngineProofs!Spec
  BY <1>1, <1>2, EngineInvHolds, PTL DEF Spec, EngineProofs!Spec
<1>4. EngineProofs!Spec => EngineProofs!LifecycleSafety
  BY EngineAssumptionHolds, EngineProofs!EngineImplementsLifecycle
<1> QED
  BY <1>3, <1>4

(***************************************************************************)
(* The states.                                                             *)
(***************************************************************************)

\* The variables beside the engine have values of their types.
DataType ==
    /\ {current_keyboard, last_keyboard} \subseteq Keyboard \cup {"None"}
    /\ current_gamepad \in Gamepad \cup {"None"}
    /\ percent_getup \in 0 .. GetUpFrames
    /\ percent_getdown \in 0 .. GetDownFrames
    /\ rl_init_done \in BOOLEAN
    /\ episode_length_buf \in 0 .. MaxEpisodeLength
    /\ raised \in BOOLEAN
    /\ deployment \in Deployment
    /\ config_name \in Config \cup {""}
    /\ model \in Config \cup {NotAState}
    /\ phase \in {"boot", "fsm", "tail"}
    /\ quiet \in BOOLEAN

\* What it says of the motions, in the numbers' own terms.
LEMMA Progress ==
    ASSUME DataType
    PROVE  /\ percent_getup \in 0 .. GetUpFrames
           /\ percent_getdown \in 0 .. GetDownFrames
           /\ episode_length_buf \in 0 .. MaxEpisodeLength
           /\ percent_getup < GetUpFrames \/ percent_getup = GetUpFrames
<1>1. /\ percent_getup \in 0 .. GetUpFrames
      /\ percent_getdown \in 0 .. GetDownFrames
      /\ episode_length_buf \in 0 .. MaxEpisodeLength
  BY Zenon DEF DataType
<1> QED
  BY <1>1, MyRobotAssumption

\* A learned state has named a configuration it admits.  One whose policy was
\* not loaded is on its way out: Enter asked
\* for another state, which neither Run nor CheckChange is called to forget.
\* Between Exit and Enter no policy is enabled, because the state that is left
\* disables it.
GateInv ==
    /\ PolicyGate
    /\ call = "Exit" => ~rl_init_done
    /\ current_state \in RLState => config_name \in Admits[current_state]
    /\ current_state \in RLState /\ model # config_name
           => /\ mode = "CHANGE"
              /\ next_state # current_state
              /\ call \in {"Enter", "none", "Exit"}

\* GetUp that is over has raised the robot: its progress was reset when it was
\* entered, and no other state runs in it.
StandingInv ==
    /\ PolicyOnlyStanding
    /\ current_state = "GetUp" /\ percent_getup = GetUpFrames => raised

\* What the engine says of a step, in the words of the robot.
EngineFacts ==
    /\ Engine!TypeOK
    /\ call # "Enter" => (mode = "CHANGE" <=> next_state # current_state)
    /\ call = "Enter" => (mode = "NORMAL" => next_state = current_state)
    /\ call = "Exit" => mode = "CHANGE"

LEMMA EngineFactsFollow == EngineProofs!Inv => EngineFacts
  BY DEF EngineFacts, EngineProofs!Inv, EngineProofs!TypeOK, Engine!TypeOK,
     EngineProofs!Request, Engine!Request

\* What the handlers of a state do keeps the types.
LEMMA InterpolateBounded ==
    ASSUME NEW frames \in Nat \ {0}, NEW p \in 0 .. frames,
           NEW q \in Interpolate(p, frames)
    PROVE  q \in 0 .. frames /\ (p = frames => q = frames)
  BY DEF Interpolate

LEMMA RunEffectTypes ==
    ASSUME DataType, RunEffect
    PROVE  /\ percent_getup' \in 0 .. GetUpFrames
           /\ percent_getup = GetUpFrames => percent_getup' = GetUpFrames
           /\ percent_getdown' \in 0 .. GetDownFrames
           /\ rl_init_done' \in BOOLEAN
           /\ episode_length_buf' = episode_length_buf
           /\ config_name' = config_name
           /\ model' = model
           /\ raised' \in BOOLEAN
           /\ /\ current_state = "GetUp"
              /\ percent_getup = GetUpFrames => raised
              => (percent_getup' = GetUpFrames => raised')
<1>1. /\ percent_getup' \in 0 .. GetUpFrames
      /\ percent_getup = GetUpFrames => percent_getup' = GetUpFrames
  BY MyRobotAssumption, Progress, InterpolateBounded DEF RunEffect
<1>2. percent_getdown' \in 0 .. GetDownFrames
  BY MyRobotAssumption, Progress, InterpolateBounded DEF RunEffect
<1>3. rl_init_done' \in BOOLEAN
  <2>1. rl_init_done' = \/ rl_init_done
                        \/ current_state \in RLState /\ RunRequest = NotAState
    BY DEF RunEffect
  <2> QED
    BY <2>1, Zenon
<1>4. raised' \in BOOLEAN
  <2>1. CASE current_state = "GetUp"
    BY <2>1 DEF DataType, RunEffect, Raise
  <2>2. CASE current_state = "GetDown"
    <3>1. raised' = (raised /\ percent_getdown >= GetDownFrames)
      BY <2>2 DEF RunEffect, Raise
    <3> QED
      BY <3>1, Zenon
  <2>3. CASE current_state \notin {"GetUp", "GetDown"}
    BY <2>3 DEF RunEffect, Raise
  <2> QED
    BY <2>1, <2>2, <2>3
<1>5. /\ current_state = "GetUp"
      /\ percent_getup = GetUpFrames => raised
      => (percent_getup' = GetUpFrames => raised')
  <2> SUFFICES ASSUME current_state = "GetUp",
                      percent_getup = GetUpFrames => raised,
                      percent_getup' = GetUpFrames
               PROVE  raised'
    BY Zenon
  <2>1. raised' = IF percent_getup < GetUpFrames
                  THEN percent_getup' = GetUpFrames ELSE raised
    BY DEF RunEffect, Raise
  <2>2. percent_getup < GetUpFrames \/ percent_getup = GetUpFrames
    BY Progress
  <2> QED
    BY <2>1, <2>2, MyRobotAssumption
<1>6. /\ episode_length_buf' = episode_length_buf
      /\ config_name' = config_name
      /\ model' = model
  BY DEF RunEffect
<1> QED
  BY <1>1, <1>2, <1>3, <1>4, <1>5, <1>6

\* A learned state names a configuration it admits, whatever name it finds.
LEMMA ConfigNamed ==
    ASSUME NEW s \in RLState, NEW config \in Config \cup {""}
    PROVE  ConfigOf(s, config) \in Config /\ ConfigOf(s, config) \in Admits[s]
<1>1. CASE s = "RLLocomotion"
  BY <1>1 DEF ConfigOf, Config, Admits
<1>2. CASE s # "RLLocomotion"
  <2>1. CASE s = "RLWholeBodyTrackingDance"
    BY <2>1 DEF ConfigOf, Config, Admits
  <2>2. CASE s = "RLMjlabTracking"
    BY <2>2 DEF ConfigOf, Config, Admits
  <2> QED
    BY <1>2, <2>1, <2>2 DEF RLState
<1> QED
  BY <1>1, <1>2

\* The step that DataType is inductive under.
LEMMA DataTypeNext ==
    ASSUME DataType, EngineFacts, [Next]_vars
    PROVE  DataType'
<1> USE MyRobotAssumption
<1>0. UNCHANGED deployment
  BY DEF Next, Control, SetKeyboard, SetGamepad, OperatorLeaves, RunModel, vars
<1>1. CASE Construct \/ CheckChange \/ Return \/ OperatorLeaves \/ UNCHANGED vars
  BY <1>0, <1>1 DEF DataType, Construct, CheckChange, Return, OperatorLeaves, vars,
     input, policy, percent
<1>2. CASE RunInNormal \/ RunAfterEnter
  <2>1. RunEffect /\ UNCHANGED <<input, phase, quiet>>
    BY <1>2 DEF RunInNormal, RunAfterEnter
  <2> QED
    BY <1>0, <2>1, RunEffectTypes DEF DataType, input
<1>3. CASE Exit
  <2>1. rl_init_done' \in BOOLEAN
    BY <1>3, Zenon DEF Exit, ExitEffect
  <2> QED
    BY <1>0, <1>3, <2>1 DEF DataType, Exit, ExitEffect, input, percent
<1>4. CASE Enter
  <2>1. CASE UNCHANGED policy
    <3>1. /\ percent_getup' \in {0, percent_getup}
          /\ percent_getdown' \in {0, percent_getdown}
          /\ UNCHANGED <<raised, input, phase, quiet>>
      BY <1>4 DEF Enter, EnterGetUp, EnterGetDown, EnterRL, percent
    <3>2. /\ percent_getup' \in 0 .. GetUpFrames
          /\ percent_getdown' \in 0 .. GetDownFrames
      BY <3>1, Progress
    <3> QED
      BY <1>0, <2>1, <3>1, <3>2 DEF DataType, input, policy
  <2>2. ASSUME NEW ok \in BOOLEAN, next_state \in RLState, EnterRL(ok)
        PROVE  DataType'
    <3>1. rl_init_done' \in BOOLEAN
      BY <2>2, Zenon DEF EnterRL
    <3>2. config_name' \in Config
      BY <2>2, ConfigNamed DEF EnterRL, DataType
    <3>3. model' \in Config \cup {NotAState}
      BY <2>2, <3>2 DEF EnterRL, DataType
    <3>4. /\ UNCHANGED <<percent, input, phase, quiet>>
          /\ episode_length_buf' = 0
      BY <1>4, <2>2 DEF Enter, EnterRL
    <3>5. episode_length_buf' \in 0 .. MaxEpisodeLength
      BY <3>4
    <3> QED
      BY <1>0, <3>1, <3>2, <3>3, <3>4, <3>5, Zenon DEF DataType, input, percent
  <2> QED
    BY <1>4, <2>1, <2>2 DEF Enter, EnterGetUp, EnterGetDown
<1>5. CASE ClearInput
  BY <1>0, <1>5 DEF DataType, ClearInput, policy, percent
<1>6. ASSUME NEW k \in Keyboard, SetKeyboard(k) PROVE DataType'
  BY <1>0, <1>6 DEF DataType, SetKeyboard, policy, percent
<1>7. ASSUME NEW b \in Gamepad, SetGamepad(b) PROVE DataType'
  BY <1>0, <1>7 DEF DataType, SetGamepad, policy, percent
<1>8. CASE RunModel
  <2>1. /\ UNCHANGED <<percent, input, rl_init_done, config_name, model, phase,
                       quiet>>
        /\ episode_length_buf' \in 0 .. MaxEpisodeLength
    BY <1>8, Progress DEF RunModel
  <2> QED
    BY <1>0, <2>1, Zenon DEF DataType, input, percent
<1> QED
  BY <1>1, <1>2, <1>3, <1>4, <1>5, <1>6, <1>7, <1>8 DEF Next, Control

\* The step that GateInv is inductive under: RunInNormal and RunAfterEnter,
\* which enable the policy, find the state settled, and only a loaded one is.
LEMMA GateNext ==
    ASSUME DataType, EngineFacts, GateInv, [Next]_vars
    PROVE  GateInv'
<1> USE DEF GateInv, PolicyGate
<1>1. CASE Construct
  <2>1. /\ current_state = NotAState /\ current_state' = "Passive"
        /\ call' = "Enter" /\ UNCHANGED policy
    BY <1>1 DEF Construct, Engine!SetInitialState, InitialState
  <2> QED
    BY <2>1 DEF policy, RLState, NotAState
<1>2. CASE RunInNormal \/ RunAfterEnter
  <2>1. /\ next_state = current_state
        /\ current_state' = current_state
        /\ model' = model /\ config_name' = config_name
        /\ call' \in {"Run", "EnteredRun"}
    BY <1>2 DEF RunInNormal, RunAfterEnter, Engine!RunInNormal,
       Engine!RunAfterEnter, Engine!StillExpected, RunEffect, EngineFacts
  <2>2. current_state \in RLState => model = config_name
    BY <2>1
  <2>3. rl_init_done' => rl_init_done \/ current_state \in RLState
    <3>1. rl_init_done' = \/ rl_init_done
                          \/ current_state \in RLState /\ RunRequest = NotAState
      BY <1>2 DEF RunInNormal, RunAfterEnter, RunEffect
    <3> QED
      BY <3>1, Zenon
  <2> QED
    BY <2>1, <2>2, <2>3
<1>3. CASE CheckChange
  BY <1>3 DEF CheckChange, Engine!CheckChange, policy
<1>4. CASE Exit
  <2>1. /\ UNCHANGED <<current_state, next_state, mode, model, config_name>>
        /\ call = "none" /\ call' = "Exit"
    BY <1>4 DEF Exit, Engine!Exit, ExitEffect
  <2>2. rl_init_done' = (rl_init_done /\ current_state \notin RLState)
    BY <1>4 DEF Exit, ExitEffect
  <2>3. ~rl_init_done'
    BY <2>2, Zenon
  <2> QED
    BY <2>1, <2>3
<1>5. CASE Enter
  <2>1. /\ call = "Exit" /\ call' = "Enter" /\ current_state' = next_state
        /\ mode' = mode /\ mode = "CHANGE" /\ ~rl_init_done
    BY <1>5 DEF Enter, Engine!Enter, EngineFacts
  <2>2. CASE next_state \notin RLState
    <3>1. UNCHANGED policy
      BY <1>5, <2>2 DEF Enter, EnterGetUp, EnterGetDown
    <3> QED
      BY <2>1, <2>2, <3>1 DEF policy
  <2>3. CASE next_state \in RLState
    <3>1. PICK ok \in BOOLEAN : Engine!Enter(EnterRequest(ok)) /\ EnterRL(ok)
      BY <1>5, <2>3 DEF Enter, RLState
    <3>2. ~rl_init_done'
      <4>1. rl_init_done' = (rl_init_done /\ ok)
        BY <3>1 DEF EnterRL
      <4> QED
        BY <2>1, <4>1, Zenon
    <3>3. ok => model' = config_name'
      BY <3>1 DEF EnterRL
    <3>5. config_name' \in Admits[next_state]
      BY <2>3, <3>1, ConfigNamed DEF EnterRL, DataType
    <3>4. ~ok => next_state' = "Passive"
      BY <2>3, <3>1 DEF EnterRequest, Engine!Enter, Engine!Accepts, State, RLState
    <3> QED
      BY <2>1, <2>3, <3>2, <3>3, <3>4, <3>5 DEF RLState
  <2> QED
    BY <2>2, <2>3
<1>6. CASE Return
  <2>1. /\ UNCHANGED <<current_state, next_state, mode, policy>>
        /\ call' = "none" /\ call # "Exit"
    BY <1>6 DEF Return, Engine!Return
  <2> QED
    BY <2>1 DEF policy
<1>7. CASE ClearInput \/ OperatorLeaves \/ RunModel \/ UNCHANGED vars
  BY <1>7 DEF ClearInput, OperatorLeaves, RunModel, vars, fsm, policy
<1>8. CASE (\E k \in Keyboard : SetKeyboard(k)) \/ (\E b \in Gamepad : SetGamepad(b))
  BY <1>8 DEF SetKeyboard, SetGamepad, fsm, policy
<1> QED
  BY <1>1, <1>2, <1>3, <1>4, <1>5, <1>6, <1>7, <1>8 DEF Next, Control

\* The step that StandingInv is inductive under: CheckChange of GetUp is the
\* only one that admits a learned state, and Run of GetUp raises the robot.
LEMMA StandingNext ==
    ASSUME DataType, EngineFacts, StandingInv, [Next]_vars
    PROVE  StandingInv'
<1> USE MyRobotAssumption DEF StandingInv, PolicyOnlyStanding
<1>1. CASE Construct
  BY <1>1 DEF Construct, Engine!SetInitialState, InitialState, RLState
<1>2. CASE RunInNormal \/ RunAfterEnter
  <2>1. RunEffect
    BY <1>2 DEF RunInNormal, RunAfterEnter
  <2>2. /\ current_state' = current_state /\ next_state = current_state
        /\ next_state' = next_state \/ next_state' = RunRequest
    BY <1>2 DEF RunInNormal, RunAfterEnter, Engine!RunInNormal,
       Engine!RunAfterEnter, Engine!StillExpected, EngineFacts
  <2>3. RunRequest \in RLState => current_state \in RLState
    BY DEF RunRequest, RLState, NotAState
  <2>4. next_state' \in RLState => current_state' \in RLState
    BY <2>2, <2>3
  <2>5. current_state' = "GetUp" /\ percent_getup' = GetUpFrames => raised'
    BY <2>1, <2>2, RunEffectTypes
  <2> QED
    BY <2>4, <2>5
<1>3. CASE CheckChange
  <2>1. /\ current_state \in State
        /\ UNCHANGED <<current_state, percent_getup, raised>>
        /\ \/ next_state' = next_state
           \/ next_state' = CheckChangeOf(current_state)
    BY <1>3 DEF CheckChange, Engine!CheckChange, percent, EngineFacts, Engine!TypeOK
  <2>2. CASE current_state \in RLState
    BY <2>1, <2>2 DEF RLState
  <2>3. CASE current_state \in {"Passive", "GetDown"}
    BY <2>1, <2>3, CheckChangeAnswers
  <2>4. CASE current_state = "GetUp"
    <3>1. CheckChangeOf(current_state) \in RLState => percent_getup = GetUpFrames
      BY <2>1, <2>4, CheckChangeAnswers, Progress
    <3> QED
      BY <2>1, <2>4, <3>1
  <2> QED
    BY <2>1, <2>2, <2>3, <2>4 DEF State, RLState
<1>4. CASE Exit
  BY <1>4 DEF Exit, Engine!Exit, ExitEffect, percent
<1>5. CASE Enter
  <2>1. current_state' = next_state
    BY <1>5 DEF Enter, Engine!Enter
  <2>2. CASE next_state \notin RLState
    <3>1. next_state' = next_state
      BY <1>5, <2>2 DEF Enter, Engine!Enter, Engine!Accepts, State, RLState, NotAState
    <3>2. next_state = "GetUp" => percent_getup' = 0
      BY <1>5, <2>2 DEF Enter, EnterGetUp
    <3> QED
      BY <2>1, <2>2, <3>1, <3>2
  <2>3. CASE next_state \in RLState
    BY <2>1, <2>3 DEF RLState
  <2> QED
    BY <2>2, <2>3
<1>6. CASE Return
  BY <1>6 DEF Return, Engine!Return, percent
<1>7. CASE ClearInput \/ OperatorLeaves \/ RunModel \/ UNCHANGED vars
  BY <1>7 DEF ClearInput, OperatorLeaves, RunModel, vars, fsm, percent
<1>8. CASE (\E k \in Keyboard : SetKeyboard(k)) \/ (\E b \in Gamepad : SetGamepad(b))
  BY <1>8 DEF SetKeyboard, SetGamepad, fsm, percent
<1> QED
  BY <1>1, <1>2, <1>3, <1>4, <1>5, <1>6, <1>7, <1>8 DEF Next, Control

\* Every state of the robot satisfies the three invariants.
LEMMA MyRobotInvHolds ==
    Spec => [](EngineFacts /\ DataType /\ GateInv /\ StandingInv)
<1>1. Init => DataType /\ GateInv /\ StandingInv
  <2> SUFFICES ASSUME Init PROVE DataType /\ GateInv /\ StandingInv
    OBVIOUS
  <2>1. DataType
    <3>1. /\ {current_keyboard, last_keyboard} = {"None"}
          /\ current_gamepad = "None"
      BY DEF Init
    <3>2. /\ percent_getup = 0 /\ percent_getdown = 0
          /\ episode_length_buf = 0 /\ model = NotAState
          /\ raised = FALSE /\ deployment \in Deployment
          /\ config_name \in Config \cup {""}
          /\ rl_init_done = FALSE /\ phase = "boot" /\ quiet = FALSE
      BY DEF Init, FirstConfig, Config
    <3>3. /\ 0 \in 0 .. GetUpFrames /\ 0 \in 0 .. GetDownFrames
          /\ 0 \in 0 .. MaxEpisodeLength
      BY MyRobotAssumption
    <3> QED
      BY <3>1, <3>2, <3>3, Zenon DEF DataType
  <2>2. /\ current_state = "null" /\ next_state = "null"
        /\ call = "none" /\ ~rl_init_done
    BY DEF Init, Engine!Init, NotAState
  <2>3. GateInv
    BY <2>2 DEF GateInv, PolicyGate, RLState
  <2>4. StandingInv
    BY <2>2 DEF StandingInv, PolicyOnlyStanding, RLState
  <2> QED
    BY <2>1, <2>3, <2>4
<1>2. DataType /\ EngineFacts /\ GateInv /\ StandingInv /\ [Next]_vars
          => (DataType /\ GateInv /\ StandingInv)'
  BY DataTypeNext, GateNext, StandingNext
<1> QED
  BY <1>1, <1>2, EngineInvHolds, EngineFactsFollow, PTL DEF Spec

\* The variables have values of their types, for every length of the motions.
THEOREM MyRobotTypeCorrect == Spec => []TypeOK
<1>1. EngineFacts /\ DataType => TypeOK
  BY DEF EngineFacts, DataType, TypeOK
<1> QED
  BY <1>1, MyRobotInvHolds, PTL

\* The policy thread is enabled only in a learned state, with the model of the
\* configuration that state named: neither a failed InitRL nor a state that has
\* been left runs one, the dance and mjlab run their own policy, and locomotion
\* never the dance's.
THEOREM PolicyGateHolds == Spec => []PolicyGate
<1>1. GateInv => PolicyGate
  BY DEF GateInv
<1> QED
  BY <1>1, MyRobotInvHolds, PTL

\* From a state without a policy, a learned one is chosen and entered only when
\* GetUp has brought the joints to the standing pose this time, and neither
\* Passive nor GetDown has commanded them since.
THEOREM PolicyOnlyStandingHolds == Spec => []PolicyOnlyStanding
<1>1. StandingInv => PolicyOnlyStanding
  BY DEF StandingInv
<1> QED
  BY <1>1, MyRobotInvHolds, PTL
=============================================================================
