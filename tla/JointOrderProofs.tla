-------------------------- MODULE JointOrderProofs --------------------------
(***************************************************************************)
(* Proofs about JointOrder for every number of joints and any orders of    *)
(* the policies: a pose that a state keeps reaches the motors it was       *)
(* measured on, and the real robot observes in the order of its policy.    *)
(***************************************************************************)
EXTENDS JointOrder, TLAPS

\* The joint_mappings: every motor once.
Mapping == Bijection(Joint, Joint)

\* The vectors of joint values, with the zeros before the first message.
Vector == [Joint -> Joint \cup {0}]

(***************************************************************************)
(* The orders, and the maps between them.                                  *)
(***************************************************************************)

LEMMA MappingsAreBijections ==
    /\ MotorOrder \in Mapping
    /\ \A c : JointMapping(c) \in Mapping
<1>1. MotorOrder \in Mapping
  BY DEF MotorOrder, Mapping, Bijection, Injection, Surjection, IsInjective
<1>2. RobotLabOrder \in Mapping /\ MjlabOrder \in Mapping
  BY OrderAssumption DEF Mapping
<1>3. ASSUME NEW c PROVE JointMapping(c) \in Mapping
  <2> HIDE DEF Mapping
  <2> QED
    BY <1>1, <1>2 DEF JointMapping
<1> QED
  BY <1>1, <1>3

LEMMA MappingFacts ==
    ASSUME NEW m \in Mapping
    PROVE  /\ m \in Vector
           /\ m \in [Joint -> Joint]
           /\ m # Zero
           /\ \A j \in Joint : \E i \in Joint : m[i] = j
           /\ \A i, j \in Joint : m[i] = m[j] => i = j
<1>1. /\ m \in [Joint -> Joint]
      /\ \A j \in Joint : \E i \in Joint : m[i] = j
  BY DEF Mapping, Bijection, Surjection
<1>2. \A i, j \in Joint : m[i] = m[j] => i = j
  BY <1>1 DEF Mapping, Bijection, Injection, IsInjective
<1>3. m \in Vector
  BY <1>1 DEF Vector
<1>4. m # Zero
  <2>1. 1 \in Joint /\ 0 \notin Joint
    BY OrderAssumption DEF Joint
  <2>2. m[1] \in Joint /\ Zero[1] = 0
    BY <1>1, <2>1 DEF Zero
  <2> QED
    BY <2>1, <2>2
<1> QED
  BY <1>1, <1>2, <1>3, <1>4

LEMMA VectorFacts ==
    /\ Zero \in Vector
    /\ MotorOrder \in Vector
    /\ MotorOrder # Zero
BY MappingsAreBijections, MappingFacts DEF Zero, Vector

\* A vector in the order of the mapping in force reaches the motors.
LEMMA OwnOrderReaches ==
    ASSUME NEW m \in Mapping
    PROVE  PolicyCommandToMotorOrder(m, m) = MotorOrder
<1>1. ASSUME NEW j \in Joint
      PROVE  m[CHOOSE i \in Joint : m[i] = j] = j
  BY MappingFacts
<1> QED
  BY <1>1 DEF PolicyCommandToMotorOrder, MotorOrder

\* Rearranged, the joints of the motors are in the order of the policy.
LEMMA ToPolicyOrder ==
    ASSUME NEW m \in Mapping
    PROVE  MotorStateToPolicyOrder(MotorOrder, m) = m
<1>1. m \in [Joint -> Joint]
  BY MappingFacts
<1>2. ASSUME NEW i \in Joint PROVE MotorOrder[m[i]] = m[i]
  BY <1>1 DEF MotorOrder
<1> QED
  BY <1>1, <1>2 DEF MotorStateToPolicyOrder

\* A pose in the old order is carried over to the new one.
LEMMA RemapCarriesOver ==
    ASSUME NEW old \in Mapping, NEW new \in Mapping
    PROVE  Remap(old, old, new) = new
<1>1. new \in [Joint -> Joint]
  BY MappingFacts
<1>2. ASSUME NEW i \in Joint
      PROVE  old[CHOOSE k \in Joint : old[k] = new[i]] = new[i]
  BY <1>1, MappingFacts
<1> QED
  BY <1>1, <1>2 DEF Remap

LEMMA MapsKeepVectors ==
    ASSUME NEW q \in Vector, NEW m \in Mapping, NEW new \in Mapping
    PROVE  /\ MotorStateToPolicyOrder(q, m) \in Vector
           /\ Remap(q, m, new) \in Vector
<1>1. ASSUME NEW i \in Joint PROVE q[m[i]] \in Joint \cup {0}
  BY MappingFacts DEF Vector
<1>2. ASSUME NEW i \in Joint
      PROVE  q[CHOOSE k \in Joint : m[k] = new[i]] \in Joint \cup {0}
  <2>1. new[i] \in Joint
    BY MappingFacts
  <2>2. (CHOOSE k \in Joint : m[k] = new[i]) \in Joint
    BY <2>1, MappingFacts
  <2> QED
    BY <2>2 DEF Vector
<1>3. MotorStateToPolicyOrder(q, m) \in Vector
  BY <1>1 DEF MotorStateToPolicyOrder, Vector
<1>4. Remap(q, m, new) \in Vector
  BY <1>2 DEF Remap, Vector
<1> QED
  BY <1>3, <1>4

\* The configurations by name.
LEMMA ConfigFacts ==
    /\ deployment \in Deployment => FirstConfig \in Config \cup {""}
    /\ \A s \in RLState, c \in Config \cup {""} : ConfigOf(s, c) \in Config
    /\ \A c : JointMapping(c) \in Order
<1>1. deployment \in Deployment => FirstConfig \in Config \cup {""}
  BY DEF FirstConfig, Config
<1>2. ASSUME NEW s \in RLState, NEW c \in Config \cup {""}
      PROVE  ConfigOf(s, c) \in Config
  BY DEF ConfigOf, RLState, Config
<1>3. ASSUME NEW c PROVE JointMapping(c) \in Order
  <2>1. CASE c \in Config
    BY <2>1 DEF Order
  <2>2. CASE c \notin Config
    BY <2>2 DEF Order, JointMapping, Config
  <2> QED
    BY <2>1, <2>2
<1> QED
  BY <1>1, <1>2, <1>3

(***************************************************************************)
(* The inductive invariant.                                                *)
(***************************************************************************)

\* TypeOK, a variable at a time.
Types ==
    /\ deployment \in Deployment
    /\ state \in State
    /\ phase \in {"get", "fsm", "set"}
    /\ config_name \in Config \cup {""}
    /\ state \in RLState => config_name \in Config
    /\ joint_mapping \in Mapping /\ joint_mapping \in Order
    /\ robot_q \in Vector /\ now_q \in Vector /\ start_q \in Vector
    /\ hold_q \in Vector /\ obs_q \in Vector
    /\ command \subseteq Vector /\ output \subseteq Vector
    /\ writer \in {"passive", "motion", "hold", "policy", "nobody"}
    /\ exchanged \in BOOLEAN

\* In the simulation, the poses that are kept are in the order in force: the
\* one just read, the start of the motion that runs, and the pose held by a
\* learned state, whose Enter is the only one to change the order; and the
\* pose GetUp started from, until the order is exchanged.
PosesInOrder ==
    deployment = "sim" =>
        /\ phase = "fsm" => robot_q = joint_mapping
        /\ state \in {"GetUp", "GetDown"} => now_q = joint_mapping
        /\ state \in RLState => hold_q = joint_mapping
        /\ ~exchanged => start_q = joint_mapping

\* What was written in this cycle was written by the state the FSM is in.
WriterInv ==
    /\ phase = "fsm" => writer = "nobody"
    /\ phase = "set" /\ writer = "motion" =>
           /\ state \in {"GetUp", "GetDown"} /\ now_q \in command
           /\ state = "GetDown" => command = {now_q, start_q}
    /\ phase = "set" /\ writer = "hold" =>
           state \in RLState /\ command = {hold_q}

\* The real robot has read the motors, but for the very first cycle.
ReadInv ==
    deployment = "real" =>
        robot_q = MotorOrder \/ (state = "Passive" /\ phase = "get")

OrderInv == Types /\ PosesInOrder /\ WriterInv /\ ReadInv /\ ObservedInOrder

LEMMA OrderInvInit == Init => OrderInv
<1> SUFFICES ASSUME Init PROVE OrderInv
  OBVIOUS
<1>1. /\ deployment \in Deployment /\ state = "Passive" /\ phase = "get"
      /\ config_name = FirstConfig /\ joint_mapping = MotorOrder
      /\ robot_q = Zero /\ now_q = Zero /\ start_q = Zero /\ hold_q = Zero
      /\ command = {Zero} /\ writer = "nobody" /\ obs_q = Zero
      /\ output = {MotorOrder} /\ exchanged = TRUE
  BY DEF Init
<1>2. MotorOrder \in Mapping /\ MotorOrder \in Order
  BY MappingsAreBijections DEF Order
<1>3. Types
  BY <1>1, <1>2, VectorFacts, ConfigFacts DEF Types, State, RLState
<1>4. PosesInOrder /\ WriterInv /\ ReadInv /\ ObservedInOrder
  BY <1>1 DEF PosesInOrder, WriterInv, ReadInv, ObservedInOrder, RLState
<1> QED
  BY <1>3, <1>4 DEF OrderInv

\* OrderInv speaks of the variables only.
LEMMA OrderInvStutter ==
    ASSUME OrderInv, UNCHANGED vars
    PROVE  OrderInv'
<1>1. UNCHANGED <<deployment, state, phase, robot_q, now_q, start_q, hold_q,
                  command, writer, config_name, joint_mapping, obs_q, output,
                  exchanged>>
  BY DEF vars, control
<1>2. Types'
  BY <1>1 DEF OrderInv, Types
<1>3. PosesInOrder' /\ WriterInv' /\ ReadInv' /\ ObservedInOrder'
  BY <1>1 DEF OrderInv, PosesInOrder, WriterInv, ReadInv, ObservedInOrder
<1> QED
  BY <1>2, <1>3 DEF OrderInv

(***************************************************************************)
(* The steps of the control thread.                                        *)
(***************************************************************************)

LEMMA GetStateKeeps ==
    ASSUME OrderInv, GetState, UNCHANGED deployment
    PROVE  OrderInv'
<1>1. /\ phase = "get" /\ phase' = "fsm" /\ writer' = "nobody"
      /\ robot_q' = IF deployment = "sim" THEN joint_mapping ELSE MotorOrder
      /\ UNCHANGED <<deployment, state, now_q, start_q, hold_q, command,
                     config_name, joint_mapping, obs_q, output, exchanged>>
  BY DEF GetState, policy
<1>2. Types
  BY DEF OrderInv
<1>3. robot_q' \in Vector
  BY <1>1, <1>2, VectorFacts, MappingFacts DEF Types
<1>4. Types'
  BY <1>1, <1>2, <1>3 DEF Types
<1>5. PosesInOrder' /\ WriterInv' /\ ReadInv' /\ ObservedInOrder'
  BY <1>1, <1>2 DEF OrderInv, Types, PosesInOrder, WriterInv, ReadInv,
                    ObservedInOrder, Deployment
<1> QED
  BY <1>4, <1>5 DEF OrderInv

\* Steps of the FSM that keep the order, and with it config_name and obs_q.
LEMMA StateStepKeeps ==
    ASSUME OrderInv, phase = "fsm", phase' = "set",
           UNCHANGED <<deployment, robot_q, config_name, joint_mapping, obs_q,
                       output>>,
           \/ UNCHANGED <<start_q, exchanged>>
           \/ state' = "GetUp" /\ start_q' = robot_q /\ exchanged' = FALSE,
           state' \in State, state' \in RLState => state \in RLState,
           now_q' \in Vector, start_q' \in Vector, hold_q' = hold_q,
           command' \subseteq Vector,
           writer' \in {"passive", "motion", "hold", "policy", "nobody"},
           state' \in {"GetUp", "GetDown"} =>
               now_q' = robot_q \/ (state' = state /\ now_q' = now_q),
           writer' = "motion" =>
               /\ state' \in {"GetUp", "GetDown"} /\ now_q' \in command'
               /\ state' = "GetDown" => command' = {now_q', start_q'},
           writer' = "hold" => state' \in RLState /\ command' = {hold_q'}
    PROVE  OrderInv'
<1>1. Types'
  BY DEF OrderInv, Types
<1>2. PosesInOrder'
  BY DEF OrderInv, PosesInOrder
<1>3. WriterInv'
  BY DEF WriterInv
<1>4. ReadInv' /\ ObservedInOrder'
  BY DEF OrderInv, ReadInv, ObservedInOrder
<1> QED
  BY <1>1, <1>2, <1>3, <1>4 DEF OrderInv

LEMMA PassiveKeeps ==
    ASSUME OrderInv, Passive, UNCHANGED deployment
    PROVE  OrderInv'
<1>1. /\ phase = "fsm" /\ phase' = "set" /\ state' = "Passive"
  BY DEF Passive, Goes, Stays
<1>2. /\ writer' = "passive" /\ command' = {joint_mapping}
      /\ UNCHANGED <<robot_q, now_q, start_q, hold_q, config_name,
                     joint_mapping, obs_q, output, exchanged>>
  BY DEF Passive, Writes, policy
<1>3. Types
  BY DEF OrderInv
<1>4. command' \subseteq Vector
  BY <1>2, <1>3, MappingFacts DEF Types
<1>5. "Passive" \in State /\ "Passive" \notin RLState
  BY DEF State, RLState
<1> QED
  BY <1>1, <1>2, <1>3, <1>4, <1>5, StateStepKeeps DEF Types

LEMMA EnterGetUpKeeps ==
    ASSUME OrderInv, EnterGetUp, UNCHANGED deployment
    PROVE  OrderInv'
<1>1. /\ phase = "fsm" /\ phase' = "set" /\ state' = "GetUp"
  BY DEF EnterGetUp, Goes
<1>2. /\ now_q' = robot_q /\ start_q' = robot_q /\ exchanged' = FALSE
      /\ writer' = "motion" /\ command' = {now_q', joint_mapping}
      /\ UNCHANGED <<robot_q, hold_q, config_name, joint_mapping, obs_q,
                     output>>
  BY DEF EnterGetUp, Writes, policy
<1>3. Types
  BY DEF OrderInv
<1>4. command' \subseteq Vector
  BY <1>2, <1>3, MappingFacts DEF Types
<1>5. "GetUp" \in State /\ "GetUp" \notin RLState
  BY DEF State, RLState
<1> QED
  BY <1>1, <1>2, <1>3, <1>4, <1>5, StateStepKeeps DEF Types

LEMMA EnterGetDownKeeps ==
    ASSUME OrderInv, EnterGetDown, UNCHANGED deployment
    PROVE  OrderInv'
<1>1. /\ phase = "fsm" /\ phase' = "set" /\ state' = "GetDown"
  BY DEF EnterGetDown, Goes
<1>2. /\ now_q' = robot_q
      /\ writer' = "motion" /\ command' = {now_q', start_q}
      /\ UNCHANGED <<robot_q, start_q, hold_q, config_name, joint_mapping,
                     obs_q, output, exchanged>>
  BY DEF EnterGetDown, Writes, policy
<1>3. Types
  BY DEF OrderInv
<1>4. command' \subseteq Vector
  BY <1>2, <1>3 DEF Types
<1>5. "GetDown" \in State /\ "GetDown" \notin RLState
  BY DEF State, RLState
<1> QED
  BY <1>1, <1>2, <1>3, <1>4, <1>5, StateStepKeeps DEF Types

LEMMA RunMotionKeeps ==
    ASSUME OrderInv, RunMotion, UNCHANGED deployment
    PROVE  OrderInv'
<1>1. /\ state \in {"GetUp", "GetDown"} /\ state' = state
      /\ phase = "fsm" /\ phase' = "set"
      /\ UNCHANGED <<robot_q, now_q, start_q, hold_q, config_name,
                     joint_mapping, obs_q, output, exchanged>>
  BY DEF RunMotion, Stays, policy
<1>2. Types /\ writer = "nobody"
  BY <1>1 DEF OrderInv, WriterInv
<1>3. \/ /\ writer' = "motion"
         /\ command' = {now_q, IF state = "GetUp" THEN joint_mapping
                                                  ELSE start_q}
      \/ writer' = writer /\ command' = command
  BY DEF RunMotion, Writes, WritesNothing
<1>4. command' \subseteq Vector
  <2>1. joint_mapping \in Vector /\ start_q \in Vector /\ now_q \in Vector
    BY <1>2, MappingFacts DEF Types
  <2>2. command \subseteq Vector
    BY <1>2 DEF Types
  <2> QED
    BY <1>3, <2>1, <2>2
<1> QED
  BY <1>1, <1>2, <1>3, <1>4, StateStepKeeps DEF Types

LEMMA RunRLKeeps ==
    ASSUME OrderInv, RunRL, UNCHANGED deployment
    PROVE  OrderInv'
<1>1. /\ state \in RLState /\ state' = state
      /\ phase = "fsm" /\ phase' = "set"
      /\ UNCHANGED <<robot_q, now_q, start_q, hold_q, config_name,
                     joint_mapping, obs_q, output, exchanged>>
  BY DEF RunRL, Stays, policy
<1>2. Types /\ writer = "nobody"
  BY <1>1 DEF OrderInv, WriterInv
<1>3. \/ writer' = "hold" /\ command' = {hold_q}
      \/ writer' = "policy" /\ command' = output
      \/ writer' = "policy" /\ command' = output \cup {hold_q}
      \/ writer' = writer /\ command' = command
  BY DEF RunRL, Writes, WritesNothing
<1>4. command' \subseteq Vector
  BY <1>2, <1>3 DEF Types
<1> QED
  BY <1>1, <1>2, <1>3, <1>4, StateStepKeeps DEF Types

LEMMA SetCommandKeeps ==
    ASSUME OrderInv, SetCommand, UNCHANGED deployment
    PROVE  OrderInv'
<1>1. /\ phase = "set" /\ phase' = "get"
      /\ UNCHANGED <<deployment, state, robot_q, now_q, start_q, hold_q,
                     command, writer, config_name, joint_mapping, obs_q,
                     output, exchanged>>
  BY DEF SetCommand, policy
<1>2. Types'
  BY <1>1 DEF OrderInv, Types
<1>3. PosesInOrder' /\ WriterInv' /\ ReadInv' /\ ObservedInOrder'
  BY <1>1 DEF OrderInv, PosesInOrder, WriterInv, ReadInv, ObservedInOrder
<1> QED
  BY <1>2, <1>3 DEF OrderInv

(***************************************************************************)
(* Enter of a learned state: the order changes.                            *)
(***************************************************************************)

LEMMA EnterAndLoadKeeps ==
    ASSUME OrderInv, NEW s, EnterAndLoad(s), UNCHANGED deployment,
           \/ writer' = "hold" /\ command' = {hold_q'}
           \/ UNCHANGED <<writer, command>>
    PROVE  OrderInv'
<1>1. /\ s \in RLState /\ state' = s /\ phase = "fsm" /\ phase' = "set"
      /\ config_name' = ConfigOf(s, config_name)
      /\ joint_mapping' = JointMapping(config_name')
      /\ \/ hold_q' = Remap(robot_q, joint_mapping, joint_mapping')
         \/ hold_q' = joint_mapping'
      /\ now_q' = robot_q /\ obs_q' = joint_mapping'
      /\ output' \in {{}, output}
      /\ exchanged' = (exchanged \/ joint_mapping' # joint_mapping)
      /\ UNCHANGED <<robot_q, start_q>>
  BY DEF EnterAndLoad, HeldPoses, Goes, Exchange
<1>2. Types /\ writer = "nobody"
  BY <1>1 DEF OrderInv, WriterInv
<1>3. config_name' \in Config /\ joint_mapping' \in Order
  BY <1>1, <1>2, ConfigFacts DEF Types
<1>4. joint_mapping' \in Mapping /\ joint_mapping' \in Vector
  BY <1>1, MappingsAreBijections, MappingFacts
<1>5. hold_q' \in Vector
  BY <1>1, <1>2, <1>4, MapsKeepVectors DEF Types
<1>6. s \in State /\ s \notin {"Passive", "GetUp", "GetDown"}
  BY <1>1 DEF State, RLState
<1>7. Types'
  <2>1. command' \subseteq Vector
    BY <1>2, <1>5 DEF Types
  <2>2. writer' \in {"hold", "nobody"}
    BY <1>2
  <2> QED
    BY <1>1, <1>2, <1>3, <1>4, <1>5, <1>6, <2>1, <2>2 DEF Types
<1>8. PosesInOrder'
  <2>1. ASSUME deployment = "sim" PROVE hold_q' = joint_mapping'
    <3>1. robot_q = joint_mapping
      BY <1>1, <2>1 DEF OrderInv, PosesInOrder
    <3>2. Remap(robot_q, joint_mapping, joint_mapping') = joint_mapping'
      BY <1>2, <1>4, <3>1, RemapCarriesOver DEF Types
    <3> QED
      BY <1>1, <3>2
  <2>2. ASSUME deployment = "sim", ~exchanged'
        PROVE  start_q' = joint_mapping'
    <3>1. ~exchanged /\ joint_mapping' = joint_mapping
      BY <1>1, <2>2
    <3> QED
      BY <1>1, <2>2, <3>1 DEF OrderInv, PosesInOrder
  <2> QED
    BY <1>1, <1>6, <2>1, <2>2 DEF PosesInOrder
<1>9. WriterInv'
  BY <1>1, <1>2 DEF WriterInv
<1>10. ReadInv' /\ ObservedInOrder'
  BY <1>1 DEF OrderInv, ReadInv, ObservedInOrder
<1> QED
  BY <1>7, <1>8, <1>9, <1>10 DEF OrderInv

LEMMA EnterRLFailsKeeps ==
    ASSUME OrderInv, NEW s, EnterRLFails(s), UNCHANGED deployment
    PROVE  OrderInv'
<1>1. /\ s \in RLState /\ state' = "Passive"
      /\ phase = "fsm" /\ phase' = "set"
      /\ config_name' = ConfigOf(s, config_name)
      /\ hold_q' = robot_q
      /\ output' \in {{}, output}
      /\ exchanged' = (exchanged \/ joint_mapping' # joint_mapping)
      /\ UNCHANGED <<robot_q, now_q, start_q, writer, command>>
  BY DEF EnterRLFails, WritesNothing, Exchange
<1>2. \/ UNCHANGED <<joint_mapping, obs_q>>
      \/ joint_mapping' = JointMapping(config_name') /\ obs_q' = joint_mapping'
  BY DEF EnterRLFails
<1>3. Types /\ writer = "nobody"
  BY <1>1 DEF OrderInv, WriterInv
<1>4. config_name' \in Config
  BY <1>1, <1>3, ConfigFacts DEF Types
<1>5. /\ joint_mapping' \in Mapping /\ joint_mapping' \in Order
      /\ obs_q' \in Vector
  <2>1. CASE UNCHANGED <<joint_mapping, obs_q>>
    BY <1>3, <2>1 DEF Types
  <2>2. CASE joint_mapping' = JointMapping(config_name') /\ obs_q' = joint_mapping'
    <3>1. joint_mapping' \in Mapping /\ joint_mapping' \in Order
      BY <2>2, MappingsAreBijections, ConfigFacts
    <3> QED
      BY <2>2, <3>1, MappingFacts
  <2> QED
    BY <1>2, <2>1, <2>2
<1>6. "Passive" \in State /\ "Passive" \notin RLState
  BY DEF State, RLState
<1>7. Types'
  BY <1>1, <1>3, <1>4, <1>5, <1>6 DEF Types
<1>8. PosesInOrder' /\ WriterInv'
  <2>1. ASSUME deployment = "sim", ~exchanged'
        PROVE  start_q' = joint_mapping'
    <3>1. ~exchanged /\ joint_mapping' = joint_mapping
      BY <1>1, <2>1
    <3> QED
      BY <1>1, <2>1, <3>1 DEF OrderInv, PosesInOrder
  <2> QED
    BY <1>1, <1>3, <1>6, <2>1 DEF PosesInOrder, WriterInv
<1>9. ReadInv' /\ ObservedInOrder'
  BY <1>1, <1>2 DEF OrderInv, ReadInv, ObservedInOrder
<1> QED
  BY <1>7, <1>8, <1>9 DEF OrderInv

(***************************************************************************)
(* The steps of the policy thread.                                         *)
(***************************************************************************)

LEMMA ObserveKeeps ==
    ASSUME OrderInv, Observe, UNCHANGED deployment
    PROVE  OrderInv'
<1>1. /\ state \in RLState
      /\ obs_q' = IF deployment = "real"
                  THEN MotorStateToPolicyOrder(robot_q, joint_mapping)
                  ELSE robot_q
      /\ UNCHANGED <<deployment, state, phase, robot_q, now_q, start_q, hold_q,
                     command, writer, config_name, joint_mapping, output,
                     exchanged>>
  BY DEF Observe, control
<1>2. Types
  BY DEF OrderInv
<1>3. Types'
  <2>1. obs_q' \in Vector
    BY <1>1, <1>2, MapsKeepVectors DEF Types
  <2> QED
    BY <1>1, <1>2, <2>1 DEF Types
<1>4. ObservedInOrder'
  <2> SUFFICES ASSUME deployment = "real" PROVE obs_q' = joint_mapping'
    BY <1>1 DEF ObservedInOrder
  <2>1. "Passive" \notin RLState
    BY DEF RLState
  <2>2. robot_q = MotorOrder
    BY <1>1, <2>1 DEF OrderInv, ReadInv
  <2> QED
    BY <1>1, <1>2, <2>2, ToPolicyOrder DEF Types
<1>5. PosesInOrder' /\ WriterInv' /\ ReadInv'
  BY <1>1 DEF OrderInv, PosesInOrder, WriterInv, ReadInv
<1> QED
  BY <1>3, <1>4, <1>5 DEF OrderInv

LEMMA ComputeOutputKeeps ==
    ASSUME OrderInv, ComputeOutput, UNCHANGED deployment
    PROVE  OrderInv'
<1>1. output' \subseteq {MotorStateToPolicyOrder(robot_q, joint_mapping),
                         joint_mapping}
  BY DEF ComputeOutput
<1>2. UNCHANGED <<deployment, state, phase, robot_q, now_q, start_q, hold_q,
                  command, writer, config_name, joint_mapping, obs_q,
                  exchanged>>
  BY DEF ComputeOutput, control
<1>3. Types
  BY DEF OrderInv
<1>4. output' \subseteq Vector
  <2>1. joint_mapping \in Mapping /\ robot_q \in Vector
    BY <1>3 DEF Types
  <2>2. /\ MotorStateToPolicyOrder(robot_q, joint_mapping) \in Vector
        /\ joint_mapping \in Vector
    BY <2>1, MapsKeepVectors, MappingFacts
  <2> QED
    BY <1>1, <2>2
<1>5. Types'
  BY <1>2, <1>3, <1>4 DEF Types
<1>6. PosesInOrder' /\ WriterInv' /\ ReadInv' /\ ObservedInOrder'
  BY <1>2 DEF OrderInv, PosesInOrder, WriterInv, ReadInv, ObservedInOrder
<1> QED
  BY <1>5, <1>6 DEF OrderInv

(***************************************************************************)
(* The theorems.                                                           *)
(***************************************************************************)

LEMMA OrderInvStep == OrderInv /\ [Next]_vars => OrderInv'
<1> SUFFICES ASSUME OrderInv, [Next]_vars PROVE OrderInv'
  OBVIOUS
<1>1. CASE GetState /\ UNCHANGED deployment
  BY <1>1, GetStateKeeps
<1>2. CASE Passive /\ UNCHANGED deployment
  BY <1>2, PassiveKeeps
<1>3. CASE EnterGetUp /\ UNCHANGED deployment
  BY <1>3, EnterGetUpKeeps
<1>4. CASE EnterGetDown /\ UNCHANGED deployment
  BY <1>4, EnterGetDownKeeps
<1>5. CASE RunMotion /\ UNCHANGED deployment
  BY <1>5, RunMotionKeeps
<1>6. ASSUME NEW s \in RLState, EnterRL(s), UNCHANGED deployment
      PROVE  OrderInv'
  BY <1>6, EnterAndLoadKeeps DEF EnterRL, Writes
<1>7. ASSUME NEW s \in RLState, EnterRLFails(s), UNCHANGED deployment
      PROVE  OrderInv'
  BY <1>7, EnterRLFailsKeeps
<1>8. CASE EnterLocomotionOnTheWay /\ UNCHANGED deployment
  BY <1>8, EnterAndLoadKeeps DEF EnterLocomotionOnTheWay, WritesNothing
<1>9. CASE RunRL /\ UNCHANGED deployment
  BY <1>9, RunRLKeeps
<1>10. CASE SetCommand /\ UNCHANGED deployment
  BY <1>10, SetCommandKeeps
<1>11. CASE Observe /\ UNCHANGED deployment
  BY <1>11, ObserveKeeps
<1>12. CASE ComputeOutput /\ UNCHANGED deployment
  BY <1>12, ComputeOutputKeeps
<1>13. CASE UNCHANGED vars
  BY <1>13, OrderInvStutter
<1> QED
  BY <1>1, <1>2, <1>3, <1>4, <1>5, <1>6, <1>7, <1>8, <1>9, <1>10, <1>11,
     <1>12, <1>13 DEF Next

LEMMA OrderInvHolds == Spec => []OrderInv
<1> QED
  BY OrderInvInit, OrderInvStep, PTL DEF Spec

\* The types, as JointOrder states them.
LEMMA OrderTypes == OrderInv => TypeOK
<1> SUFFICES ASSUME OrderInv PROVE TypeOK
  OBVIOUS
<1>1. Types
  BY DEF OrderInv
<1>2. joint_mapping \in Order \ {Zero}
  BY <1>1, MappingFacts DEF Types
<1>3. {robot_q, now_q, start_q, hold_q, obs_q} \subseteq Vector
  BY <1>1 DEF Types
<1>4. UNION {command, output} \subseteq Vector
  BY <1>1 DEF Types
<1>5. config_name \in Config \/ (config_name = "" /\ state \notin RLState)
  BY <1>1 DEF Types
<1> QED
  BY <1>1, <1>2, <1>3, <1>4, <1>5 DEF TypeOK, Types, Vector

\* In the simulation a pose that a state keeps reaches the motors it was
\* measured on, whatever the history of entries exchanged joint_mapping, for
\* every number of joints and any orders of the policies; so does the row of
\* ampobs.csv that the dance starts from; GetDown leads each joint back to where
\* GetUp found it unless a policy of another order was entered in between; and
\* the vectors keep their types.
THEOREM PosesReachHolds == Spec => []PosesReach
<1>1. OrderInv => PosesReach
  <2> SUFFICES ASSUME OrderInv PROVE PosesReach
    OBVIOUS
  <2>1. Types /\ PosesInOrder /\ WriterInv
    BY DEF OrderInv
  <2>2. Reaches(joint_mapping)
    BY <2>1, OwnOrderReaches DEF Types, Reaches, Delivered
  <2>3. HeldPoseReaches
    BY <2>1, <2>2 DEF HeldPoseReaches, PosesInOrder, WriterInv
  <2>4. MotionStartReaches
    BY <2>1, <2>2 DEF MotionStartReaches, PosesInOrder, WriterInv
  <2>5. GetDownReturns
    BY <2>1, <2>2 DEF GetDownReturns, PosesInOrder, WriterInv
  <2> QED
    BY <2>3, <2>4, <2>5, OrderTypes DEF PosesReach
<1> QED
  BY <1>1, OrderInvHolds, PTL

\* On the real robot a policy observes the joints in the order of the
\* parameters in force, however InitRL and RunModel interleave.
THEOREM ObservedInOrderHolds == Spec => []ObservedInOrder
<1>1. OrderInv => ObservedInOrder
  BY DEF OrderInv
<1> QED
  BY <1>1, OrderInvHolds, PTL
=============================================================================
