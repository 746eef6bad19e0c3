--------------------------- MODULE ComponentsProofs -------------------------
(***************************************************************************)
(* Proofs about components of MCComponents, each for every value of its    *)
(* constants.                                                              *)
(***************************************************************************)
EXTENDS MCComponents, SequenceTheorems, WellFoundedInduction, TLAPS

\* A step of one component leaves the variables of the others alone.
LEMMA OthersStay ==
    ASSUME NEW p, Others(p)
    PROVE  /\ p # "OperatorInput" => UNCHANGED keys_vars
           /\ p # "Gamepad" => UNCHANGED pad_vars
           /\ p # "ModelInput" => UNCHANGED input_vars
           /\ p # "Output" => UNCHANGED output_vars
           /\ p # "ActionDelay" => UNCHANGED delay_vars
           /\ p # "JointController" => UNCHANGED joint_vars
           /\ p # "Gazebo" => UNCHANGED gazebo_vars
           /\ p # "RealLink" => UNCHANGED link_vars
           /\ p # "MotionLoader" => UNCHANGED motion_vars
           /\ p # "MjlabMotion" => UNCHANGED mjlab_vars
           /\ p # "Orientation" => UNCHANGED turn_vars
           /\ p # "HeadingHold" => UNCHANGED hold_vars
           /\ p # "Inference" => UNCHANGED inference_vars
  BY DEF Others
-----------------------------------------------------------------------------
(* The link to the real robot, for every number of messages: they may      *)
(* arrive whole or cut short, at any moment of a period of the control     *)
(* thread, and the policy thread may read the state at any moment too.     *)

Message == 0 .. MaxMessages

\* The variables have values of their types.
LinkTypes ==
    /\ zmq \in {"none", "open", "failed", "closed"}
    /\ {arrived, newest, due, state_msg, state_before, joints, obs_joints}
          \subseteq Message
    /\ {imu, obs_imu} \subseteq Message \X Message
    /\ link_control \in {"receive", "imu", "joints", "fsm", "enter", "load",
                         "fk", "static", "fill", "send"}
    /\ link_config_name \in LinkPolicies
    /\ last_loaded_config_name \in LinkPolicies \cup {"none"}
    /\ {link_rl_init_done, fk, dance_online_fk_enabled,
        dance_static_ref_loaded, own} \subseteq BOOLEAN
    /\ dance_key_body_ref \in {"none", "some", "all"}
    /\ link_rl \in {"idle", "joints", "bodies", "fk", "forward"}
    /\ key_body_pos_rel \in {"zeros", "some", "all", "fk", "none"}

\* The socket holds nothing or the last message that arrived, and when it is
\* empty that message is in state_msg, unless it was cut short.
SocketInv ==
    /\ \/ zmq_sub = <<>>
       \/ \E whole \in BOOLEAN :
             /\ zmq_sub = <<[n |-> arrived, whole |-> whole]>>
             /\ whole <=> newest # 0
             /\ arrived # 0
    /\ newest \in {0, arrived}
    /\ state_msg <= arrived
    /\ zmq = "none" => newest = 0
    /\ zmq = "open" /\ zmq_sub = <<>> /\ newest # 0 => state_msg = newest

\* What the period that began with the message `due' has done with it so far.
PeriodInv ==
    /\ link_control = "receive" => due = 0
    /\ due # 0 => /\ state_msg = due
                  /\ link_control # "imu" => imu[1] = due
                  /\ link_control \notin {"imu", "joints"} => joints = due

\* The messages of the parts of the state, from the oldest to the newest: the
\* joints catch up with state_msg in every period, and a pass that reads them
\* after the attitude finds them no older than the one it was preceded by.
AgeInv ==
    /\ imu[2] <= joints /\ joints <= state_msg
    /\ link_control \notin {"imu", "joints"} => joints = state_msg
    /\ link_control = "imu" => state_before <= joints
    /\ state_before <= state_msg
    /\ link_rl = "joints" => obs_imu[2] <= joints
    /\ link_rl \in {"bodies", "fk", "forward"} => obs_imu[2] <= obs_joints

\* While the policy is enabled no entry is under way, so what it refers to
\* stays; the model is used whenever there is one, and the static positions
\* are complete when they are used.
ReferenceInv ==
    /\ link_rl_init_done =>
          link_control \notin {"enter", "load", "fk", "static", "fill"}
    /\ fk => dance_online_fk_enabled
    /\ dance_static_ref_loaded /\ link_control # "fill" =>
          dance_key_body_ref = "all"

\* The best key bodies that there are.
BestBodies ==
    IF fk THEN "fk"
    ELSE IF dance_key_body_ref = "all" /\ dance_static_ref_loaded
    THEN "all" ELSE "zeros"

PassInv ==
    own /\ link_rl_init_done /\ link_config_name = "whole_body_tracking" =>
        /\ link_rl = "fk" => fk
        /\ link_rl = "forward" => key_body_pos_rel = BestBodies

LinkInv ==
    LinkTypes /\ SocketInv /\ PeriodInv /\ AgeInv /\ ReferenceInv /\ PassInv
\* The sockets, the arrival of messages and what the control thread does with
\* them in a period.
Messages ==
    \/ R!InitZMQ \/ R!CloseZMQ \/ \E whole \in BOOLEAN : R!Arrive(whole)
    \/ R!ReceiveState \/ R!GetStateIMU \/ R!GetStateJoints \/ R!SendCommand

\* The states of the robot, and what InitRL loads for them.
Entries ==
    \/ R!StateRuns \/ R!Exit \/ \E c \in LinkPolicies : R!Enter(c)
    \/ R!InitRLThrows \/ R!OnPolicyConfigLoaded
    \/ \E ok \in BOOLEAN : R!LoadFkModel(ok) \/ R!LoadDanceStaticRef(ok)
    \/ R!NoStaticRef \/ R!FillStaticRef

Pass ==
    \/ R!RunModel \/ R!ReadJoints \/ R!ComputeKeyBodyPosFK \/ R!FkComputed
    \/ R!FallBack
    \/ R!Forward

LEMMA NextCases == R!Next => Messages \/ Entries \/ Pass
  BY DEF R!Next, Messages, Entries, Pass

\* What is read from the socket, if anything: the last message, if it is whole.
LEMMA Received ==
    ASSUME LinkTypes, SocketInv, R!ReceiveState
    PROVE  /\ zmq_sub' = <<>>
           /\ \/ state_msg' = state_msg /\ state_before' = state_before
              \/ /\ state_msg' = arrived /\ state_before' = state_msg
                 /\ newest # 0
           /\ zmq = "open" /\ newest # 0 => state_msg' = newest
           /\ due' \in {0, newest}
           /\ due' # 0 => zmq = "open" /\ due' = newest
<1>1. CASE zmq_sub = <<>>
  <2>1. /\ zmq_sub' = <<>>
        /\ UNCHANGED <<state_msg, state_before>>
        /\ due' = IF zmq = "open" THEN newest ELSE 0
    BY <1>1 DEF R!ReceiveState
  <2> QED
    BY <1>1, <2>1 DEF SocketInv
<1>2. CASE zmq_sub # <<>>
  <2>1. PICK whole \in BOOLEAN :
            /\ zmq_sub = <<[n |-> arrived, whole |-> whole]>>
            /\ whole <=> newest # 0
    BY <1>2 DEF SocketInv
  <2>2. /\ Head(zmq_sub).n = arrived
        /\ Head(zmq_sub).whole = whole
        /\ Tail(zmq_sub) = <<>>
    BY <2>1
  <2>3. zmq_sub' = <<>> /\ due' = IF zmq = "open" THEN newest ELSE 0
    BY <1>2, <2>2 DEF R!ReceiveState
  <2>4. CASE whole
    <3>1. state_msg' = arrived /\ state_before' = state_msg
      BY <1>2, <2>2, <2>4 DEF R!ReceiveState
    <3> QED
      BY <2>1, <2>3, <2>4, <3>1 DEF SocketInv
  <2>5. CASE ~whole
    <3>1. UNCHANGED <<state_msg, state_before>>
      BY <1>2, <2>2, <2>5 DEF R!ReceiveState
    <3> QED
      BY <2>1, <2>3, <2>5, <3>1
  <2> QED
    BY <2>4, <2>5
<1> QED
  BY <1>1, <1>2

\* The messages: types, socket, period and age.
LEMMA MessagesTypes ==
    ASSUME R!LinkAssumption, LinkTypes, SocketInv, Messages
    PROVE  LinkTypes'
<1> USE DEF R!LinkAssumption, LinkTypes, Message, R!link, R!state, R!entry,
   R!reference, R!pass
<1>1. CASE R!InitZMQ
  BY <1>1 DEF R!InitZMQ
<1>2. CASE R!CloseZMQ
  BY <1>2 DEF R!CloseZMQ
<1>3. ASSUME NEW whole \in BOOLEAN, R!Arrive(whole) PROVE LinkTypes'
  <2>1. arrived' \in 0 .. MaxMessages /\ newest' \in 0 .. MaxMessages
    BY <1>3 DEF R!Arrive
  <2> QED
    BY <1>3, <2>1 DEF R!Arrive
<1>4. CASE R!ReceiveState
  <2>1. /\ {state_msg', state_before', due'} \subseteq 0 .. MaxMessages
        /\ link_control' = "imu"
    BY <1>4, Received DEF R!ReceiveState
  <2> QED
    BY <1>4, <2>1 DEF R!ReceiveState
<1>5. CASE R!GetStateIMU
  <2>1. imu' \in (0 .. MaxMessages) \X (0 .. MaxMessages)
    BY <1>5 DEF R!GetStateIMU
  <2> QED
    BY <1>5, <2>1 DEF R!GetStateIMU
<1>6. CASE R!GetStateJoints
  BY <1>6 DEF R!GetStateJoints, R!Joints
<1>7. CASE R!SendCommand
  BY <1>7 DEF R!SendCommand
<1> QED
  BY <1>1, <1>2, <1>3, <1>4, <1>5, <1>6, <1>7 DEF Messages

LEMMA MessagesNext ==
    ASSUME R!LinkAssumption, LinkTypes, SocketInv, PeriodInv, AgeInv, Messages
    PROVE  (SocketInv /\ PeriodInv /\ AgeInv)'
<1>0. /\ {arrived, newest, due, state_msg, state_before, joints, obs_joints}
            \subseteq Nat
      /\ imu[1] \in Nat /\ imu[2] \in Nat /\ obs_imu[2] \in Nat
  BY DEF R!LinkAssumption, LinkTypes, Message
<1>1. CASE R!InitZMQ \/ R!CloseZMQ
  <2>1. /\ UNCHANGED <<arrived, newest, R!state, link_control, R!pass>>
        /\ zmq_sub' = zmq_sub \/ zmq_sub' = <<>>
        /\ zmq' = "open" => zmq = "none" /\ zmq_sub' = zmq_sub
        /\ zmq' # "none"
    BY <1>1 DEF R!InitZMQ, R!CloseZMQ
  <2>2. SocketInv'
    BY <2>1 DEF SocketInv, R!state
  <2> QED
    BY <2>1, <2>2 DEF PeriodInv, AgeInv, R!state, R!pass
<1>2. ASSUME NEW whole \in BOOLEAN, R!Arrive(whole)
      PROVE  (SocketInv /\ PeriodInv /\ AgeInv)'
  <2>1. /\ arrived' = arrived + 1
        /\ zmq_sub' = <<[n |-> arrived', whole |-> whole]>>
        /\ newest' = IF whole THEN arrived' ELSE 0
        /\ zmq = "open" /\ UNCHANGED <<zmq, R!state, link_control, R!pass>>
    BY <1>2 DEF R!Arrive, R!Hold
  <2>2. whole <=> newest' # 0
    BY <1>0, <2>1
  <2>3. SocketInv'
    BY <1>0, <2>1, <2>2 DEF SocketInv, R!state
  <2> QED
    BY <2>1, <2>3 DEF PeriodInv, AgeInv, R!state, R!pass
<1>3. CASE R!ReceiveState
  <2>1. /\ link_control = "receive" /\ link_control' = "imu"
        /\ UNCHANGED <<zmq, arrived, newest, imu, joints, R!pass>>
    BY <1>3 DEF R!ReceiveState
  <2>2. SocketInv'
    BY <1>0, <1>3, <2>1, Received DEF SocketInv
  <2>3. PeriodInv'
    BY <1>3, <2>1, Received DEF PeriodInv
  <2>4. AgeInv'
    BY <1>0, <1>3, <2>1, Received DEF AgeInv, SocketInv, R!pass
  <2> QED
    BY <2>2, <2>3, <2>4
<1>4. CASE R!GetStateIMU
  <2>1. /\ link_control = "imu" /\ link_control' = "joints"
        /\ imu' = <<state_msg, state_before>>
        /\ UNCHANGED <<R!link, due, state_msg, state_before, joints, R!pass>>
    BY <1>4 DEF R!GetStateIMU
  <2>2. imu'[1] = state_msg /\ imu'[2] = state_before
    BY <2>1
  <2> QED
    BY <2>1, <2>2 DEF SocketInv, PeriodInv, AgeInv, R!link, R!pass
<1>5. CASE R!GetStateJoints
  <2>1. /\ link_control = "joints" /\ link_control' = "fsm"
        /\ joints' = state_msg
        /\ UNCHANGED <<R!link, due, state_msg, state_before, imu, R!pass>>
    BY <1>5 DEF R!GetStateJoints, R!Joints
  <2>2. SocketInv' /\ PeriodInv'
    BY <2>1 DEF SocketInv, PeriodInv, R!link
  <2>3. AgeInv'
    BY <1>0, <2>1 DEF AgeInv, R!pass
  <2> QED
    BY <2>2, <2>3
<1>6. CASE R!SendCommand
  BY <1>6 DEF R!SendCommand, SocketInv, PeriodInv, AgeInv, R!link, R!pass
<1> QED
  BY <1>1, <1>2, <1>3, <1>4, <1>5, <1>6 DEF Messages
\* No message changes what a pass refers to.
LEMMA MessagesReference ==
    ASSUME ReferenceInv, PassInv, Messages
    PROVE  (ReferenceInv /\ PassInv)'
<1>1. /\ UNCHANGED <<R!entry, R!reference, R!pass>>
      /\ link_control' \notin {"enter", "load", "fk", "static", "fill"}
         \/ link_control' = link_control
      /\ link_control' = "fill" <=> link_control = "fill"
  BY DEF Messages, R!InitZMQ, R!CloseZMQ, R!Arrive, R!ReceiveState,
     R!GetStateIMU, R!GetStateJoints, R!SendCommand
<1> QED
  BY <1>1 DEF ReferenceInv, PassInv, BestBodies, R!entry, R!reference, R!pass

\* The entries: types.
LEMMA EntriesTypes ==
    ASSUME LinkTypes, Entries
    PROVE  LinkTypes'
<1> USE DEF LinkTypes, R!link, R!state, R!entry, R!reference, R!pass
<1>1. CASE R!StateRuns
  BY <1>1 DEF R!StateRuns
<1>2. CASE R!Exit
  BY <1>2 DEF R!Exit
<1>3. ASSUME NEW c \in LinkPolicies, R!Enter(c) PROVE LinkTypes'
  BY <1>3 DEF R!Enter
<1>4. CASE R!InitRLThrows
  BY <1>4 DEF R!InitRLThrows
<1>5. CASE R!OnPolicyConfigLoaded
  <2>1. CASE R!ToLoad
    BY <1>5, <2>1 DEF R!OnPolicyConfigLoaded
  <2>2. CASE ~R!ToLoad
    BY <1>5, <2>2 DEF R!OnPolicyConfigLoaded, R!EntryDone
  <2> QED
    BY <2>1, <2>2
<1>6. ASSUME NEW ok \in BOOLEAN, R!LoadFkModel(ok) PROVE LinkTypes'
  BY <1>6 DEF R!LoadFkModel
<1>7. ASSUME NEW ok \in BOOLEAN, R!LoadDanceStaticRef(ok) PROVE LinkTypes'
  BY <1>7 DEF R!LoadDanceStaticRef, R!EntryDone
<1>8. CASE R!NoStaticRef
  BY <1>8 DEF R!NoStaticRef, R!EntryDone
<1>9. CASE R!FillStaticRef
  BY <1>9 DEF R!FillStaticRef
<1> QED
  BY <1>1, <1>2, <1>3, <1>4, <1>5, <1>6, <1>7, <1>8, <1>9 DEF Entries

\* What of the link and of the state an entry leaves alone.
LEMMA EntriesFrame ==
    ASSUME Entries
    PROVE  /\ UNCHANGED <<R!link, R!state, link_rl, obs_imu, obs_joints,
                        key_body_pos_rel>>
           /\ link_control \notin {"receive", "imu", "joints"}
           /\ link_control' \notin {"receive", "imu", "joints"}
<1>1. UNCHANGED <<R!link, R!state>>
  BY DEF Entries, R!StateRuns, R!Exit, R!Enter, R!InitRLThrows,
     R!OnPolicyConfigLoaded, R!LoadFkModel, R!LoadDanceStaticRef,
     R!NoStaticRef, R!FillStaticRef
<1>2. UNCHANGED <<link_rl, obs_imu, obs_joints, key_body_pos_rel>>
  BY DEF Entries, R!StateRuns, R!Exit, R!Enter, R!InitRLThrows,
     R!OnPolicyConfigLoaded, R!LoadFkModel, R!LoadDanceStaticRef,
     R!NoStaticRef, R!FillStaticRef, R!EntryDone, R!pass
<1>3. /\ link_control \notin {"receive", "imu", "joints"}
      /\ link_control' \notin {"receive", "imu", "joints"}
  BY DEF Entries, R!StateRuns, R!Exit, R!Enter, R!InitRLThrows,
     R!OnPolicyConfigLoaded, R!LoadFkModel, R!LoadDanceStaticRef,
     R!NoStaticRef, R!FillStaticRef, R!EntryDone
<1> QED
  BY <1>1, <1>2, <1>3

\* An entry is under way while the policy is disabled, and the pass that was
\* begun before it ends is not one of the new entry.
LEMMA EntriesReference ==
    ASSUME ReferenceInv, PassInv, Entries
    PROVE  (ReferenceInv /\ PassInv)'
<1> USE DEF ReferenceInv, PassInv
<1>1. CASE R!StateRuns
  BY <1>1 DEF R!StateRuns, BestBodies, R!entry, R!reference, R!pass
<1>2. CASE R!Exit
  BY <1>2 DEF R!Exit, R!reference
<1>3. ASSUME NEW c \in LinkPolicies, R!Enter(c) PROVE (ReferenceInv /\ PassInv)'
  BY <1>3 DEF R!Enter, R!reference
<1>4. CASE R!InitRLThrows
  BY <1>4 DEF R!InitRLThrows, R!entry, R!reference
<1>5. CASE R!OnPolicyConfigLoaded
  <2>1. CASE R!ToLoad
    BY <1>5, <2>1 DEF R!OnPolicyConfigLoaded, R!entry
  <2>2. CASE ~R!ToLoad
    BY <1>5, <2>2 DEF R!OnPolicyConfigLoaded, R!EntryDone
  <2> QED
    BY <2>1, <2>2
<1>6. ASSUME NEW ok \in BOOLEAN, R!LoadFkModel(ok)
      PROVE  (ReferenceInv /\ PassInv)'
  BY <1>6 DEF R!LoadFkModel, R!entry
<1>7. ASSUME NEW ok \in BOOLEAN, R!LoadDanceStaticRef(ok)
      PROVE  (ReferenceInv /\ PassInv)'
  BY <1>7 DEF R!LoadDanceStaticRef, R!EntryDone
<1>8. CASE R!NoStaticRef
  BY <1>8 DEF R!NoStaticRef, R!EntryDone
<1>9. CASE R!FillStaticRef
  BY <1>9 DEF R!FillStaticRef, R!entry
<1> QED
  BY <1>1, <1>2, <1>3, <1>4, <1>5, <1>6, <1>7, <1>8, <1>9 DEF Entries

\* A pass reads what is there when it comes to it.
LEMMA PassTypes ==
    ASSUME R!LinkAssumption, LinkTypes, Pass
    PROVE  LinkTypes'
<1> USE DEF LinkTypes, R!link, R!state, R!entry, R!reference
<1>1. CASE R!RunModel
  BY <1>1 DEF R!RunModel
<1>2. CASE R!ReadJoints
  BY <1>2 DEF R!ReadJoints
<1>3. CASE R!ComputeKeyBodyPosFK
  BY <1>3 DEF R!ComputeKeyBodyPosFK
<1>4. CASE R!FkComputed
  BY <1>4 DEF R!FkComputed
<1>5. CASE R!FallBack
  <2>1. key_body_pos_rel' \in {"zeros", dance_key_body_ref}
    BY <1>5 DEF R!FallBack, R!StaticBodies
  <2> QED
    BY <1>5, <2>1 DEF R!FallBack
<1>6. CASE R!Forward
  <2>1. <<0, 0>> \in Message \X Message /\ 0 \in Message
    BY DEF R!LinkAssumption, Message
  <2> QED
    BY <1>6, <2>1 DEF R!Forward
<1> QED
  BY <1>1, <1>2, <1>3, <1>4, <1>5, <1>6 DEF Pass

LEMMA PassNext ==
    ASSUME LinkTypes, SocketInv, PeriodInv, AgeInv, ReferenceInv, PassInv, Pass
    PROVE  (SocketInv /\ PeriodInv /\ AgeInv /\ ReferenceInv /\ PassInv)'
<1>1. UNCHANGED <<R!link, R!state, link_control, R!entry, R!reference>>
  BY DEF Pass, R!RunModel, R!ReadJoints, R!ComputeKeyBodyPosFK, R!FkComputed,
     R!FallBack, R!Forward
<1>2. (SocketInv /\ PeriodInv /\ ReferenceInv)'
  BY <1>1 DEF SocketInv, PeriodInv, ReferenceInv, R!link, R!state, R!entry,
     R!reference
<1>3. AgeInv'
  <2>1. CASE R!RunModel \/ R!Forward
    BY <1>1, <2>1 DEF R!RunModel, R!Forward, AgeInv, R!state
  <2>2. CASE R!ReadJoints
    BY <1>1, <2>2 DEF R!ReadJoints, AgeInv, R!state
  <2>3. CASE R!ComputeKeyBodyPosFK \/ R!FkComputed \/ R!FallBack
    BY <1>1, <2>3 DEF R!ComputeKeyBodyPosFK, R!FkComputed, R!FallBack, AgeInv,
       R!state
  <2> QED
    BY <2>1, <2>2, <2>3 DEF Pass
<1>4. PassInv'
  <2> USE DEF PassInv, BestBodies
  <2>1. CASE R!RunModel \/ R!ReadJoints \/ R!Forward
    BY <2>1 DEF R!RunModel, R!ReadJoints, R!Forward
  <2>2. CASE R!ComputeKeyBodyPosFK
    BY <2>2 DEF R!ComputeKeyBodyPosFK, R!UseFk, R!entry, R!reference
  <2>3. CASE R!FkComputed
    BY <2>3 DEF R!FkComputed, R!entry, R!reference
  <2>4. CASE R!FallBack
    <3>1. /\ link_rl' = "forward" /\ ~R!UseFk
          /\ key_body_pos_rel' = IF link_config_name = "whole_body_tracking"
                                 THEN R!StaticBodies ELSE "zeros"
      BY <2>4 DEF R!FallBack
    <3>2. ASSUME link_rl_init_done, link_config_name = "whole_body_tracking"
          PROVE  ~fk /\ R!StaticBodies = BestBodies
      <4>1. ~fk
        BY <3>1, <3>2 DEF R!UseFk, ReferenceInv
      <4>2. dance_static_ref_loaded => dance_key_body_ref = "all"
        BY <3>2 DEF ReferenceInv
      <4> QED
        BY <4>1, <4>2 DEF R!StaticBodies
    <3> QED
      BY <1>1, <3>1, <3>2 DEF R!entry, R!reference
  <2> QED
    BY <2>1, <2>2, <2>3, <2>4 DEF Pass
<1> QED
  BY <1>2, <1>3, <1>4

LEMMA LinkInvInit ==
    ASSUME R!LinkAssumption, R!Init
    PROVE  LinkInv
<1>1. /\ zmq = "none" /\ zmq_sub = <<>> /\ arrived = 0 /\ newest = 0 /\ due = 0
      /\ state_msg = 0 /\ state_before = 0 /\ imu = <<0, 0>> /\ joints = 0
      /\ link_control = "receive" /\ obs_imu = <<0, 0>> /\ obs_joints = 0
  BY DEF R!Init
<1>2. /\ link_config_name = "robot_lab_real"
      /\ last_loaded_config_name = "none"
      /\ link_rl_init_done = FALSE /\ fk = FALSE
      /\ dance_online_fk_enabled = FALSE
      /\ dance_key_body_ref = "none" /\ dance_static_ref_loaded = FALSE
      /\ link_rl = "idle" /\ own = TRUE /\ key_body_pos_rel = "zeros"
  BY DEF R!Init
<1>3. 0 \in Message /\ <<0, 0>> \in Message \X Message
  BY DEF R!LinkAssumption, Message
<1>4. LinkTypes
  <2>1. "robot_lab_real" \in LinkPolicies
    BY DEF R!LinkAssumption
  <2> QED
    BY <1>1, <1>2, <1>3, <2>1, Zenon DEF LinkTypes
<1>5. SocketInv /\ PeriodInv /\ AgeInv
  BY <1>1, <1>2 DEF SocketInv, PeriodInv, AgeInv
<1>6. ReferenceInv /\ PassInv
  BY <1>1, <1>2 DEF ReferenceInv, PassInv
<1> QED
  BY <1>4, <1>5, <1>6 DEF LinkInv

LEMMA LinkInvNext ==
    ASSUME R!LinkAssumption, LinkInv, [R!Next]_(R!vars)
    PROVE  LinkInv'
<1> USE DEF LinkInv
<1>1. CASE Messages
  BY <1>1, MessagesTypes, MessagesNext, MessagesReference
<1>2. CASE Entries
  <2>1. (SocketInv /\ PeriodInv /\ AgeInv)'
    BY <1>2, EntriesFrame DEF SocketInv, PeriodInv, AgeInv, R!link, R!state
  <2> QED
    BY <1>2, <2>1, EntriesTypes, EntriesReference
<1>3. CASE Pass
  BY <1>3, PassTypes, PassNext
<1>4. CASE UNCHANGED R!vars
  BY <1>4 DEF R!vars, R!link, R!state, R!entry, R!reference, R!pass,
     LinkTypes, SocketInv, PeriodInv, AgeInv, ReferenceInv, PassInv,
     BestBodies
<1> QED
  BY <1>1, <1>2, <1>3, <1>4, NextCases

LEMMA LinkSteps == Spec => R!Spec
<1>1. Init => R!Init
  BY DEF Init
<1>2. [Next]_vars => [R!Next]_(R!vars)
  <2>1. UNCHANGED link_vars => UNCHANGED R!vars
    BY DEF link_vars, R!vars, R!link, R!state, R!entry, R!reference, R!pass
  <2>2. UNCHANGED vars => UNCHANGED link_vars
    BY DEF vars
  <2> QED
    BY <2>1, <2>2, OthersStay DEF Next
<1> QED
  BY <1>1, <1>2, PTL DEF Spec, R!Spec

\* Commands are computed from the newest message that had arrived when their
\* period began; an observation pairs the attitude with joints that are at most
\* one message older; and a pass of the dance observes the best key bodies that
\* its entry found: however many messages come, are cut short or are replaced,
\* and wherever the two threads are when they do.
THEOREM RealLinkSafeHolds == Spec => []RealLinkSafe
<1>1. R!LinkAssumption
  BY LinkAssumption
<1>2. R!Init => LinkInv
  BY <1>1, LinkInvInit
<1>3. LinkInv /\ [R!Next]_(R!vars) => LinkInv'
  BY <1>1, LinkInvNext
<1>4. LinkInv => RealLinkSafe
  <2> SUFFICES ASSUME LinkInv PROVE R!RealLinkSafe
    BY DEF RealLinkSafe
  <2> USE <1>1 DEF LinkInv
  <2>1. Len(zmq_sub) <= MaxMessages
    <3>1. CASE zmq_sub = <<>>
      BY <3>1 DEF R!LinkAssumption
    <3>2. CASE zmq_sub # <<>>
      <4>1. Len(zmq_sub) = 1 /\ arrived # 0
        BY <3>2 DEF SocketInv
      <4>2. arrived \in 0 .. MaxMessages
        BY DEF LinkTypes, Message
      <4> QED
        BY <4>1, <4>2 DEF R!LinkAssumption
    <3> QED
      BY <3>1, <3>2
  <2>2. R!TypeOK
    BY <2>1 DEF LinkTypes, Message, R!TypeOK
  <2>3. R!StateIsNewest
    BY DEF PeriodInv, R!StateIsNewest
  <2>4. R!JointsOneBehind
    <3>1. obs_imu[2] \in Nat /\ obs_joints \in Nat
      BY DEF LinkTypes, Message, R!LinkAssumption
    <3> QED
      BY <3>1 DEF AgeInv, R!JointsOneBehind
  <2>5. R!KeyBodiesBest
    BY DEF PassInv, BestBodies, R!KeyBodiesBest
  <2> QED
    BY <2>2, <2>3, <2>4, <2>5 DEF R!RealLinkSafe
<1> QED
  BY <1>2, <1>3, <1>4, LinkSteps, PTL DEF Spec, R!Spec
-----------------------------------------------------------------------------
(* The simulation in Gazebo, for any number of requests in flight.         *)

\* What is set to true or false.
GazeboFlags ==
    {configured, gazebo_simulation_running, gazebo_rl_init_done, paused, lost,
     gazebo_overlapped} \subseteq BOOLEAN

\* Whether the physics is, or will be once the request in flight is carried
\* out, paused.
Asked ==
    IF gazebo_control = "flip" THEN gazebo_simulation_running
    ELSE ~gazebo_simulation_running

\* As long as no request was lost and no two were in flight together, there is
\* at most one in flight, and it asks for what the program believes; ROS 1
\* leaves none in flight.
RequestInv ==
    /\ ros = "ros1" => \A s \in Z!Services : requests[s] = 0
    /\ ~lost /\ ~gazebo_overlapped =>
          /\ (\A s \in Z!Services : requests[s] = 0) => paused = Asked
          /\ \A s \in Z!Services : requests[s] # 0 =>
                /\ requests[s] = 1 /\ (s = "pause") = Asked
                /\ \A t \in Z!Services \ {s} : requests[t] = 0

\* The process that loads the controller runs, or has run, when it is waited for.
SpawnerInv ==
    /\ start \in {"parameters", "controller"} => spawner = "none"
    /\ start = "spawn" => spawner # "none"
    /\ start = "loops" /\ ros = "ros2" => spawner \in {"done", "killed"}

\* A pass under way when the simulation stops is counted when it ends.
LateInv ==
    ~gazebo_simulation_running => late = 0 \/ (late = 1 /\ gazebo_rl = "idle")

GazeboInv == Z!TypeOK /\ RequestInv /\ SpawnerInv /\ LateInv

LEMMA GazeboInit ==
    ASSUME Z!GazeboAssumption, Z!Init
    PROVE  GazeboInv
<1>1. /\ ros \in Ros /\ start = "parameters" /\ spawner = "none"
      /\ gazebo_current_keyboard = "None" /\ gazebo_last_keyboard = "None"
      /\ gazebo_current_gamepad = "None" /\ gazebo_control = "reset"
      /\ gazebo_rl = "idle" /\ late = 0
  BY DEF Z!Init
<1>2. /\ configured = FALSE /\ gazebo_simulation_running = TRUE
      /\ gazebo_rl_init_done = FALSE /\ paused = FALSE /\ lost = FALSE
      /\ gazebo_overlapped = FALSE
  BY DEF Z!Init
<1>3. requests = [s \in Z!Services |-> 0]
  BY DEF Z!Init
<1>4. /\ requests \in [Z!Services -> 0 .. MaxRequests]
      /\ \A s \in Z!Services : requests[s] = 0
  BY <1>3 DEF Z!GazeboAssumption
<1>5. 0 \in 0 .. 2
  OBVIOUS
<1>6. Z!TypeOK
  BY <1>1, <1>2, <1>4, <1>5, Zenon DEF Z!TypeOK
<1>7. RequestInv /\ SpawnerInv /\ LateInv
  BY <1>1, <1>2, <1>4 DEF RequestInv, Asked, SpawnerInv, LateInv
<1> QED
  BY <1>6, <1>7 DEF GazeboInv

\* Every step of Gazebo keeps what it does not name.
LEMMA GazeboFlagsNext ==
    ASSUME Z!TypeOK, Z!Next
    PROVE  GazeboFlags'
<1>1. Z!TypeOK => GazeboFlags
  BY Zenon DEF Z!TypeOK, GazeboFlags
<1>2. configured' \in BOOLEAN
  BY <1>1, Zenon
     DEF GazeboFlags, Z!Next, Z!starting, Z!policy, Z!physics, Z!Goes,
     Z!GetParameters, Z!StartJointController, Z!EndSpawner,
     Z!WaitForSpawner, Z!SetKeyboard, Z!SetGamepad, Z!Reset, Z!NoToggle,
     Z!Toggle, Z!Flip, Z!ClearInput, Z!SwitchPolicy, Z!BeginPass,
     Z!EndPass, Z!Serve
<1>3. gazebo_simulation_running' \in BOOLEAN
  BY <1>1, Zenon
     DEF GazeboFlags, Z!Next, Z!starting, Z!policy, Z!physics, Z!Goes,
     Z!GetParameters, Z!StartJointController, Z!EndSpawner,
     Z!WaitForSpawner, Z!SetKeyboard, Z!SetGamepad, Z!Reset, Z!NoToggle,
     Z!Toggle, Z!Flip, Z!ClearInput, Z!SwitchPolicy, Z!BeginPass,
     Z!EndPass, Z!Serve
<1>4. gazebo_rl_init_done' \in BOOLEAN
  BY <1>1, Zenon
     DEF GazeboFlags, Z!Next, Z!starting, Z!policy, Z!physics, Z!Goes,
     Z!GetParameters, Z!StartJointController, Z!EndSpawner,
     Z!WaitForSpawner, Z!SetKeyboard, Z!SetGamepad, Z!Reset, Z!NoToggle,
     Z!Toggle, Z!Flip, Z!ClearInput, Z!SwitchPolicy, Z!BeginPass,
     Z!EndPass, Z!Serve
<1>5. paused' \in BOOLEAN
  BY <1>1, Zenon
     DEF GazeboFlags, Z!Next, Z!starting, Z!policy, Z!physics, Z!Goes,
     Z!GetParameters, Z!StartJointController, Z!EndSpawner,
     Z!WaitForSpawner, Z!SetKeyboard, Z!SetGamepad, Z!Reset, Z!NoToggle,
     Z!Toggle, Z!Flip, Z!ClearInput, Z!SwitchPolicy, Z!BeginPass,
     Z!EndPass, Z!Serve
<1>6. lost' \in BOOLEAN
  BY <1>1, Zenon
     DEF GazeboFlags, Z!Next, Z!starting, Z!policy, Z!physics, Z!Goes,
     Z!GetParameters, Z!StartJointController, Z!EndSpawner,
     Z!WaitForSpawner, Z!SetKeyboard, Z!SetGamepad, Z!Reset, Z!NoToggle,
     Z!Toggle, Z!Flip, Z!ClearInput, Z!SwitchPolicy, Z!BeginPass,
     Z!EndPass, Z!Serve
<1>7. gazebo_overlapped' \in BOOLEAN
  BY <1>1, Zenon
     DEF GazeboFlags, Z!Next, Z!starting, Z!policy, Z!physics, Z!Goes,
     Z!GetParameters, Z!StartJointController, Z!EndSpawner,
     Z!WaitForSpawner, Z!SetKeyboard, Z!SetGamepad, Z!Reset, Z!NoToggle,
     Z!Toggle, Z!Flip, Z!ClearInput, Z!SwitchPolicy, Z!BeginPass,
     Z!EndPass, Z!Serve
<1> QED
  BY <1>2, <1>3, <1>4, <1>5, <1>6, <1>7 DEF GazeboFlags

LEMMA GazeboTypesNext ==
    ASSUME Z!GazeboAssumption, Z!TypeOK, Z!Next
    PROVE  Z!TypeOK'
<1>1. /\ ros' = ros
      /\ start' \in {"parameters", "controller", "spawn", "loops", "end"}
      /\ spawner' \in {"none", "running", "done", "failed", "killed"}
  BY DEF Z!TypeOK, Z!Next, Z!starting, Z!GetParameters,
     Z!StartJointController, Z!EndSpawner, Z!WaitForSpawner, Z!SetKeyboard,
     Z!SetGamepad, Z!Reset, Z!NoToggle, Z!Toggle, Z!Flip, Z!ClearInput,
     Z!SwitchPolicy, Z!BeginPass, Z!EndPass, Z!Serve
<1>2. /\ {gazebo_current_keyboard, gazebo_last_keyboard}'
            \subseteq {"None", "R", "Enter"}
      /\ gazebo_current_gamepad' \in {"None", "RB_Y", "RB_X"}
  BY DEF Z!TypeOK, Z!Next, Z!input, Z!GetParameters,
     Z!StartJointController, Z!EndSpawner, Z!WaitForSpawner, Z!SetKeyboard,
     Z!SetGamepad, Z!Reset, Z!NoToggle, Z!Toggle, Z!Flip, Z!ClearInput,
     Z!SwitchPolicy, Z!BeginPass, Z!EndPass, Z!Serve
<1>3. /\ gazebo_control' \in {"reset", "toggle", "flip", "clear"}
      /\ gazebo_rl' \in {"idle", "pass"} /\ late' \in 0 .. 2
  BY DEF Z!TypeOK, Z!Next, Z!policy, Z!Goes, Z!GetParameters,
     Z!StartJointController, Z!EndSpawner, Z!WaitForSpawner, Z!SetKeyboard,
     Z!SetGamepad, Z!Reset, Z!NoToggle, Z!Toggle, Z!Flip, Z!ClearInput,
     Z!SwitchPolicy, Z!BeginPass, Z!EndPass, Z!Serve
<1>4. requests' \in [Z!Services -> 0 .. MaxRequests]
  <2> USE DEF Z!TypeOK, Z!GazeboAssumption
  <2>1. CASE Z!Toggle
    BY <2>1 DEF Z!Toggle, Z!Service, Z!Services
  <2>2. ASSUME NEW s \in Z!Services, Z!Serve(s)
        PROVE  requests' \in [Z!Services -> 0 .. MaxRequests]
    BY <2>2 DEF Z!Serve
  <2>3. Z!Toggle \/ (\E s \in Z!Services : Z!Serve(s)) \/ UNCHANGED requests
    BY DEF Z!Next, Z!physics, Z!GetParameters,
       Z!StartJointController, Z!EndSpawner, Z!WaitForSpawner, Z!SetKeyboard,
       Z!SetGamepad, Z!Reset, Z!NoToggle, Z!Flip, Z!ClearInput,
       Z!SwitchPolicy, Z!BeginPass, Z!EndPass
  <2> QED
    BY <2>1, <2>2, <2>3
<1>5. GazeboFlags'
  BY GazeboFlagsNext
<1> QED
  BY <1>1, <1>2, <1>3, <1>4, <1>5, Zenon DEF Z!TypeOK, GazeboFlags

\* What the services and the control thread do to what is asked for.
LEMMA RequestsNext ==
    ASSUME Z!GazeboAssumption, GazeboInv, Z!Next
    PROVE  RequestInv'
<1>1. /\ requests \in [Z!Services -> Nat]
      /\ Z!Services = {"pause", "unpause"}
      /\ {lost, gazebo_overlapped, gazebo_simulation_running, paused}
           \subseteq BOOLEAN
  BY DEF GazeboInv, Z!TypeOK, Z!GazeboAssumption, Z!Services
<1>2. CASE Z!Toggle
  <2>1. /\ gazebo_control' = "flip" /\ gazebo_control # "flip"
        /\ UNCHANGED <<ros, gazebo_simulation_running>>
        /\ Z!Service = "pause" <=> gazebo_simulation_running
        /\ Z!Service \in Z!Services
    BY <1>2 DEF Z!Toggle, Z!Goes, Z!Service, Z!Services
  <2>2. CASE lost' = TRUE /\ UNCHANGED requests
    BY <2>1, <2>2 DEF GazeboInv, RequestInv
  <2>3. CASE /\ ros = "ros1" /\ paused' = (Z!Service = "pause")
             /\ UNCHANGED <<requests, lost, gazebo_overlapped>>
    <3>1. (\A s \in Z!Services : requests'[s] = 0)
      BY <2>3 DEF GazeboInv, RequestInv
    <3>2. paused' = Asked'
      BY <1>1, <2>1, <2>3 DEF Asked
    <3> QED
      BY <3>1, <3>2 DEF RequestInv
  <2>4. CASE /\ ros = "ros2"
             /\ requests' = [requests EXCEPT ![Z!Service] = @ + 1]
             /\ gazebo_overlapped' =
                  (gazebo_overlapped \/ \E s \in Z!Services : requests[s] > 0)
             /\ UNCHANGED <<paused, lost>>
    <3>1. ASSUME ~gazebo_overlapped'
          PROVE  \A s \in Z!Services : requests[s] = 0
      <4>1. ~\E s \in Z!Services : requests[s] > 0
        BY <2>4, <3>1, Zenon
      <4> QED
        BY <1>1, <4>1
    <3>2. /\ requests'[Z!Service] = requests[Z!Service] + 1
          /\ \A t \in Z!Services \ {Z!Service} : requests'[t] = requests[t]
      BY <1>1, <2>1, <2>4
    <3>3. ("pause" = Z!Service) = Asked'
      BY <1>1, <2>1 DEF Asked
    <3>4. ros' # "ros1"
      BY <2>1, <2>4
    <3>5. ASSUME ~gazebo_overlapped', NEW s \in Z!Services, requests'[s] # 0
          PROVE  /\ requests'[s] = 1 /\ (s = "pause") = Asked'
                 /\ \A t \in Z!Services \ {s} : requests'[t] = 0
      <4>1. s = Z!Service
        BY <3>1, <3>2, <3>5
      <4> QED
        BY <3>1, <3>2, <3>3, <3>5, <4>1
    <3>6. requests'[Z!Service] # 0
      BY <1>1, <2>1, <3>2
    <3> QED
      BY <2>1, <3>4, <3>5, <3>6, Zenon DEF RequestInv
  <2> QED
    BY <1>2, <2>2, <2>3, <2>4 DEF Z!Toggle
<1>3. CASE Z!Flip
  <2>1. /\ gazebo_control = "flip" /\ gazebo_control' = "clear"
        /\ gazebo_simulation_running' = ~gazebo_simulation_running
        /\ UNCHANGED <<ros, requests, paused, lost, gazebo_overlapped>>
    BY <1>3 DEF Z!Flip, Z!Goes, Z!physics
  <2>2. Asked' = Asked
    BY <1>1, <2>1 DEF Asked
  <2> QED
    BY <2>1, <2>2 DEF GazeboInv, RequestInv
<1>4. ASSUME NEW s \in Z!Services, Z!Serve(s)
      PROVE  RequestInv'
  <2>1. /\ requests[s] > 0 /\ requests' = [requests EXCEPT ![s] = @ - 1]
        /\ paused' = (s = "pause")
        /\ UNCHANGED <<ros, gazebo_control, gazebo_simulation_running, lost,
                       gazebo_overlapped>>
    BY <1>4 DEF Z!Serve
  <2>2. Asked' = Asked
    BY <2>1 DEF Asked
  <2>3. ros # "ros1"
    BY <1>1, <1>4, <2>1 DEF GazeboInv, RequestInv
  <2>4. ASSUME ~lost, ~gazebo_overlapped
        PROVE  /\ \A t \in Z!Services : requests'[t] = 0
               /\ (s = "pause") = Asked
    <3>1. /\ requests[s] = 1 /\ (s = "pause") = Asked
          /\ \A t \in Z!Services \ {s} : requests[t] = 0
      BY <1>1, <1>4, <2>1, <2>4 DEF GazeboInv, RequestInv
    <3> QED
      BY <1>1, <1>4, <2>1, <3>1
  <2> QED
    BY <2>1, <2>2, <2>3, <2>4 DEF RequestInv
<1>5. CASE /\ ~Z!Toggle /\ ~Z!Flip
           /\ \A s \in Z!Services : ~Z!Serve(s)
  <2>1. /\ UNCHANGED <<ros, requests, paused, lost, gazebo_overlapped,
                       gazebo_simulation_running>>
        /\ gazebo_control' = "flip" <=> gazebo_control = "flip"
    BY <1>5
       DEF GazeboInv, Z!TypeOK, Z!Next, Z!physics, Z!starting,
       Z!GetParameters, Z!StartJointController, Z!EndSpawner,
       Z!WaitForSpawner, Z!SetKeyboard, Z!SetGamepad, Z!Reset, Z!NoToggle,
       Z!ClearInput, Z!Goes,
       Z!SwitchPolicy, Z!BeginPass, Z!EndPass
  <2>2. Asked' = Asked
    BY <2>1 DEF Asked
  <2> QED
    BY <2>1, <2>2 DEF GazeboInv, RequestInv
<1> QED
  BY <1>2, <1>3, <1>4, <1>5

LEMMA GazeboNext ==
    ASSUME Z!GazeboAssumption, GazeboInv, [Z!Next]_(Z!vars)
    PROVE  GazeboInv'
<1>1. CASE Z!Next
  <2>1. Z!TypeOK' /\ RequestInv'
    BY <1>1, GazeboTypesNext, RequestsNext DEF GazeboInv
  <2>2. SpawnerInv'
    BY <1>1
       DEF GazeboInv, SpawnerInv, Z!TypeOK, Z!Next, Z!starting,
       Z!GetParameters, Z!StartJointController, Z!EndSpawner,
       Z!WaitForSpawner, Z!SetKeyboard, Z!SetGamepad, Z!Reset, Z!NoToggle,
       Z!Toggle, Z!Flip, Z!ClearInput, Z!SwitchPolicy, Z!BeginPass, Z!EndPass,
       Z!Serve
  <2>3. LateInv'
    BY <1>1
       DEF GazeboInv, LateInv, Z!TypeOK, Z!Next, Z!policy, Z!GetParameters,
       Z!StartJointController, Z!EndSpawner, Z!WaitForSpawner, Z!SetKeyboard,
       Z!SetGamepad, Z!Reset, Z!NoToggle, Z!Toggle, Z!Flip, Z!ClearInput,
       Z!SwitchPolicy, Z!BeginPass, Z!EndPass, Z!Serve
  <2> QED
    BY <2>1, <2>2, <2>3 DEF GazeboInv
<1>2. CASE UNCHANGED Z!vars
  BY <1>2 DEF Z!vars, Z!starting, Z!input, Z!policy, Z!physics, GazeboInv,
     Z!TypeOK, RequestInv, Asked, SpawnerInv, LateInv
<1> QED
  BY <1>1, <1>2

LEMMA GazeboSteps == Spec => Z!Spec
<1>1. Init => Z!Init
  BY DEF Init
<1>2. [Next]_vars => [Z!Next]_(Z!vars)
  <2>1. UNCHANGED gazebo_vars => UNCHANGED Z!vars
    BY DEF gazebo_vars, Z!vars, Z!starting, Z!input, Z!policy, Z!physics
  <2>2. UNCHANGED vars => UNCHANGED gazebo_vars
    BY DEF vars
  <2> QED
    BY <2>1, <2>2, OthersStay DEF Next
<1> QED
  BY <1>1, <1>2, PTL DEF Spec, Z!Spec

\* The physics of Gazebo is paused when the program believes that the simulation
\* stopped, once no request is in flight, unless one was lost or two were in
\* flight together; the loops of the program for ROS 2 start with a controller
\* that was loaded; and at most one pass of the policy ends after the simulation
\* stopped: for every number of requests that may be in flight.
THEOREM GazeboSafeHolds == Spec => []GazeboSafe
<1>1. Z!GazeboAssumption
  BY GazeboAssumption
<1>2. Z!Init => GazeboInv
  BY <1>1, GazeboInit
<1>3. GazeboInv /\ [Z!Next]_(Z!vars) => GazeboInv'
  BY <1>1, GazeboNext
<1>4. GazeboInv => GazeboSafe
  <2> SUFFICES ASSUME GazeboInv PROVE Z!GazeboSafe
    BY DEF GazeboSafe
  <2>1. Z!PauseAgrees
    BY DEF GazeboInv, RequestInv, Asked, Z!PauseAgrees
  <2>2. Z!ControllerStarted
    BY DEF GazeboInv, SpawnerInv, Z!ControllerStarted
  <2>3. Z!AtMostOneLatePass
    BY DEF GazeboInv, LateInv, Z!AtMostOneLatePass
  <2> QED
    BY <2>1, <2>2, <2>3 DEF GazeboInv, Z!GazeboSafe
<1> QED
  BY <1>2, <1>3, <1>4, GazeboSteps, PTL DEF Spec, Z!Spec
-----------------------------------------------------------------------------
(* The reference motion of the mjlab policy, for every number of its       *)
(* frames and of models that are loaded.                                   *)

\* A pass that has the model lock keeps InitRL out.
MotionLockInv == mjlab_control = "load" => ~B!Locked

\* The table is that of mjlab's model, if this is the one that is loaded.
TableInv ==
    mjlab_model.config = "mjlab" =>
        table = IF mjlab_num_frames = 0 THEN <<>>
                ELSE [t \in 1 .. B!N |-> <<mjlab_model.load, t - 1>>]

\* What is observed of a frame is of the model, ...
OfModel(f) ==
    IF mjlab_num_frames = 0 THEN f = B!Zeros
    ELSE f \in {mjlab_model.load} \X (0 .. B!N - 1)

ObservedInv ==
    mjlab_params = "mjlab" /\ mjlab_model.config = "mjlab" =>
        /\ mjlab_rl \in {"anchor", "forward"} => OfModel(command)
        /\ mjlab_rl = "forward" => OfModel(anchor)

\* ... and of one frame, unless Enter waits for the lock since.
SameFrameInv ==
    mjlab_control # "lock" =>
        /\ mjlab_rl = "anchor" => command = B!Frame
        /\ mjlab_rl = "forward" => anchor = command

MotionInv ==
    /\ B!TypeOK /\ MotionLockInv /\ TableInv /\ ObservedInv /\ SameFrameInv

LEMMA MotionInit ==
    ASSUME B!MjlabMotionAssumption, B!Init
    PROVE  MotionInv
<1>1. /\ mjlab_control = "none" /\ mjlab_config_name = "robot_lab_real"
      /\ mjlab_rl_init_done = FALSE /\ mjlab_params = "robot_lab_real"
      /\ loads = 0 /\ table = <<>> /\ mjlab_num_frames = 0
      /\ mjlab_episode_length_buf = 0 /\ mjlab_rl = "idle" /\ count = 0
  BY DEF B!Init
<1>2. mjlab_model = [config |-> "robot_lab_real", load |-> 0]
  BY DEF B!Init
<1>3. B!N \in Nat \ {0} /\ MaxTableLoads \in Nat \ {0}
  BY DEF B!MjlabMotionAssumption, B!N
<1>4. 0 \in 0 .. MaxTableLoads /\ 0 \in 0 .. B!N + 1
  BY <1>3
<1>5. /\ Len(table) = mjlab_num_frames
      /\ mjlab_model \in [config : B!Configs, load : 0 .. MaxTableLoads]
      /\ {mjlab_config_name, mjlab_params} \subseteq B!Configs
  BY <1>1, <1>2, <1>4 DEF B!Configs
<1>6. B!TypeOK
  BY <1>1, <1>4, <1>5, Zenon DEF B!TypeOK
<1> QED
  BY <1>1, <1>2, <1>6
     DEF MotionInv, MotionLockInv, B!Locked, TableInv, ObservedInv,
     SameFrameInv

\* The frame of a count is one of the motion.
LEMMA FrameIsOfModel ==
    ASSUME B!MjlabMotionAssumption, B!TypeOK, TableInv,
           mjlab_params = "mjlab", mjlab_model.config = "mjlab"
    PROVE  OfModel(B!Frame)
<1>1. B!N \in Nat \ {0} /\ mjlab_num_frames \in {0, B!N}
  BY DEF B!MjlabMotionAssumption, B!N, B!TypeOK
<1>2. mjlab_episode_length_buf \in Nat
  BY <1>1 DEF B!TypeOK
<1>3. CASE mjlab_num_frames = 0
  BY <1>3 DEF OfModel, B!Frame
<1>4. CASE mjlab_num_frames = B!N
  <2>1. B!Phase \in 0 .. B!N - 1
    BY <1>1, <1>2, <1>4 DEF B!Phase
  <2>2. table = [t \in 1 .. B!N |-> <<mjlab_model.load, t - 1>>]
    BY <1>1, <1>4 DEF TableInv
  <2>3. B!Phase + 1 \in 1 .. B!N /\ (B!Phase + 1) - 1 = B!Phase
    BY <1>1, <2>1
  <2>4. table[B!Phase + 1] = <<mjlab_model.load, B!Phase>>
    BY <2>2, <2>3
  <2>5. table # <<>>
    BY <1>1, <1>4 DEF B!TypeOK
  <2>6. B!Frame = <<mjlab_model.load, B!Phase>>
    BY <1>1, <1>4, <2>4, <2>5 DEF B!Frame
  <2> QED
    BY <1>1, <1>4, <2>1, <2>6 DEF OfModel
<1> QED
  BY <1>1, <1>3, <1>4

\* InitRL, which has the lock.
LEMMA MotionLoad ==
    ASSUME B!MjlabMotionAssumption, MotionInv,
           B!InitRLThrows \/ \E extracted \in 0 .. B!N :
                                B!OnPolicyConfigLoaded(extracted)
    PROVE  MotionInv'
<1> USE DEF MotionInv, MotionLockInv, B!Locked
<1>1. /\ mjlab_control = "load" /\ mjlab_control' \in {"none", "entered"}
      /\ mjlab_rl \notin {"command", "anchor", "forward"}
      /\ UNCHANGED <<mjlab_config_name, mjlab_episode_length_buf, mjlab_rl,
                     count, command, anchor>>
  BY DEF B!InitRLThrows, B!OnPolicyConfigLoaded, B!pass
<1>2. MotionLockInv' /\ ObservedInv' /\ SameFrameInv'
  BY <1>1 DEF ObservedInv, SameFrameInv
<1>3. B!N \in Nat \ {0} /\ MaxTableLoads \in Nat \ {0}
  BY DEF B!MjlabMotionAssumption, B!N
<1>4. CASE B!InitRLThrows
  <2>1. /\ mjlab_rl_init_done' = FALSE
        /\ mjlab_params' \in {mjlab_params, mjlab_config_name}
        /\ UNCHANGED mjlab_model \/ mjlab_model' = B!NoModel
        /\ UNCHANGED <<loads, table, mjlab_num_frames>>
    BY <1>4 DEF B!InitRLThrows
  <2>2. B!TypeOK'
    BY <1>1, <2>1, Zenon DEF B!TypeOK
  <2>3. TableInv'
    BY <2>1 DEF TableInv, B!NoModel
  <2> QED
    BY <1>2, <2>2, <2>3
<1>5. ASSUME NEW extracted \in 0 .. B!N, B!OnPolicyConfigLoaded(extracted)
      PROVE  MotionInv'
  <2>1. /\ loads < MaxTableLoads /\ loads' = loads + 1
        /\ mjlab_params' = mjlab_config_name
        /\ mjlab_model' = [config |-> mjlab_config_name, load |-> loads + 1]
        /\ UNCHANGED mjlab_rl_init_done
    BY <1>5 DEF B!OnPolicyConfigLoaded
  <2>2. /\ mjlab_config_name \in B!Configs /\ loads \in 0 .. MaxTableLoads
        /\ mjlab_rl_init_done \in BOOLEAN
        /\ mjlab_episode_length_buf \in 0 .. B!N + 1 /\ count \in 0 .. B!N + 1
        /\ mjlab_rl \in {"idle", "count", "begun", "command", "anchor",
                         "forward"}
    BY DEF B!TypeOK
  <2>3. loads' \in 0 .. MaxTableLoads
    BY <1>3, <2>1, <2>2
  <2>4. mjlab_model' \in [config : B!Configs, load : 0 .. MaxTableLoads]
    BY <2>1, <2>2, <2>3
  <2>5. /\ mjlab_num_frames' \in {0, B!N} /\ Len(table') = mjlab_num_frames'
        /\ TableInv'
    <3>1. CASE mjlab_config_name = "mjlab" /\ extracted < B!N
      BY <1>3, <1>5, <2>1, <3>1
         DEF B!OnPolicyConfigLoaded, B!BuildMjlabMotionTable, B!Extract,
         TableInv
    <3>2. CASE mjlab_config_name = "mjlab" /\ ~(extracted < B!N)
      <4>1. /\ table' = [t \in 1 .. B!N |-> <<loads + 1, t - 1>>]
            /\ mjlab_num_frames' = B!N
        BY <1>5, <3>2
           DEF B!OnPolicyConfigLoaded, B!BuildMjlabMotionTable, B!Extract
      <4>2. Len(table') = B!N
        BY <1>3, <4>1
      <4> QED
        BY <1>3, <2>1, <4>1, <4>2 DEF TableInv
    <3>3. CASE mjlab_config_name # "mjlab"
      BY <1>5, <2>1, <3>3 DEF B!OnPolicyConfigLoaded, TableInv, B!TypeOK
    <3> QED
      BY <3>1, <3>2, <3>3
  <2>6. mjlab_control' \in {"none", "lock", "load", "entered"}
    BY <1>1
  <2>7. B!TypeOK'
    BY <1>1, <2>1, <2>2, <2>3, <2>4, <2>5, <2>6, Zenon DEF B!TypeOK
  <2> QED
    BY <1>2, <2>5, <2>7
<1> QED
  BY <1>4, <1>5

\* The other steps leave the model and its table alone.
LEMMA MotionNext ==
    ASSUME B!MjlabMotionAssumption, MotionInv, B!Next,
           ~B!InitRLThrows,
           ~\E extracted \in 0 .. B!N : B!OnPolicyConfigLoaded(extracted)
    PROVE  MotionInv'
<1> USE DEF MotionInv
<1>1. UNCHANGED B!loaded
  BY DEF B!Next, B!Run, B!Exit, B!Enter, B!Lock, B!RunModel, B!CountStep,
     B!BeginForward, B!ObserveCommand, B!ObserveAnchor, B!Forward
<1>2. TableInv'
  BY <1>1 DEF B!loaded, TableInv
<1>3. MotionLockInv'
  BY DEF MotionLockInv, B!Locked, B!Next, B!Run, B!Exit, B!Enter, B!Lock,
     B!RunModel, B!CountStep, B!BeginForward, B!ObserveCommand,
     B!ObserveAnchor, B!Forward, B!episode, B!pass
<1>4. B!TypeOK'
  <2>1. B!N \in Nat
    BY DEF B!MjlabMotionAssumption, B!N
  <2>2. mjlab_rl_init_done' \in BOOLEAN
    BY Zenon
       DEF B!TypeOK, B!Next, B!Run, B!Exit, B!Enter, B!Lock, B!RunModel,
       B!CountStep, B!BeginForward, B!ObserveCommand, B!ObserveAnchor,
       B!Forward, B!episode
  <2>3. /\ mjlab_control' \in {"none", "lock", "load", "entered"}
        /\ mjlab_config_name' \in B!Configs
        /\ mjlab_rl' \in {"idle", "count", "begun", "command", "anchor",
                          "forward"}
    BY DEF B!TypeOK, B!Next, B!Run, B!Exit, B!Enter, B!Lock, B!RunModel,
       B!CountStep, B!BeginForward, B!ObserveCommand, B!ObserveAnchor,
       B!Forward, B!episode, B!pass
  <2>4. /\ mjlab_episode_length_buf' \in 0 .. B!N + 1
        /\ count' \in 0 .. B!N + 1
    BY <2>1
       DEF B!TypeOK, B!Next, B!Run, B!Exit, B!Enter, B!Lock, B!RunModel,
       B!CountStep, B!BeginForward, B!ObserveCommand, B!ObserveAnchor,
       B!Forward, B!pass
  <2>5. /\ mjlab_params' = mjlab_params /\ mjlab_model' = mjlab_model
        /\ loads' = loads /\ table' = table
        /\ mjlab_num_frames' = mjlab_num_frames
    BY <1>1 DEF B!loaded
  <2> QED
    BY <2>2, <2>3, <2>4, <2>5, Zenon DEF B!TypeOK
<1>5. ObservedInv'
  <2>1. OfModel(command)' <=> IF mjlab_num_frames = 0 THEN command' = B!Zeros
                ELSE command' \in {mjlab_model.load} \X (0 .. B!N - 1)
    BY <1>1 DEF B!loaded, OfModel
  <2>2. OfModel(anchor)' <=> IF mjlab_num_frames = 0 THEN anchor' = B!Zeros
                ELSE anchor' \in {mjlab_model.load} \X (0 .. B!N - 1)
    BY <1>1 DEF B!loaded, OfModel
  <2>3. \/ B!ObserveCommand \/ B!ObserveAnchor
        \/ mjlab_rl' \notin {"anchor", "forward"}
        \/ UNCHANGED <<mjlab_rl, command, anchor>>
    BY DEF B!Next, B!Run, B!Exit, B!Enter, B!Lock, B!RunModel, B!CountStep,
       B!BeginForward, B!Forward, B!pass
  <2>4. B!ObserveCommand =>
            mjlab_rl' = "anchor" /\ command' = B!Frame
    BY DEF B!ObserveCommand
  <2>5. B!ObserveAnchor =>
            /\ mjlab_rl = "anchor" /\ mjlab_rl' = "forward"
            /\ anchor' = B!Frame /\ UNCHANGED command
    BY DEF B!ObserveAnchor
  <2>6. UNCHANGED <<mjlab_params, mjlab_model>>
    BY <1>1 DEF B!loaded
  <2> QED
    BY <2>1, <2>2, <2>3, <2>4, <2>5, <2>6, FrameIsOfModel
       DEF ObservedInv, OfModel
<1>6. SameFrameInv'
  <2>1. CASE \E c \in B!Configs : B!Enter(c)
    BY <2>1 DEF B!Enter, SameFrameInv
  <2>2. CASE B!ObserveCommand
    <3>1. /\ mjlab_rl' = "anchor" /\ command' = B!Frame
          /\ UNCHANGED <<mjlab_params, mjlab_num_frames, table,
                         mjlab_episode_length_buf>>
      BY <2>2 DEF B!ObserveCommand, B!loaded
    <3>2. B!Frame' = B!Frame
      BY <3>1 DEF B!Frame, B!Phase
    <3> QED
      BY <3>1, <3>2 DEF SameFrameInv
  <2>3. CASE B!ObserveAnchor
    BY <2>3 DEF B!ObserveAnchor, B!episode, SameFrameInv
  <2>4. CASE /\ ~\E c \in B!Configs : B!Enter(c)
             /\ ~B!ObserveCommand /\ ~B!ObserveAnchor
    <3>1. /\ mjlab_control = "lock" => \/ mjlab_control' = "lock"
                                       \/ mjlab_rl' \notin {"anchor", "forward"}
          /\ \/ mjlab_rl' \notin {"anchor", "forward"}
             \/ UNCHANGED <<mjlab_rl, command, anchor,
                            mjlab_episode_length_buf>>
      BY <2>4
         DEF B!Next, B!Run, B!Exit, B!Lock, B!Locked, B!RunModel, B!CountStep,
         B!BeginForward, B!Forward, B!pass, B!episode
    <3>2. UNCHANGED mjlab_episode_length_buf => B!Frame' = B!Frame
      BY <1>1 DEF B!loaded, B!Frame, B!Phase
    <3> QED
      BY <3>1, <3>2 DEF SameFrameInv
  <2> QED
    BY <2>1, <2>2, <2>3, <2>4
<1> QED
  BY <1>2, <1>3, <1>4, <1>5, <1>6

LEMMA MotionSteps == Spec => B!Spec
<1>1. Init => B!Init
  BY DEF Init
<1>2. [Next]_vars => [B!Next]_(B!vars)
  <2>1. UNCHANGED mjlab_vars => UNCHANGED B!vars
    BY DEF mjlab_vars, B!vars, B!episode, B!loaded, B!pass
  <2>2. UNCHANGED vars => UNCHANGED mjlab_vars
    BY DEF vars
  <2> QED
    BY <2>1, <2>2, OthersStay DEF Next
<1> QED
  BY <1>1, <1>2, PTL DEF Spec, B!Spec

\* What mjlab's network observes of the motion is one frame, of the motion that
\* is baked into that network, or zeros when it could not be extracted; the two
\* terms differ only in a pass that the next Enter waits for: for every length
\* of the motion, wherever InitRL fails and wherever the pass is meanwhile.
THEOREM MjlabMotionSafeHolds == Spec => []MjlabMotionSafe
<1>1. B!MjlabMotionAssumption
  BY MjlabMotionAssumption
<1>2. B!Init => MotionInv
  BY <1>1, MotionInit
<1>3. MotionInv /\ [B!Next]_(B!vars) => MotionInv'
  <2> SUFFICES ASSUME MotionInv, [B!Next]_(B!vars) PROVE MotionInv'
    OBVIOUS
  <2>1. CASE B!Next
    BY <1>1, <2>1, MotionLoad, MotionNext
  <2>2. CASE UNCHANGED B!vars
    BY <2>2
       DEF B!vars, B!episode, B!loaded, B!pass, MotionInv, B!TypeOK,
       MotionLockInv, B!Locked, TableInv, ObservedInv, OfModel, SameFrameInv,
       B!Frame, B!Phase
  <2> QED
    BY <2>1, <2>2
<1>4. MotionInv => MjlabMotionSafe
  BY DEF MotionInv, MjlabMotionSafe, B!MjlabMotionSafe, B!FrameOfModel,
     B!OneFrame, ObservedInv, OfModel, SameFrameInv
<1> QED
  BY <1>2, <1>3, <1>4, MotionSteps, PTL DEF Spec, B!Spec
-----------------------------------------------------------------------------
(* Holding the heading, for every number of steps of a half turn.          *)

\* The remainder of a number of at most one turn.
LEMMA SmallRemainder ==
    ASSUME NEW m \in Nat, m > 0, NEW n \in -m .. m
    PROVE  n % m = IF n < 0 THEN n + m ELSE IF n = m THEN 0 ELSE n
<1>1. \A k \in 0 .. m - 1 : k % m = k
  OBVIOUS
<1>2. \A k \in 0 .. m : (k - m) % m = k % m
  OBVIOUS
<1>3. m % m = 0
  OBVIOUS
<1>4. CASE n < 0
  <2>1. n + m \in 0 .. m - 1 /\ (n + m) - m = n
    BY <1>4
  <2> QED
    BY <1>1, <1>2, <1>4, <2>1
<1> QED
  BY <1>1, <1>3, <1>4

\* A correction of the wrapped difference leads the short way round.
LEMMA WrapIsShort ==
    ASSUME H!HeadingAssumption,
           NEW from \in H!Headings, NEW to \in H!Headings, from # to
    PROVE  LET w == H!WrapToPi(to - from)
           IN  \E step \in {-1, 1} :
                  /\ step * H!Clamp(H!Clamp(w, 2), 3) > 0
                  /\ H!Distance(from + step, to) < H!Distance(from, to)
<1> DEFINE turn == 2 * HalfTurn
           w == H!WrapToPi(to - from)
<1>1. HalfTurn \in Nat /\ HalfTurn > 1 /\ turn \in Nat /\ turn > 0
  BY DEF H!HeadingAssumption
<1>2. /\ from \in 1 - HalfTurn .. HalfTurn /\ to \in 1 - HalfTurn .. HalfTurn
      /\ from - to \in -turn .. turn /\ from \in Int /\ to \in Int
  BY <1>1 DEF H!Headings
<1>3. \A a, b \in Int :
         a - b \in -turn .. turn =>
            H!Distance(a, b) =
               LET d == IF a - b < 0 THEN a - b + turn
                        ELSE IF a - b = turn THEN 0 ELSE a - b
               IN  IF d > HalfTurn THEN turn - d ELSE d
  BY <1>1, SmallRemainder DEF H!Distance
<1>4. H!Distance(from, to) =
          LET d == IF from - to < 0 THEN from - to + turn ELSE from - to
          IN  IF d > HalfTurn THEN turn - d ELSE d
  <2>1. from - to # turn
    BY <1>1, <1>2
  <2> QED
    BY <1>2, <1>3, <2>1
<1>5. /\ w \in Int
      /\ w = IF to - from > HalfTurn THEN to - from - turn
             ELSE IF to - from < -HalfTurn THEN to - from + turn
             ELSE to - from
  BY <1>1, <1>2 DEF H!WrapToPi
<1> HIDE DEF w
<1>6. CASE w > 0
  <2>1. 1 * H!Clamp(H!Clamp(w, 2), 3) > 0
    BY <1>5, <1>6 DEF H!Clamp
  <2>2. (from + 1) - to \in -turn .. turn /\ from + 1 \in Int
    BY <1>1, <1>2
  <2>3. H!Distance(from + 1, to) =
           LET d == IF (from + 1) - to < 0 THEN (from + 1) - to + turn
                    ELSE IF (from + 1) - to = turn THEN 0 ELSE (from + 1) - to
           IN  IF d > HalfTurn THEN turn - d ELSE d
    BY <1>2, <1>3, <2>2
  <2>4. H!Distance(from + 1, to) < H!Distance(from, to)
    BY <1>1, <1>2, <1>4, <1>5, <1>6, <2>3
  <2> QED
    BY <2>1, <2>4 DEF w
<1>7. CASE w < 0
  <2>1. (-1) * H!Clamp(H!Clamp(w, 2), 3) > 0
    BY <1>5, <1>7 DEF H!Clamp
  <2>2. (from + (-1)) - to \in -turn .. turn /\ from + (-1) \in Int
    BY <1>1, <1>2
  <2>3. H!Distance(from + (-1), to) =
           LET d == IF (from + (-1)) - to < 0 THEN (from + (-1)) - to + turn
                    ELSE IF (from + (-1)) - to = turn THEN 0 ELSE (from + (-1)) - to
           IN  IF d > HalfTurn THEN turn - d ELSE d
    BY <1>2, <1>3, <2>2
  <2>4. H!Distance(from + (-1), to) < H!Distance(from, to)
    BY <1>1, <1>2, <1>4, <1>5, <1>7, <2>3
  <2> QED
    BY <2>1, <2>4 DEF w
<1>8. w # 0
  BY <1>1, <1>2, <1>5
<1> QED
  BY <1>5, <1>6, <1>7, <1>8

\* What is set to true or false.
HoldFlags ==
    {hold_rl_init_done, yaw_hold_enable, user_turning, forward_moving, steady,
     yaw_hold_target_initialized, unseen} \subseteq BOOLEAN

\* The values of their types; the command is a number.
HoldTypes ==
    /\ H!TypeOK /\ cmd_yaw_final \in Int

\* A pass in which yaw has not changed since it began has read it well so far.
CommandInv ==
    steady =>
        /\ hold_rl \in {"turning", "moving", "correct"} => cmd_yaw_final = yaw
        /\ hold_rl = "moving" => (user_turning <=> H!Abs(yaw) > 1)
        /\ hold_rl = "correct" => H!Abs(yaw) <= 1
        /\ hold_rl = "commands" =>
              IF H!Held
              THEN /\ H!Abs(yaw) <= 1
                   /\ cmd_yaw_final =
                        H!Clamp(yaw + H!Clamp(H!WrapToPi(yaw_hold_target
                                                         - yaw_current) - wz,
                                              2), 3)
              ELSE cmd_yaw_final = yaw

\* A pass that is to correct the heading walks straight, and has a target.
PhaseInv ==
    /\ hold_rl \in {"idle", "turning"} => ~user_turning
    /\ hold_rl \in {"idle", "turning", "moving"} => ~forward_moving
    /\ hold_rl = "correct" => forward_moving /\ ~user_turning
    /\ forward_moving => yaw_hold_target_initialized

\* A state that is left in the middle of a pass is not yet seen to be left; and
\* a target of before is a target only until then.
OriginInv ==
    /\ hold_rl # "idle" /\ ~hold_rl_init_done => unseen
    /\ origin = "before" /\ ~unseen => ~yaw_hold_target_initialized

HoldInv == HoldTypes /\ CommandInv /\ PhaseInv /\ OriginInv

LEMMA HoldInit ==
    ASSUME H!HeadingAssumption, H!Init
    PROVE  HoldInv
<1>1. /\ hold_x = 0 /\ yaw = 0 /\ hold_rl = "idle" /\ yaw_current = 0
      /\ wz = 0 /\ cmd_yaw_final = 0 /\ yaw_hold_target = 0
      /\ origin = "before"
  BY DEF H!Init
<1>2. /\ hold_rl_init_done = FALSE /\ yaw_hold_enable \in BOOLEAN
      /\ user_turning = FALSE /\ forward_moving = FALSE
      /\ yaw_hold_target_initialized = FALSE /\ steady = TRUE
      /\ unseen = FALSE
  BY DEF H!Init
<1>3. HoldFlags
  BY <1>2, Zenon DEF HoldFlags
<1>4. /\ {yaw_current, yaw_hold_target} \subseteq H!Headings
      /\ H!Abs(cmd_yaw_final) <= H!yaw_hold_cmd_limit
      /\ yaw \in H!Yaws /\ hold_x \in {0, 1} /\ wz \in {0, 1}
  BY <1>1
     DEF H!Headings, H!HeadingAssumption, H!Abs, H!yaw_hold_cmd_limit, H!Yaws
<1>5. H!TypeOK
  BY <1>1, <1>3, <1>4, Zenon DEF H!TypeOK, HoldFlags
<1> QED
  BY <1>1, <1>2, <1>5
     DEF HoldInv, HoldTypes, CommandInv, PhaseInv, OriginInv

LEMMA HoldFlagsNext ==
    ASSUME H!TypeOK, H!Next
    PROVE  HoldFlags'
<1>1. HoldFlags
  BY Zenon DEF H!TypeOK, HoldFlags
<1>2. {hold_rl_init_done, yaw_hold_enable, unseen}' \subseteq BOOLEAN
  BY <1>1, Zenon
     DEF HoldFlags, H!Next, H!episode, H!SetX, H!SetYaw, H!Exit, H!Run,
     H!RunModelOff, H!RunModel, H!ReadTurning, H!ReadMoving, H!Correct,
     H!Commands
<1>3. user_turning' \in BOOLEAN
  <2>1. CASE H!ReadTurning
    <3>1. user_turning' = (H!Abs(yaw) > H!yaw_hold_user_cmd_deadband)
      BY <2>1 DEF H!ReadTurning
    <3> QED
      BY <3>1
  <2>2. CASE ~H!ReadTurning
    BY <1>1, <2>2, Zenon
       DEF HoldFlags, H!Next, H!pass, H!SetX, H!SetYaw, H!Exit, H!Run,
       H!RunModelOff, H!RunModel, H!ReadMoving, H!Correct, H!Commands
  <2> QED
    BY <2>1, <2>2
<1>4. forward_moving' \in BOOLEAN
  BY <1>1, Zenon
     DEF HoldFlags, H!Next, H!pass, H!SetX, H!SetYaw, H!Exit, H!Run,
     H!RunModelOff, H!RunModel, H!ReadTurning, H!ReadMoving, H!Correct,
     H!Commands
<1>5. {steady, yaw_hold_target_initialized}' \subseteq BOOLEAN
  BY <1>1, Zenon
     DEF HoldFlags, H!Next, H!target, H!SetX, H!SetYaw, H!Exit, H!Run,
     H!RunModelOff, H!RunModel, H!ReadTurning, H!ReadMoving, H!Correct,
     H!Commands
<1> QED
  BY <1>2, <1>3, <1>4, <1>5 DEF HoldFlags

\* A correction is limited, and a number.
LEMMA ClampBounds ==
    ASSUME NEW a \in Int, NEW limit \in Nat
    PROVE  /\ H!Clamp(a, limit) \in Int
           /\ H!Abs(H!Clamp(a, limit)) <= limit
  BY DEF H!Clamp, H!Abs

LEMMA HoldTypesNext ==
    ASSUME H!HeadingAssumption, HoldInv, H!Next
    PROVE  HoldTypes'
<1> USE DEF HoldInv, HoldTypes
<1>1. HoldFlags'
  BY HoldFlagsNext
<1>2. /\ hold_rl' \in {"idle", "turning", "moving", "correct", "commands"}
      /\ origin' \in {"this", "before"}
      /\ yaw' \in H!Yaws /\ hold_x' \in {0, 1}
  BY DEF H!TypeOK, H!Next, H!target, H!SetX, H!SetYaw, H!Exit, H!Run,
     H!RunModelOff, H!RunModel, H!ReadTurning, H!ReadMoving, H!Correct,
     H!Commands
<1>3. {yaw_current, yaw_hold_target}' \subseteq H!Headings /\ wz' \in {0, 1}
  <2>1. 0 \in H!Headings
    BY DEF H!HeadingAssumption, H!Headings
  <2> QED
    BY <2>1
       DEF H!TypeOK, H!Next, H!target, H!measured, H!pass, H!SetX, H!SetYaw,
       H!Exit, H!Run, H!RunModelOff, H!RunModel, H!ReadTurning, H!ReadMoving,
       H!Correct, H!Commands
<1>4. cmd_yaw_final' \in Int /\ H!Abs(cmd_yaw_final') <= 3
  <2>1. \A v \in H!Yaws : v \in Int /\ H!Abs(v) <= 3
    BY DEF H!Yaws, H!Abs
  <2>2. CASE H!Correct
    <3>1. /\ yaw \in Int /\ wz \in Int
          /\ H!WrapToPi(yaw_hold_target - yaw_current) \in Int
      BY <2>1 DEF H!TypeOK, H!Headings, H!WrapToPi, H!HeadingAssumption
    <3>2. H!Clamp(H!WrapToPi(yaw_hold_target - yaw_current) - wz, 2) \in Int
      BY <3>1, ClampBounds
    <3>3. cmd_yaw_final' =
            H!Clamp(yaw + H!Clamp(H!WrapToPi(yaw_hold_target - yaw_current)
                                  - wz, 2), 3)
      BY <2>2
         DEF H!Correct, H!yaw_hold_max_correction, H!yaw_hold_cmd_limit
    <3> QED
      BY <3>1, <3>2, <3>3, ClampBounds
  <2>3. CASE ~H!Correct
    <3>1. cmd_yaw_final' \in {cmd_yaw_final, yaw, 0}
      BY <2>3
         DEF H!Next, H!measured, H!pass, H!SetX, H!SetYaw, H!Exit, H!Run,
         H!RunModelOff, H!RunModel, H!ReadTurning, H!ReadMoving, H!Commands
    <3>2. /\ yaw \in H!Yaws /\ H!Abs(0) <= 3 /\ 0 \in Int
          /\ H!Abs(cmd_yaw_final) <= 3 /\ cmd_yaw_final \in Int
      BY DEF H!TypeOK, H!Abs, H!yaw_hold_cmd_limit
    <3> QED
      BY <2>1, <3>1, <3>2, Zenon
  <2> QED
    BY <2>2, <2>3
<1> QED
  BY <1>1, <1>2, <1>3, <1>4, Zenon
     DEF H!TypeOK, HoldFlags, H!yaw_hold_cmd_limit

LEMMA HoldNext ==
    ASSUME H!HeadingAssumption, HoldInv, H!Next
    PROVE  CommandInv' /\ PhaseInv' /\ OriginInv'
<1> USE DEF HoldInv, HoldTypes
<1>1. HoldFlags
  BY Zenon DEF H!TypeOK, HoldFlags
<1>2. PhaseInv' /\ OriginInv'
  <2>1. CASE H!ReadMoving
    BY <1>1, <2>1
       DEF HoldFlags, PhaseInv, OriginInv, H!ReadMoving, H!episode, H!target
  <2>2. CASE ~H!ReadMoving
    BY <2>2
       DEF PhaseInv, OriginInv, H!Next, H!episode, H!target, H!measured,
       H!pass, H!SetX, H!SetYaw, H!Exit, H!Run, H!RunModelOff, H!RunModel,
       H!ReadTurning, H!Correct, H!Commands
  <2> QED
    BY <2>1, <2>2
<1>3. CommandInv'
  <2>1. CASE H!ReadTurning
    BY <2>1
       DEF CommandInv, H!ReadTurning, H!yaw_hold_user_cmd_deadband, H!measured
  <2>2. CASE H!ReadMoving
    <3>1. /\ hold_rl = "moving" /\ UNCHANGED <<yaw, steady, cmd_yaw_final>>
          /\ user_turning' = user_turning /\ forward_moving' = (hold_x # 0)
          /\ hold_rl' = IF ~user_turning /\ hold_x # 0 THEN "correct"
                        ELSE "commands"
      BY <2>2 DEF H!ReadMoving
    <3>2. hold_rl' = "commands" => ~H!Held'
      BY <3>1 DEF H!Held
    <3>3. H!Abs(yaw) \in Int
      BY DEF H!TypeOK, H!Yaws, H!Abs
    <3> QED
      BY <3>1, <3>2, <3>3 DEF CommandInv
  <2>3. CASE H!Correct
    <3>1. /\ hold_rl = "correct" /\ hold_rl' = "commands"
          /\ UNCHANGED <<yaw, steady, yaw_hold_target, yaw_current, wz,
                         user_turning, forward_moving>>
          /\ cmd_yaw_final' =
               H!Clamp(yaw + H!Clamp(H!WrapToPi(yaw_hold_target - yaw_current)
                                     - wz, 2), 3)
      BY <2>3 DEF H!Correct, H!target, H!measured, H!yaw_hold_max_correction,
         H!yaw_hold_cmd_limit
    <3>2. H!Held'
      BY <3>1 DEF H!Held, PhaseInv
    <3> QED
      BY <3>1, <3>2 DEF CommandInv
  <2>4. CASE \E heading \in H!Headings, rate \in {0, 1} :
                H!RunModel(heading, rate)
    <3>1. /\ cmd_yaw_final' = yaw /\ hold_rl' \in {"turning", "commands"}
          /\ UNCHANGED <<yaw, forward_moving>> /\ hold_rl = "idle"
      BY <2>4 DEF H!RunModel
    <3>2. ~H!Held'
      BY <3>1 DEF H!Held, PhaseInv
    <3> QED
      BY <3>1, <3>2 DEF CommandInv
  <2>5. CASE H!Commands \/ \E v \in H!Yaws : H!SetYaw(v)
    BY <2>5 DEF CommandInv, H!Commands, H!SetYaw
  <2>6. CASE \/ \E v \in {0, 1} : H!SetX(v)
             \/ H!Exit \/ (\E enable \in BOOLEAN : H!Run(enable))
             \/ H!RunModelOff
    <3>1. UNCHANGED <<yaw, steady, hold_rl, yaw_hold_target, yaw_current, wz,
                      cmd_yaw_final, user_turning, forward_moving>>
      BY <2>6 DEF H!SetX, H!Exit, H!Run, H!RunModelOff, H!target, H!measured,
         H!pass
    <3>2. H!Held' <=> H!Held
      BY <3>1 DEF H!Held
    <3> QED
      BY <3>1, <3>2 DEF CommandInv
  <2> QED
    BY <2>1, <2>2, <2>3, <2>4, <2>5, <2>6 DEF H!Next
<1> QED
  BY <1>2, <1>3

LEMMA HoldSteps == Spec => H!Spec
<1>1. Init => H!Init
  BY DEF Init
<1>2. [Next]_vars => [H!Next]_(H!vars)
  <2>1. UNCHANGED hold_vars => UNCHANGED H!vars
    BY DEF hold_vars, H!vars, H!episode, H!target, H!pass, H!measured
  <2>2. UNCHANGED vars => UNCHANGED hold_vars
    BY DEF vars
  <2> QED
    BY <2>1, <2>2, OthersStay DEF Next
<1> QED
  BY <1>1, <1>2, PTL DEF Spec, H!Spec

\* While myrobot walks straight it is turned back to the heading that it held,
\* the short way round, also over the seam at half a turn; to a heading of the
\* present entry, unless the policy thread missed the pause between; and an
\* operator who turns it throughout a pass is not corrected: for every number of
\* steps of a half turn.
THEOREM HeadingHoldSafeHolds == Spec => []HeadingHoldSafe
<1>1. H!HeadingAssumption
  BY HeadingAssumption
<1>2. H!Init => HoldInv
  BY <1>1, HoldInit
<1>3. HoldInv /\ [H!Next]_(H!vars) => HoldInv'
  <2> SUFFICES ASSUME HoldInv, [H!Next]_(H!vars) PROVE HoldInv'
    OBVIOUS
  <2>1. CASE H!Next
    BY <1>1, <2>1, HoldTypesNext, HoldNext DEF HoldInv
  <2>2. CASE UNCHANGED H!vars
    BY <2>2
       DEF H!vars, H!episode, H!target, H!pass, H!measured, HoldInv,
       HoldTypes, H!TypeOK, CommandInv, H!Held, PhaseInv, OriginInv
  <2> QED
    BY <2>1, <2>2
<1>4. HoldInv => HeadingHoldSafe
  <2> SUFFICES ASSUME HoldInv PROVE H!HeadingHoldSafe
    BY DEF HeadingHoldSafe
  <2> USE DEF HoldInv, HoldTypes
  <2>1. H!ShortWay
    <3> SUFFICES ASSUME H!Held, steady, yaw = 0, wz = 0
                 PROVE  IF yaw_current = yaw_hold_target THEN cmd_yaw_final = 0
                        ELSE \E step \in {-1, 1} :
                                /\ step * cmd_yaw_final > 0
                                /\ H!Distance(yaw_current + step,
                                              yaw_hold_target)
                                     < H!Distance(yaw_current, yaw_hold_target)
      BY DEF H!ShortWay
    <3> DEFINE w == H!WrapToPi(yaw_hold_target - yaw_current)
    <3>1. /\ yaw_current \in H!Headings /\ yaw_hold_target \in H!Headings
          /\ yaw_current \in Int /\ yaw_hold_target \in Int /\ w \in Int
      BY <1>1 DEF H!TypeOK, H!Headings, H!HeadingAssumption, H!WrapToPi
    <3>2. cmd_yaw_final = H!Clamp(yaw + H!Clamp(w - wz, 2), 3)
      BY DEF CommandInv, H!Held
    <3>3. w - wz = w /\ H!Clamp(w, 2) \in Int
      BY <3>1, ClampBounds
    <3>4. cmd_yaw_final = H!Clamp(H!Clamp(w, 2), 3)
      <4>1. 0 + H!Clamp(w, 2) = H!Clamp(w, 2)
        BY <3>3
      <4> QED
        BY <3>2, <3>3, <4>1, Zenon
    <3>5. CASE yaw_current = yaw_hold_target
      <4>1. w = 0
        BY <1>1, <3>1, <3>5 DEF H!WrapToPi, H!HeadingAssumption
      <4>2. H!Clamp(H!Clamp(0, 2), 3) = 0
        BY DEF H!Clamp
      <4> QED
        BY <3>4, <3>5, <4>1, <4>2, Zenon
    <3>6. CASE yaw_current # yaw_hold_target
      <4>1. \E step \in {-1, 1} :
               /\ step * H!Clamp(H!Clamp(w, 2), 3) > 0
               /\ H!Distance(yaw_current + step, yaw_hold_target)
                    < H!Distance(yaw_current, yaw_hold_target)
        BY <1>1, <3>1, <3>6, WrapIsShort, Zenon
      <4> QED
        BY <3>4, <3>6, <4>1, Zenon
    <3> QED
      BY <3>5, <3>6
  <2>2. H!HeadingIsOwn
    BY DEF PhaseInv, OriginInv, H!HeadingIsOwn, H!Held
  <2>3. H!OperatorWins
    <3>1. H!Abs(yaw) \in Int
      BY DEF H!TypeOK, H!Yaws, H!Abs
    <3> QED
      BY <3>1 DEF CommandInv, H!OperatorWins, H!yaw_hold_user_cmd_deadband
  <2> QED
    BY <2>1, <2>2, <2>3 DEF H!HeadingHoldSafe
<1> QED
  BY <1>2, <1>3, <1>4, HoldSteps, PTL DEF Spec, H!Spec
-----------------------------------------------------------------------------
(* From an action to the target of a joint, for every angle that a joint   *)
(* can have and every action.                                              *)

LEMMA LeastOfTwo ==
    ASSUME NEW a \in Int, NEW b \in Int
    PROVE  /\ O!Min({a, b}) = IF a <= b THEN a ELSE b
           /\ O!Max({a, b}) = IF a <= b THEN b ELSE a
<1>1. PICK c \in {a, b} : \A y \in {a, b} : c <= y
  OBVIOUS
<1>2. PICK d \in {a, b} : \A y \in {a, b} : d >= y
  OBVIOUS
<1>3. /\ O!Min({a, b}) \in {a, b} /\ \A y \in {a, b} : O!Min({a, b}) <= y
  BY <1>1 DEF O!Min
<1>4. /\ O!Max({a, b}) \in {a, b} /\ \A y \in {a, b} : O!Max({a, b}) >= y
  BY <1>2 DEF O!Max
<1> QED
  BY <1>3, <1>4

\* The limits, the rate limit and the ramp, one after the other: where they lead
\* from a target.
LEMMA SafeTarget ==
    ASSUME O!TypeOK, NEW x \in Int
    PROVE  /\ O!apply_q_target_safety(x) \in Int
           /\ output_params.enable_q_target_clamp =>
                 O!apply_q_target_safety(x)
                   \in O!Min({-2, q}) .. O!Max({2, q})
           /\ output_params.enable_q_target_rate_limit =>
                 O!apply_q_target_safety(x) - q \in -1 .. 1
<1> DEFINE y == O!LimitAngle(x)
           z == O!LimitStep(y)
<1>1. q \in Int /\ output_episode_length_buf \in 0 .. 3
  BY DEF O!TypeOK, O!Angles, O!action_ramp_passes
<1>2. /\ O!Min({-2, q}) = IF -2 <= q THEN -2 ELSE q
      /\ O!Max({2, q}) = IF 2 <= q THEN q ELSE 2
  BY <1>1, LeastOfTwo
<1>3. /\ y \in Int
      /\ output_params.enable_q_target_clamp => y \in -2 .. 2
  BY DEF O!LimitAngle, O!Clamp, O!q_target_lower, O!q_target_upper
<1> HIDE DEF y
<1>4. /\ z \in Int
      /\ output_params.enable_q_target_rate_limit => z - q \in -1 .. 1
      /\ output_params.enable_q_target_clamp =>
            z \in O!Min({-2, q}) .. O!Max({2, q})
  BY <1>1, <1>2, <1>3 DEF O!LimitStep, O!Clamp, O!q_target_max_step
<1> HIDE DEF z
<1>5. O!apply_q_target_safety(x) = O!Ramp(z)
  BY DEF O!apply_q_target_safety, y, z
<1>6. /\ O!Ramp(z) \in Int
      /\ q <= z => O!Ramp(z) \in q .. z
      /\ z <= q => O!Ramp(z) \in z .. q
  <2>1. CASE output_params.enable_action_ramp
    <3> DEFINE alpha == O!Min({output_episode_length_buf + 1, 3})
               way == alpha * (z - q)
    <3>1. alpha \in {1, 2, 3}
      BY <1>1, LeastOfTwo
    <3> HIDE DEF alpha
    <3>2. O!Ramp(z) = q + IF way >= 0 THEN way \div 3 ELSE -(-way \div 3)
      BY <2>1 DEF O!Ramp, O!action_ramp_passes, alpha
    <3>3. way \in {1 * (z - q), 2 * (z - q), 3 * (z - q)}
      BY <3>1
    <3> HIDE DEF way
    <3> QED
      BY <1>1, <1>4, <3>2, <3>3
  <2>2. CASE ~output_params.enable_action_ramp
    BY <1>1, <1>4, <2>2 DEF O!Ramp
  <2> QED
    BY <2>1, <2>2
<1>7. O!Min({-2, q}) <= q /\ q <= O!Max({2, q})
  BY <1>1, <1>2
<1> QED
  BY <1>1, <1>2, <1>4, <1>5, <1>6, <1>7

\* What a pass makes of an action are numbers.
LEMMA ActionsAreNumbers ==
    ASSUME O!TypeOK, NEW a \in Int
    PROVE  /\ O!SoftPosition(a) \in Int /\ O!Position(a) \in Int
           /\ O!PositionAction(a) \in Int /\ O!Velocity(a) \in Int
<1>1. \A x \in Int : O!Clip(x) \in Int /\ O!Deadzone(x) \in Int
  BY DEF O!Clip, O!Clamp, O!clip_actions, O!Deadzone
<1>2. O!SoftAction(a) \in Int /\ O!PositionAction(a) \in Int
  <2>1. O!action_scale * a \in Int
    BY DEF O!action_scale
  <2> QED
    BY <1>1, <2>1 DEF O!SoftAction, O!PositionAction
<1>3. O!SoftPosition(a) \in Int
  BY <1>2 DEF O!SoftPosition, O!soft_joint_pos
<1>4. O!Position(a) \in Int
  BY <1>2 DEF O!Position, O!default_dof_pos, O!TypeOK, O!Angles
<1>5. O!Velocity(a) \in Int
  BY <1>1, <1>2 DEF O!Velocity, O!action_scale
<1> QED
  BY <1>2, <1>3, <1>4, <1>5

LEMMA OutputComputed ==
    ASSUME O!OutputAssumption, O!TypeOK, NEW a \in O!Actions,
           O!ComputeOutput(a)
    PROVE  O!OutputSafe'
<1>1. a \in Int
  BY DEF O!Actions
<1>2. /\ q_at' = q /\ UNCHANGED <<output_params, q>>
      /\ output_episode_length_buf' =
           O!Min({output_episode_length_buf + 1, 3})
  BY DEF O!ComputeOutput, O!action_ramp_passes
<1>3. PICK x \in Int : output_dof_pos' = O!apply_q_target_safety(x)
  <2>1. output_dof_pos' =
          O!apply_q_target_safety(IF output_params.use_soft_joint_pos_action
                                  THEN O!SoftPosition(a) ELSE O!Position(a))
    BY DEF O!ComputeOutput
  <2> QED
    BY <1>1, <2>1, ActionsAreNumbers
<1>4. /\ output_dof_pos' \in Int
      /\ output_params.enable_q_target_clamp =>
            output_dof_pos' \in O!Min({-2, q}) .. O!Max({2, q})
      /\ output_params.enable_q_target_rate_limit =>
            output_dof_pos' - q \in -1 .. 1
  BY <1>3, SafeTarget
<1>5. output_dof_vel' \in Int
  BY <1>1, ActionsAreNumbers DEF O!ComputeOutput
<1>6. q \in Int /\ output_episode_length_buf \in 0 .. 3
  BY DEF O!TypeOK, O!Angles, O!action_ramp_passes
<1>7. output_dof_tau' \in -3 .. 3
  <2>1. O!Stretch(a) \in Int
    BY <1>1, <1>4, <1>6, ActionsAreNumbers DEF O!Stretch
  <2>2. 2 * O!Stretch(a) + 1 * output_dof_vel' \in Int
    BY <1>5, <2>1
  <2>3. output_dof_tau' =
          O!Clamp(2 * O!Stretch(a) + 1 * output_dof_vel', -3, 3)
    BY DEF O!ComputeOutput, O!rl_kp, O!rl_kd, O!torque_limits
  <2> QED
    BY <2>2, <2>3 DEF O!Clamp
<1>8. output_episode_length_buf' \in 0 .. 3
  BY <1>2, <1>6, LeastOfTwo
<1>9. O!TypeOK'
  <2>1. {output_dof_pos, output_dof_vel, output_dof_tau}' \subseteq Int
    BY <1>4, <1>5, <1>7
  <2> QED
    BY <1>2, <1>7, <1>8, <2>1
       DEF O!TypeOK, O!action_ramp_passes, O!torque_limits
<1>10. O!TargetInLimits' /\ O!StepInLimits'
  BY <1>2, <1>4 DEF O!TargetInLimits, O!StepInLimits, O!q_target_lower,
     O!q_target_upper, O!q_target_max_step
<1> QED
  BY <1>9, <1>10 DEF O!OutputSafe

LEMMA OutputNext ==
    ASSUME O!OutputAssumption, O!OutputSafe, [O!Next]_(O!vars)
    PROVE  O!OutputSafe'
<1> USE DEF O!OutputSafe
<1>1. CASE O!InitOutputs
  <2>1. O!TypeOK'
    BY <1>1 DEF O!InitOutputs, O!TypeOK, O!default_dof_pos,
       O!action_ramp_passes, O!torque_limits
  <2> QED
    BY <1>1, <2>1
       DEF O!InitOutputs, O!Computed, O!TargetInLimits, O!StepInLimits
<1>2. CASE O!Move
  <2>1. /\ q' \in O!Angles
        /\ UNCHANGED <<output_params, output_episode_length_buf, q_at,
                       output_dof_pos, output_dof_vel, output_dof_tau>>
    BY <1>2 DEF O!Move
  <2> QED
    BY <2>1
       DEF O!TypeOK, O!Computed, O!TargetInLimits, O!StepInLimits
<1>3. ASSUME NEW a \in O!Actions, O!ComputeOutput(a) PROVE O!OutputSafe'
  BY <1>3, OutputComputed
<1>4. CASE UNCHANGED O!vars
  BY <1>4
     DEF O!vars, O!TypeOK, O!Computed, O!TargetInLimits, O!StepInLimits
<1> QED
  BY <1>1, <1>2, <1>3, <1>4 DEF O!Next

LEMMA OutputInit ==
    ASSUME O!OutputAssumption, O!Init
    PROVE  O!OutputSafe
<1>1. /\ output_params \in O!Configurations /\ q \in O!Angles /\ q_at = q
      /\ output_episode_length_buf = 0 /\ output_dof_pos = q
      /\ output_dof_vel = 0 /\ output_dof_tau = 0
  BY DEF O!Init
<1>2. q \in Int
  BY <1>1 DEF O!Angles
<1>3. O!TypeOK
  BY <1>1, <1>2 DEF O!TypeOK, O!action_ramp_passes, O!torque_limits
<1> QED
  BY <1>1, <1>3
     DEF O!OutputSafe, O!Computed, O!TargetInLimits, O!StepInLimits

LEMMA OutputSteps == Spec => O!Spec
<1>1. Init => O!Init
  BY DEF Init
<1>2. [Next]_vars => [O!Next]_(O!vars)
  <2>1. UNCHANGED output_vars => UNCHANGED O!vars
    BY DEF output_vars, O!vars
  <2>2. UNCHANGED vars => UNCHANGED output_vars
    BY DEF vars
  <2> QED
    BY <2>1, <2>2, OthersStay DEF Next
<1> QED
  BY <1>1, <1>2, PTL DEF Spec, O!Spec

\* With the limits of the target on, no pass drives a joint out of them, nor
\* further out when it was pushed out; with the rate limit on, no target is
\* further from the measured angle than a step; and the torque stays in its
\* limits: in every configuration, for every angle and every action.
THEOREM OutputSafeHolds == Spec => []OutputSafe
<1>1. O!OutputAssumption
  BY OutputAssumption
<1>2. O!Init => O!OutputSafe
  BY <1>1, OutputInit
<1>3. O!OutputSafe /\ [O!Next]_(O!vars) => O!OutputSafe'
  BY <1>1, OutputNext
<1>4. O!OutputSafe => OutputSafe
  BY DEF OutputSafe
<1> QED
  BY <1>2, <1>3, <1>4, OutputSteps, PTL DEF Spec, O!Spec
-----------------------------------------------------------------------------
(* The motion that a pass reads without a lock, for motions of every length. *)

\* The time at the end of which the motion stops, and the times that a pass of
\* the present may have been given: that of one Update is read before the pass
\* begins, and so may be that of the Update before it.
Present ==
    IF motion_episode_length_buf <= num_frames_ THEN motion_episode_length_buf
    ELSE num_frames_
Recent == {t \in 0 .. Present : t >= Present - 2}

\* What Update makes of a time.
First(t) == IF t = 0 THEN 0 ELSE t - 1
Second(t) == IF First(t) + 1 <= num_frames_ - 1 THEN First(t) + 1
             ELSE num_frames_ - 1
Mixed(t) == IF t = 0 THEN 0 ELSE num_frames_ - t

\* Enter has loaded a motion, and the state is not left.
Dancing == state = "dance" /\ motion_control # "loading"

LoaderTypes ==
    /\ F!TypeOK
    /\ motion_episode_length_buf \in Nat
    /\ last \in Int
    /\ pass \in [entry : Nat, index_0 : Int, index_1 : Int, blend : Int]

\* A pass is of this motion or of one before; while a motion is loaded the policy
\* is off, at the beginning of its episode.
EntryInv ==
    /\ pass.entry <= entries
    /\ motion_control # "idle" => state = "dance"
    /\ motion_control = "loading" =>
          /\ entries < MaxEntries /\ ~motion_rl_init_done
          /\ motion_episode_length_buf = 0

\* How old the time is that Run read, when an Update of it is under way, and when
\* it is over.
TimeInv ==
    Dancing =>
        /\ time \in 0 .. Present
        /\ motion_control \in {"index_0", "index_1", "blend"} =>
              time >= Present - IF moved THEN 0 ELSE 1
        /\ motion_control \in {"idle", "over"} =>
              time >= Present - IF moved THEN 1 ELSE 2

\* The members are those of that time, but for what the Update has not come to,
\* which is still of the time before.
MembersInv ==
    Dancing =>
        \E old \in 0 .. time :
            /\ old >= Present - IF moved THEN 1 ELSE 2
            /\ index_0_ = First(IF motion_control = "index_0" THEN old ELSE time)
            /\ index_1_ = Second(IF motion_control \in {"index_0", "index_1"}
                                 THEN old ELSE time)
            /\ blend_ = Mixed(IF motion_control \in {"index_0", "index_1", "blend"}
                              THEN old ELSE time)

\* What a pass of this motion has read is of recent times, and not before what
\* the pass before it has read.
ReadInv ==
    Dancing =>
        /\ last <= index_0_
        /\ pass.entry = entries =>
              /\ motion_rl \in {"reading", "between", "read"} =>
                    /\ \E t \in Recent : pass.index_0 = First(t)
                    /\ last <= pass.index_0 /\ pass.index_0 <= index_0_
              /\ motion_rl \in {"between", "read"} =>
                    \E t \in Recent : pass.index_1 = Second(t)
              /\ motion_rl = "read" =>
                    \E t \in Recent : pass.blend = Mixed(t)

LoaderInv == LoaderTypes /\ EntryInv /\ TimeInv /\ MembersInv /\ ReadInv

LEMMA LeastTime ==
    ASSUME NEW a \in Int, NEW b \in Int
    PROVE  F!Min({a, b}) = IF a <= b THEN a ELSE b
<1>1. PICK c \in {a, b} : \A y \in {a, b} : c <= y
  OBVIOUS
<1>2. F!Min({a, b}) \in {a, b} /\ \A y \in {a, b} : F!Min({a, b}) <= y
  BY <1>1 DEF F!Min
<1> QED
  BY <1>2

\* The division in Update.
LEMMA DivideTime ==
    ASSUME NEW n \in Nat, n > 0, NEW t \in 1 .. n
    PROVE  /\ (t * (n - 1)) \div n = t - 1
           /\ t * (n - 1) - (t - 1) * n = n - t
  OBVIOUS

LEMMA UpdateOfTime ==
    ASSUME F!TypeOK, F!LoaderAssumption, NEW t \in 0 .. num_frames_
    PROVE  /\ F!Index0(t) = First(t)
           /\ F!Frame(t) = t * (num_frames_ - 1)
           /\ index_0_ = First(t) => F!Index1 = Second(t)
           /\ index_0_ = First(t) => F!Blend(t) = Mixed(t)
           /\ {First(t), Second(t), Mixed(t)} \subseteq 0 .. num_frames_ - 1
<1>1. num_frames_ \in Nat /\ num_frames_ > 1 /\ t \in Nat /\ t <= num_frames_
  BY DEF F!TypeOK, F!LoaderAssumption
<1>2. F!Frame(t) = t * (num_frames_ - 1)
  <2>1. F!Min({t, num_frames_}) = t
    BY <1>1, LeastTime
  <2> QED
    BY <2>1, Zenon DEF F!Frame
<1>3. First(t) \in 0 .. num_frames_ - 1
  BY <1>1 DEF First
<1>4. F!Min({First(t) + 1, num_frames_ - 1}) = Second(t)
  BY <1>1, <1>3, LeastTime DEF Second
<1>5. CASE t = 0
  <2>1. F!Frame(t) = 0 /\ 0 \div num_frames_ = 0 /\ 0 * num_frames_ = 0
    BY <1>1, <1>2, <1>5
  <2> QED
    BY <1>1, <1>2, <1>3, <1>4, <1>5, <2>1
       DEF First, Second, Mixed, F!Index0, F!Index1, F!Blend
<1>6. CASE t # 0
  <2>1. t \in 1 .. num_frames_
    BY <1>1, <1>6
  <2>2. /\ F!Frame(t) \div num_frames_ = t - 1
        /\ F!Frame(t) - (t - 1) * num_frames_ = num_frames_ - t
    BY <1>1, <1>2, <2>1, DivideTime
  <2>3. {First(t), Second(t), Mixed(t)} \subseteq 0 .. num_frames_ - 1
    BY <1>1, <1>6, <1>3 DEF First, Second, Mixed
  <2> QED
    BY <1>2, <1>4, <1>6, <2>2, <2>3, Zenon
       DEF First, Mixed, F!Index0, F!Index1, F!Blend
<1> QED
  BY <1>5, <1>6

\* However the members of recent times are put together, the place is at most two
\* frames from the present one.
LEMMA NearPlace ==
    ASSUME NEW n \in Nat, n > 1, num_frames_ = n,
           NEW m \in 0 .. n,
           NEW a \in 0 .. m, NEW b \in 0 .. m, NEW c \in 0 .. m,
           a >= m - 2, b >= m - 2, c >= m - 2
    PROVE  (First(a) * n + (Second(b) - First(a)) * Mixed(c)) - m * (n - 1)
             \in -2 * n .. 2 * n
<1> DEFINE k == m - First(a)
           s == Second(b) - First(a)
           e == Mixed(c)
<1>1. CASE m = 0
  <2>1. First(a) = 0 /\ Mixed(c) = 0 /\ Second(b) \in Int
    BY <1>1 DEF First, Second, Mixed
  <2> QED
    BY <1>1, <2>1
<1>2. CASE m # 0
  <2>1. First(a) \in Int /\ Second(b) \in Int /\ e \in Int
    BY DEF First, Second, Mixed
  <2>2. k \in {1, 2, 3} /\ k <= m
    BY <1>2 DEF First
  <2>3. s \in {k - 2, k - 1, k}
    BY <1>2, <2>2 DEF First, Second
  <2>4. /\ e >= 0 /\ e <= n - 1 /\ e <= n - m + 2
        /\ m >= 3 => e >= n - m
    BY <1>2 DEF Mixed
  <2>5. First(a) * n - m * (n - 1) = m - k * n
    <3>1. First(a) = m - k /\ k \in Int
      BY <2>1
    <3> HIDE DEF k
    <3>2. (m - k) * n - m * (n - 1) = m - k * n
      BY <3>1
    <3> QED
      BY <3>1, <3>2
  <2>6. (First(a) * n + s * e) - m * (n - 1) = m - k * n + s * e
    <3>1. First(a) * n \in Int /\ m * (n - 1) \in Int /\ s * e \in Int
          /\ k * n \in Int
      BY <2>1, <2>2, <2>3
    <3> HIDE DEF k, s, e
    <3> QED
      BY <2>5, <3>1
  <2> HIDE DEF k, s, e
  <2>7. m - k * n + s * e \in -2 * n .. 2 * n
    <3>1. /\ k * n = IF k = 1 THEN n ELSE IF k = 2 THEN n + n ELSE n + n + n
          /\ s * e = IF s = -1 THEN -e ELSE IF s = 0 THEN 0
                     ELSE IF s = 1 THEN e ELSE IF s = 2 THEN e + e
                     ELSE e + e + e
      BY <2>1, <2>2, <2>3
    <3> DEFINE kn == k * n
               se == s * e
    <3> HIDE DEF kn, se
    <3>2. m - kn + se \in -2 * n .. 2 * n
      BY <2>1, <2>2, <2>3, <2>4, <3>1 DEF kn, se
    <3> QED
      BY <3>2 DEF kn, se
  <2> QED
    BY <2>6, <2>7 DEF s, e
<1> QED
  BY <1>1, <1>2

LEMMA LoaderInit ==
    ASSUME F!LoaderAssumption, F!Init
    PROVE  LoaderInv
<1>1. /\ state = "other" /\ motion_control = "idle" /\ num_frames_ = 2
      /\ entries = 0 /\ motion_episode_length_buf = 0 /\ time = 0
      /\ index_0_ = 0 /\ index_1_ = 0 /\ blend_ = 0 /\ motion_rl = "idle"
      /\ last = 0
  BY DEF F!Init
<1>2. motion_rl_init_done \in BOOLEAN /\ moved = TRUE
  BY DEF F!Init
<1>3. pass = [entry |-> 0, index_0 |-> 0, index_1 |-> 0, blend |-> 0]
  BY DEF F!Init, F!NotRead
<1>4. 2 \in 2 .. MaxFrames /\ 0 \in 0 .. MaxEntries /\ 0 \in 0 .. 2 - 1
  BY DEF F!LoaderAssumption
<1>5. F!TypeOK
  BY <1>1, <1>2, <1>4, Zenon DEF F!TypeOK
<1>6. LoaderTypes
  BY <1>1, <1>3, <1>5 DEF LoaderTypes
<1> QED
  BY <1>1, <1>3, <1>6
     DEF LoaderInv, EntryInv, TimeInv, MembersInv, ReadInv, Dancing

\* Entering and leaving.
LEMMA LoaderEntry ==
    ASSUME F!LoaderAssumption, LoaderInv,
           F!OtherRuns \/ F!Enter \/ F!LoadFromCSVThrows \/ F!Exit
    PROVE  LoaderInv'
<1> USE DEF LoaderInv
<1>1. /\ ~Dancing'
      /\ UNCHANGED <<num_frames_, entries, time, index_0_, index_1_, blend_,
                     moved, motion_rl, pass, last>>
      /\ motion_episode_length_buf' \in {motion_episode_length_buf, 0}
      /\ state' \in {"other", "dance"}
      /\ motion_control' \in {"idle", "loading"}
  BY DEF F!OtherRuns, F!Enter, F!LoadFromCSVThrows, F!Exit, Dancing
<1>2. motion_rl_init_done' \in BOOLEAN
  BY Zenon DEF F!OtherRuns, F!Enter, F!LoadFromCSVThrows, F!Exit,
     LoaderTypes, F!TypeOK
<1>3. F!TypeOK'
  BY <1>1, <1>2 DEF LoaderTypes, F!TypeOK
<1>4. EntryInv'
  BY <1>1 DEF EntryInv, F!OtherRuns, F!Enter, F!LoadFromCSVThrows, F!Exit,
     F!TypeOK, LoaderTypes
<1> QED
  BY <1>1, <1>3, <1>4 DEF LoaderTypes, TimeInv, MembersInv, ReadInv

\* The new motion is at its beginning, and no pass is of it yet.
LEMMA LoaderLoad ==
    ASSUME F!LoaderAssumption, LoaderInv,
           NEW n \in 2 .. MaxFrames, F!LoadFromCSV(n)
    PROVE  LoaderInv'
<1> USE DEF LoaderInv
<1>1. /\ motion_control = "loading" /\ motion_control' = "idle"
      /\ num_frames_' = n /\ entries' = entries + 1
      /\ index_0_' = 0 /\ index_1_' = 1 /\ blend_' = 0
      /\ time' = 0 /\ last' = 0
      /\ UNCHANGED <<state, motion_rl_init_done, motion_episode_length_buf,
                     motion_rl, pass>>
  BY DEF F!LoadFromCSV, F!Start
<1>2. moved' = TRUE
  BY DEF F!LoadFromCSV
<1>3. /\ entries \in 0 .. MaxEntries /\ entries < MaxEntries
      /\ MaxEntries \in Nat /\ MaxFrames \in Nat /\ n \in Nat
      /\ state = "dance" /\ motion_episode_length_buf = 0
      /\ pass.entry \in Nat /\ pass.entry <= entries
  BY <1>1 DEF LoaderTypes, EntryInv, F!TypeOK, F!LoaderAssumption
<1>4. /\ entries' \in 0 .. MaxEntries /\ pass.entry # entries'
      /\ {index_0_', index_1_'} \subseteq 0 .. n - 1 /\ blend_' \in 0 .. n - 1
  BY <1>1, <1>3
<1>5. F!TypeOK'
  <2>1. /\ state \in {"other", "dance"} /\ motion_rl_init_done \in BOOLEAN
        /\ motion_rl \in {"idle", "begun", "reading", "between", "read"}
    BY DEF LoaderTypes, F!TypeOK
  <2> QED
    BY <1>1, <1>2, <1>4, <2>1, Zenon DEF F!TypeOK
<1>6. Present' = 0 /\ 0 \in 0 .. 0
  BY <1>1, <1>3 DEF Present
<1>7. TimeInv'
  BY <1>1, <1>6 DEF TimeInv
<1>8. MembersInv'
  <2>1. /\ 0 \in 0 .. time' /\ 0 >= Present' - IF moved' THEN 1 ELSE 2
    BY <1>1, <1>6
  <2>2. index_0_' = First(0) /\ index_1_' = Second(0)' /\ blend_' = Mixed(0)'
    BY <1>1, <1>3 DEF First, Second, Mixed
  <2> QED
    BY <1>1, <2>1, <2>2 DEF MembersInv, First
<1>9. ReadInv'
  BY <1>1, <1>4 DEF ReadInv
<1>10. EntryInv' /\ LoaderTypes'
  BY <1>1, <1>3, <1>5 DEF EntryInv, LoaderTypes
<1> QED
  BY <1>7, <1>8, <1>9, <1>10

\* The present, in numbers.
LEMMA PresentTime ==
    ASSUME F!LoaderAssumption, LoaderTypes
    PROVE  /\ num_frames_ \in Nat /\ Present \in 0 .. num_frames_
           /\ F!Min({motion_episode_length_buf, num_frames_}) = Present
  BY LeastTime DEF LoaderTypes, F!TypeOK, F!LoaderAssumption, Present

\* Run reads the time and writes the members one after the other.
LEMMA LoaderRun ==
    ASSUME F!LoaderAssumption, LoaderInv,
           F!Run \/ F!UpdateIndex0 \/ F!UpdateIndex1 \/ F!UpdateBlend
    PROVE  LoaderInv'
<1> USE DEF LoaderInv
<1>1. /\ Dancing /\ Dancing'
      /\ UNCHANGED <<state, num_frames_, entries, motion_episode_length_buf,
                     motion_rl, pass, last>>
      /\ motion_control # "loading" /\ motion_control' # "loading"
  BY DEF F!Run, F!UpdateIndex0, F!UpdateIndex1, F!UpdateBlend, Dancing,
     EntryInv
<1>2. /\ num_frames_ \in Nat /\ Present \in 0 .. num_frames_
      /\ Present' = Present
      /\ F!Min({motion_episode_length_buf, num_frames_}) = Present
  BY <1>1, PresentTime DEF Present
<1>3. \A t : Second(t)' = Second(t) /\ Mixed(t)' = Mixed(t)
  BY <1>1 DEF Second, Mixed, First
<1>4. /\ time \in 0 .. Present /\ time \in 0 .. num_frames_
      /\ moved \in BOOLEAN /\ motion_rl_init_done \in BOOLEAN
  BY <1>1, <1>2 DEF TimeInv, LoaderTypes, F!TypeOK
<1>5. PICK old \in 0 .. time :
         /\ old >= Present - IF moved THEN 1 ELSE 2
         /\ index_0_ = First(IF motion_control = "index_0" THEN old ELSE time)
         /\ index_1_ = Second(IF motion_control \in {"index_0", "index_1"}
                              THEN old ELSE time)
         /\ blend_ = Mixed(IF motion_control \in {"index_0", "index_1", "blend"}
                           THEN old ELSE time)
  BY <1>1 DEF MembersInv
<1>6. EntryInv'
  BY <1>1 DEF EntryInv, Dancing
<1>7. Recent' = Recent
  BY <1>2 DEF Recent
\* What a Run does to the members of a pass that has read some of them.
<1>8. ASSUME index_0_ <= index_0_', index_0_' \in Int
      PROVE  ReadInv'
  <2>1. index_0_ \in Int /\ index_0_' \in Int
    BY <1>8 DEF LoaderTypes, F!TypeOK, F!LoaderAssumption
  <2>2. last \in Int /\ pass.index_0 \in Int
    BY DEF LoaderTypes
  <2> QED
    BY <1>1, <1>3, <1>7, <1>8, <2>1, <2>2 DEF ReadInv
<1>9. CASE F!Run
  <2>1. /\ motion_control = "idle" /\ motion_control' = "index_0"
        /\ time' = Present
        /\ UNCHANGED <<index_0_, index_1_, blend_, moved>>
    BY <1>2, <1>9 DEF F!Run
  <2>2. motion_rl_init_done' = TRUE
    BY <1>9 DEF F!Run
  <2>3. F!TypeOK'
    BY <1>1, <2>1, <2>2 DEF LoaderTypes, F!TypeOK
  <2>4. TimeInv'
    BY <1>2, <1>4, <2>1 DEF TimeInv
  <2>5. MembersInv'
    <3>1. time \in 0 .. time' /\ time >= Present - IF moved THEN 1 ELSE 2
      BY <1>1, <1>2, <1>4, <2>1 DEF TimeInv
    <3>2. /\ index_0_' = First(time) /\ index_1_' = Second(time)
          /\ blend_' = Mixed(time)
      BY <1>5, <2>1
    <3> QED
      BY <1>2, <1>3, <2>1, <3>1, <3>2 DEF MembersInv
  <2>6. index_0_ <= index_0_' /\ index_0_' \in Int
    BY <2>1 DEF LoaderTypes, F!TypeOK, F!LoaderAssumption
  <2> QED
    BY <1>1, <1>6, <1>8, <2>3, <2>4, <2>5, <2>6 DEF LoaderTypes
<1>10. CASE F!UpdateIndex0
  <2>1. /\ motion_control = "index_0" /\ motion_control' = "index_1"
        /\ index_0_' = First(time)
        /\ UNCHANGED <<time, index_1_, blend_, moved, motion_rl_init_done>>
    BY <1>4, <1>10, UpdateOfTime DEF F!UpdateIndex0, LoaderTypes
  <2>2. index_0_' \in 0 .. num_frames_ - 1
    BY <1>4, <2>1, UpdateOfTime DEF LoaderTypes
  <2>3. F!TypeOK'
    BY <1>1, <2>1, <2>2 DEF LoaderTypes, F!TypeOK
  <2>4. TimeInv'
    BY <1>1, <1>2, <2>1 DEF TimeInv
  <2>5. MembersInv'
    BY <1>2, <1>3, <1>5, <2>1 DEF MembersInv
  <2>6. index_0_ <= index_0_' /\ index_0_' \in Int
    BY <1>4, <1>5, <2>1 DEF First
  <2> QED
    BY <1>1, <1>6, <1>8, <2>3, <2>4, <2>5, <2>6 DEF LoaderTypes
<1>11. CASE F!UpdateIndex1
  <2>1. index_0_ = First(time)
    BY <1>5, <1>11 DEF F!UpdateIndex1
  <2>2. /\ motion_control = "index_1" /\ motion_control' = "blend"
        /\ index_1_' = Second(time)
        /\ UNCHANGED <<time, index_0_, blend_, moved, motion_rl_init_done>>
    BY <1>4, <1>11, <2>1, UpdateOfTime DEF F!UpdateIndex1, LoaderTypes
  <2>3. index_1_' \in 0 .. num_frames_ - 1
    BY <1>4, <2>2, UpdateOfTime DEF LoaderTypes
  <2>4. F!TypeOK'
    BY <1>1, <2>2, <2>3 DEF LoaderTypes, F!TypeOK
  <2>5. TimeInv'
    BY <1>1, <1>2, <2>2 DEF TimeInv
  <2>6. MembersInv'
    BY <1>2, <1>3, <1>5, <2>2 DEF MembersInv
  <2>7. index_0_ <= index_0_' /\ index_0_' \in Int
    BY <2>2 DEF LoaderTypes, F!TypeOK, F!LoaderAssumption
  <2> QED
    BY <1>1, <1>6, <1>8, <2>4, <2>5, <2>6, <2>7 DEF LoaderTypes
<1>12. CASE F!UpdateBlend
  <2>1. index_0_ = First(time) /\ index_1_ = Second(time)
    BY <1>5, <1>12 DEF F!UpdateBlend
  <2>2. /\ motion_control = "blend" /\ motion_control' \in {"idle", "over"}
        /\ blend_' = Mixed(time)
        /\ UNCHANGED <<time, index_0_, index_1_, motion_rl_init_done>>
    BY <1>4, <1>12, <2>1, UpdateOfTime DEF F!UpdateBlend, LoaderTypes
  <2>3. moved' = TRUE
    BY <1>12 DEF F!UpdateBlend
  <2>4. blend_' \in 0 .. num_frames_ - 1
    BY <1>4, <2>2, UpdateOfTime DEF LoaderTypes
  <2>5. F!TypeOK'
    BY <1>1, <2>2, <2>3, <2>4 DEF LoaderTypes, F!TypeOK
  <2>6. time >= Present - 1
    BY <1>1, <1>2, <1>4, <2>2 DEF TimeInv
  <2>7. TimeInv'
    BY <1>2, <1>4, <2>2, <2>3, <2>6 DEF TimeInv
  <2>8. MembersInv'
    <3>1. time \in 0 .. time
      BY <1>4
    <3> QED
      BY <1>2, <1>3, <2>1, <2>2, <2>3, <2>6, <3>1 DEF MembersInv
  <2>9. index_0_ <= index_0_' /\ index_0_' \in Int
    BY <2>2 DEF LoaderTypes, F!TypeOK, F!LoaderAssumption
  <2> QED
    BY <1>1, <1>6, <1>8, <2>5, <2>7, <2>8, <2>9 DEF LoaderTypes
<1> QED
  BY <1>9, <1>10, <1>11, <1>12

\* A pass begins only when an Update is over since the pass before.
LEMMA LoaderRunModel ==
    ASSUME F!LoaderAssumption, LoaderInv, F!RunModel
    PROVE  LoaderInv'
<1> USE DEF LoaderInv
<1>1. /\ motion_rl' = "begun" /\ moved = TRUE
      /\ motion_rl_init_done
      /\ UNCHANGED <<state, motion_control, motion_rl_init_done, num_frames_,
                     entries, time, index_0_, index_1_, blend_, last>>
  BY DEF F!RunModel, LoaderTypes, F!TypeOK
<1>2. pass' = [entry |-> entries, index_0 |-> 0, index_1 |-> 0, blend |-> 0]
  BY DEF F!RunModel, F!NotRead
<1>3. moved' = (state # "dance")
  BY DEF F!RunModel
<1>4. /\ motion_episode_length_buf \in Nat /\ MaxFrames \in Nat
      /\ num_frames_ \in Nat /\ num_frames_ <= MaxFrames
      /\ entries \in Nat /\ moved' \in BOOLEAN
  BY <1>3 DEF LoaderTypes, F!TypeOK, F!LoaderAssumption
<1>5. motion_episode_length_buf' =
        IF motion_episode_length_buf + 1 <= MaxFrames + 1
        THEN motion_episode_length_buf + 1 ELSE MaxFrames + 1
  BY <1>4, LeastTime DEF F!RunModel
<1>6. /\ Present' \in 0 .. num_frames_ /\ Present \in 0 .. num_frames_
      /\ Present <= Present' /\ Present' <= Present + 1
  BY <1>1, <1>4, <1>5 DEF Present
<1>7. F!TypeOK'
  BY <1>1, <1>4 DEF LoaderTypes, F!TypeOK
<1>8. LoaderTypes'
  BY <1>1, <1>2, <1>4, <1>5, <1>7 DEF LoaderTypes
<1>9. EntryInv'
  BY <1>1, <1>2, <1>4 DEF EntryInv
<1>10. Dancing' <=> Dancing
  BY <1>1 DEF Dancing
<1>11. Dancing => ~moved' /\ time \in Int
  <2>1. Dancing => ~moved'
    BY <1>3, Zenon DEF Dancing
  <2>2. Dancing => time \in 0 .. Present
    BY Zenon DEF TimeInv
  <2> QED
    BY <1>6, <2>1, <2>2
<1>12. TimeInv'
  BY <1>1, <1>6, <1>10, <1>11 DEF TimeInv
<1>13. MembersInv'
  <2> SUFFICES ASSUME Dancing
               PROVE  MembersInv'
    BY <1>10 DEF MembersInv
  <2>1. PICK old \in 0 .. time :
           /\ old >= Present - 1
           /\ index_0_ = First(IF motion_control = "index_0" THEN old ELSE time)
           /\ index_1_ = Second(IF motion_control \in {"index_0", "index_1"}
                                THEN old ELSE time)
           /\ blend_ = Mixed(IF motion_control \in {"index_0", "index_1", "blend"}
                             THEN old ELSE time)
    BY <1>1 DEF MembersInv
  <2>2. \A t : Second(t)' = Second(t) /\ Mixed(t)' = Mixed(t)
    BY <1>1 DEF Second, Mixed, First
  <2>3. old >= Present' - 2
    <3>1. /\ old \in Int /\ Present \in Int /\ Present' \in Int
          /\ old >= Present - 1
      BY <1>6, <1>11, <2>1
    <3>2. Present' <= Present + 1
      BY <1>6
    <3>3. \A a, b, c \in Int : a >= b - 1 /\ c <= b + 1 => a >= c - 2
      OBVIOUS
    <3> QED
      BY <3>1, <3>2, <3>3, Zenon
  <2> QED
    BY <1>1, <1>11, <2>1, <2>2, <2>3 DEF MembersInv
<1>14. ReadInv'
  BY <1>1, <1>10 DEF ReadInv
<1> QED
  BY <1>8, <1>9, <1>12, <1>13, <1>14

\* What a pass reads is of a recent time; it goes to the end with what it read.
LEMMA LoaderRead ==
    ASSUME F!LoaderAssumption, LoaderInv,
           F!ReadIndex0 \/ F!ReadIndex1 \/ F!ReadBlend \/ F!Return
    PROVE  LoaderInv'
<1> USE DEF LoaderInv
<1>1. UNCHANGED <<state, motion_control, motion_rl_init_done, num_frames_,
                  entries, motion_episode_length_buf, time, index_0_, index_1_,
                  blend_, moved>>
  BY DEF F!ReadIndex0, F!ReadIndex1, F!ReadBlend, F!Return
<1>2. TimeInv' /\ MembersInv'
  BY <1>1
     DEF TimeInv, MembersInv, Dancing, Present, First, Second, Mixed
<1>3. {index_0_, index_1_, blend_} \subseteq Int
  BY DEF LoaderTypes, F!TypeOK, F!LoaderAssumption
<1>4. motion_rl' \in {"idle", "begun", "reading", "between", "read"}
  BY DEF F!ReadIndex0, F!ReadIndex1, F!ReadBlend, F!Return
<1>5. F!TypeOK'
  BY <1>1, <1>4 DEF LoaderTypes, F!TypeOK
<1>6. /\ pass' \in [entry : Nat, index_0 : Int, index_1 : Int, blend : Int]
      /\ pass'.entry = pass.entry
      /\ last' \in Int
  BY <1>3 DEF LoaderTypes, F!ReadIndex0, F!ReadIndex1, F!ReadBlend, F!Return
<1>7. LoaderTypes' /\ EntryInv'
  BY <1>1, <1>5, <1>6 DEF LoaderTypes, EntryInv
<1>8. ASSUME Dancing
      PROVE  /\ \E t \in Recent : index_0_ = First(t)
             /\ \E t \in Recent : index_1_ = Second(t)
             /\ \E t \in Recent : blend_ = Mixed(t)
  <2>1. time \in 0 .. Present /\ Present \in Int
    BY <1>8, PresentTime DEF TimeInv
  <2>2. PICK old \in 0 .. time :
           /\ old >= Present - IF moved THEN 1 ELSE 2
           /\ index_0_ = First(IF motion_control = "index_0" THEN old ELSE time)
           /\ index_1_ = Second(IF motion_control \in {"index_0", "index_1"}
                                THEN old ELSE time)
           /\ blend_ = Mixed(IF motion_control \in {"index_0", "index_1", "blend"}
                             THEN old ELSE time)
    BY <1>8 DEF MembersInv
  <2>3. old \in Recent /\ time \in Recent
    BY <2>1, <2>2 DEF Recent
  <2> QED
    BY <2>2, <2>3
<1>9. /\ Dancing' <=> Dancing
      /\ Recent' = Recent
      /\ \A t : Second(t)' = Second(t) /\ Mixed(t)' = Mixed(t)
  BY <1>1 DEF Dancing, Recent, Present, Second, Mixed, First
<1>10. CASE F!ReadIndex0
  <2>1. /\ motion_rl' = "reading" /\ pass'.index_0 = index_0_
        /\ UNCHANGED last
    BY <1>10 DEF F!ReadIndex0, LoaderTypes
  <2> QED
    BY <1>1, <1>2, <1>3, <1>7, <1>8, <1>9, <2>1 DEF ReadInv
<1>11. CASE F!ReadIndex1
  <2>1. /\ motion_rl = "reading" /\ motion_rl' = "between"
        /\ pass'.index_0 = pass.index_0 /\ pass'.index_1 = index_1_
        /\ UNCHANGED last
    BY <1>11 DEF F!ReadIndex1, LoaderTypes
  <2> QED
    BY <1>1, <1>2, <1>6, <1>7, <1>8, <1>9, <2>1 DEF ReadInv
<1>12. CASE F!ReadBlend
  <2>1. /\ motion_rl = "between" /\ motion_rl' = "read"
        /\ pass'.index_0 = pass.index_0 /\ pass'.index_1 = pass.index_1
        /\ pass'.blend = blend_
        /\ UNCHANGED last
    BY <1>12 DEF F!ReadBlend, LoaderTypes
  <2> QED
    BY <1>1, <1>2, <1>6, <1>7, <1>8, <1>9, <2>1 DEF ReadInv
<1>13. CASE F!Return
  <2>1. /\ motion_rl' = "idle"
        /\ last' = IF motion_rl = "read" /\ pass.entry = entries
                   THEN pass.index_0 ELSE last
    BY <1>13 DEF F!Return
  <2> QED
    BY <1>1, <1>2, <1>7, <1>9, <2>1 DEF ReadInv
<1> QED
  BY <1>10, <1>11, <1>12, <1>13

LEMMA LoaderSteps == Spec => F!Spec
<1>1. Init => F!Init
  BY DEF Init
<1>2. [Next]_vars => [F!Next]_(F!vars)
  <2>1. UNCHANGED motion_vars => UNCHANGED F!vars
    BY DEF motion_vars, F!vars
  <2>2. UNCHANGED vars => UNCHANGED motion_vars
    BY DEF vars
  <2> QED
    BY <2>1, <2>2, OthersStay DEF Next
<1> QED
  BY <1>1, <1>2, PTL DEF Spec, F!Spec

\* Although a pass reads the two indices and the blend of the motion one after
\* the other while the control thread writes them, the place in the motion that
\* it observes is at most two frames from that of its own time, and never before
\* that of the pass before: for motions of every length and any number of
\* entries.
THEOREM MotionLoaderSafeHolds == Spec => []MotionLoaderSafe
<1>1. F!LoaderAssumption
  BY LoaderAssumption
<1>2. F!Init => LoaderInv
  BY <1>1, LoaderInit
<1>3. LoaderInv /\ [F!Next]_(F!vars) => LoaderInv'
  <2> SUFFICES ASSUME LoaderInv, [F!Next]_(F!vars) PROVE LoaderInv'
    OBVIOUS
  <2>1. CASE F!Next
    BY <1>1, <2>1, LoaderEntry, LoaderLoad, LoaderRun, LoaderRunModel,
       LoaderRead DEF F!Next
  <2>2. CASE UNCHANGED F!vars
    BY <2>2
       DEF F!vars, LoaderInv, LoaderTypes, F!TypeOK, EntryInv, TimeInv,
       MembersInv, ReadInv, Dancing, Recent, Present, First, Second, Mixed
  <2> QED
    BY <2>1, <2>2
<1>4. LoaderInv => MotionLoaderSafe
  <2> SUFFICES ASSUME LoaderInv PROVE F!MotionLoaderSafe
    BY DEF MotionLoaderSafe
  <2> USE DEF LoaderInv
  <2>1. F!Own => Dancing /\ motion_rl = "read" /\ pass.entry = entries
    BY DEF F!Own, Dancing, EntryInv
  <2>2. F!MotionGoesOn
    BY <2>1 DEF F!MotionGoesOn, ReadInv
  <2>3. F!PlaceIsNear
    <3> SUFFICES ASSUME F!Own
                 PROVE  F!PlaceIsNear
      BY Zenon DEF F!PlaceIsNear
    <3>1. PICK a \in Recent, b \in Recent, c \in Recent :
             /\ pass.index_0 = First(a) /\ pass.index_1 = Second(b)
             /\ pass.blend = Mixed(c)
      BY <2>1 DEF ReadInv
    <3>2. /\ num_frames_ \in Nat /\ num_frames_ > 1
          /\ Present \in 0 .. num_frames_
      BY <1>1, PresentTime DEF LoaderTypes, F!TypeOK
    <3>3. F!Frame(motion_episode_length_buf) = Present * (num_frames_ - 1)
      BY <1>1, PresentTime DEF F!Frame
    <3>4. /\ a \in 0 .. Present /\ b \in 0 .. Present /\ c \in 0 .. Present
          /\ a >= Present - 2 /\ b >= Present - 2 /\ c >= Present - 2
      BY DEF Recent
    <3>5. (First(a) * num_frames_ + (Second(b) - First(a)) * Mixed(c))
            - Present * (num_frames_ - 1)
              \in -2 * num_frames_ .. 2 * num_frames_
      BY <3>2, <3>4, NearPlace
    <3>6. (pass.index_0 * num_frames_
             + (pass.index_1 - pass.index_0) * pass.blend)
            - F!Frame(motion_episode_length_buf)
              \in -2 * num_frames_ .. 2 * num_frames_
      BY <3>1, <3>3, <3>5, Zenon
    <3> QED
      BY <3>6 DEF F!PlaceIsNear
  <2> QED
    BY <2>2, <2>3 DEF LoaderTypes, F!MotionLoaderSafe
<1> QED
  BY <1>2, <1>3, <1>4, LoaderSteps, PTL DEF Spec, F!Spec
-----------------------------------------------------------------------------
(* The simulated delay of the actions, for every set of delays with a      *)
(* longest one, every length of the history and every backlog.             *)

Waiting == [left : Nat, age : Nat, dirty : BOOLEAN, overtaken : BOOLEAN]
Released == [overtaken : BOOLEAN, dirty : BOOLEAN]

DelayTypes ==
    /\ D!TypeOK
    /\ action_delay_buffer_ \in Seq(Waiting)
    /\ output_dof_queue \in Seq(Released)
    /\ actions_history \in [1 .. HistoryLength -> {"own", "dirty", "zero"}]
    /\ delay_rl # "idle" =>
          Len(action_delay_buffer_) + Len(output_dof_queue) < MaxBacklog
    /\ delay_rl = "push" => release_time # 0

\* An action whose time is to come is early enough; one behind it is younger,
\* and those whose time has come wait behind one whose time is to come, but for
\* the actions that the next drain finds due.
YoungerBehind(buffer) ==
    /\ \A i \in 1 .. Len(buffer) :
          /\ buffer[i].age <= D!Longest
          /\ buffer[i].left > 0 => buffer[i].left + buffer[i].age <= D!Longest
    /\ \A i, j \in 1 .. Len(buffer) : i <= j => buffer[j].age <= buffer[i].age
HeadWaits(buffer) == buffer # <<>> => buffer[1].left > 0
WaitingInv ==
    /\ YoungerBehind(action_delay_buffer_)
    /\ cycle \in {"keys", "clear", "clear_history"} =>
          HeadWaits(action_delay_buffer_)

\* The delay becomes 0 only where the buffer is emptied before another action is
\* computed, or by an R, which makes all that wait, and the pass, dirty.
OvertakenIsDirty(flags) ==
    \A i \in 1 .. Len(flags) : flags[i].overtaken => flags[i].dirty
AllDirty(buffer) == \A i \in 1 .. Len(buffer) : buffer[i].dirty
OvertakenInv ==
    /\ OvertakenIsDirty(action_delay_buffer_)
    /\ OvertakenIsDirty(output_dof_queue)
    /\ current_delay_ms_ = 0 =>
          /\ delay_rl # "clear" => AllDirty(action_delay_buffer_)
          /\ delay_rl = "push" => pass_dirty

\* After an R a pass that it found under way puts its action into the history,
\* and then into the buffer, once.
OneDirty(buffer) ==
    \A i, j \in 1 .. Len(buffer) : buffer[i].dirty /\ buffer[j].dirty => i = j
NoneDirty(buffer) == \A i \in 1 .. Len(buffer) : ~buffer[i].dirty
OneDirtyIn(history) ==
    \A i, j \in 1 .. HistoryLength :
        history[i] = "dirty" /\ history[j] = "dirty" => i = j
NoneDirtyIn(history) == \A i \in 1 .. HistoryLength : history[i] # "dirty"
DirtyInv ==
    /\ cycle # "clear" =>
          /\ OneDirty(action_delay_buffer_)
          /\ pass_dirty /\ delay_rl # "idle" => NoneDirty(action_delay_buffer_)
    /\ cycle \notin {"clear", "clear_history"} =>
          /\ OneDirtyIn(actions_history)
          /\ pass_dirty /\ delay_rl \in {"resample", "clear", "forward"} =>
                NoneDirtyIn(actions_history)

DelayInv == DelayTypes /\ WaitingInv /\ OvertakenInv /\ DirtyInv

LEMMA LongestDelay ==
    ASSUME D!DelayAssumption
    PROVE  D!Longest \in Delays /\ \A d \in Delays : d <= D!Longest
  BY DEF D!DelayAssumption, D!Longest, D!Max

\* A function on the places of a sequence is a sequence of the same length.
LEMMA EachOfBuffer ==
    ASSUME NEW buffer \in Seq(Waiting), NEW mapped,
           mapped = [i \in DOMAIN buffer |-> mapped[i]],
           \A i \in 1 .. Len(buffer) : mapped[i] \in Waiting
    PROVE  mapped \in Seq(Waiting) /\ Len(mapped) = Len(buffer)
<1>1. DOMAIN buffer = 1 .. Len(buffer) /\ Len(buffer) \in Nat
  OBVIOUS
<1>2. mapped \in [1 .. Len(buffer) -> Waiting]
  BY <1>1
<1> QED
  BY <1>1, <1>2

\* A place of the buffer a cycle later.
Later(action) ==
    [action EXCEPT !.left = IF @ > 0 THEN @ - 1 ELSE 0,
                   !.age = IF @ <= D!Longest THEN @ + 1 ELSE @]

LEMMA LaterAction ==
    ASSUME D!Longest \in Nat, NEW action \in Waiting
    PROVE  /\ Later(action) \in Waiting
           /\ Later(action).dirty = action.dirty
           /\ Later(action).overtaken = action.overtaken
           /\ action.left > 0 => Later(action).left = action.left - 1
           /\ Later(action).left > 0 => action.left > 0
           /\ action.age <= D!Longest => Later(action).age = action.age + 1
<1>1. action.left \in Nat /\ action.age \in Nat
  BY DEF Waiting
<1> DEFINE l == IF action.left > 0 THEN action.left - 1 ELSE 0
           a == IF action.age <= D!Longest THEN action.age + 1 ELSE action.age
<1>2. l \in Nat /\ a \in Nat
  BY <1>1
<1>3. /\ Later(action).left = l /\ Later(action).age = a
      /\ Later(action).dirty = action.dirty
      /\ Later(action).overtaken = action.overtaken
  BY DEF Later, Waiting
<1>4. Later(action) \in Waiting
  <2>1. Later(action) = [action EXCEPT !.left = l, !.age = a]
    BY DEF Later
  <2> HIDE DEF l, a
  <2> QED
    BY <1>2, <2>1 DEF Waiting
<1> QED
  BY <1>1, <1>3, <1>4

LEMMA TickedBuffer ==
    ASSUME D!DelayAssumption, D!Tick, action_delay_buffer_ \in Seq(Waiting)
    PROVE  /\ action_delay_buffer_' \in Seq(Waiting)
           /\ Len(action_delay_buffer_') = Len(action_delay_buffer_)
           /\ \A i \in 1 .. Len(action_delay_buffer_) :
                 action_delay_buffer_'[i] = Later(action_delay_buffer_[i])
<1>1. D!Longest \in Nat
  BY LongestDelay DEF D!DelayAssumption
<1>2. action_delay_buffer_' =
        [i \in DOMAIN action_delay_buffer_ |-> Later(action_delay_buffer_[i])]
  BY DEF D!Tick, Later
<1>3. \A i \in 1 .. Len(action_delay_buffer_) :
         /\ i \in DOMAIN action_delay_buffer_
         /\ action_delay_buffer_[i] \in Waiting
  OBVIOUS
<1>4. \A i \in 1 .. Len(action_delay_buffer_) :
         action_delay_buffer_'[i] = Later(action_delay_buffer_[i])
  BY <1>2, <1>3
<1>5. \A i \in 1 .. Len(action_delay_buffer_) :
         action_delay_buffer_'[i] \in Waiting
  BY <1>1, <1>3, <1>4, LaterAction
<1>6. action_delay_buffer_' =
        [i \in DOMAIN action_delay_buffer_ |-> action_delay_buffer_'[i]]
  BY <1>2
<1> QED
  BY <1>4, <1>5, <1>6, EachOfBuffer

\* At the end of a cycle no action waits that is due but for one before it.
LEMMA TickKeeps ==
    ASSUME D!DelayAssumption, DelayInv, D!Tick,
           cycle \in {"keys", "clear", "clear_history"}
    PROVE  /\ action_delay_buffer_' \in Seq(Waiting)
           /\ Len(action_delay_buffer_') = Len(action_delay_buffer_)
           /\ YoungerBehind(action_delay_buffer_')
           /\ OvertakenIsDirty(action_delay_buffer_')
           /\ AllDirty(action_delay_buffer_) => AllDirty(action_delay_buffer_')
           /\ OneDirty(action_delay_buffer_) => OneDirty(action_delay_buffer_')
           /\ NoneDirty(action_delay_buffer_) => NoneDirty(action_delay_buffer_')
<1> DEFINE old == action_delay_buffer_
           new == action_delay_buffer_'
<1>1. old \in Seq(Waiting) /\ YoungerBehind(old) /\ HeadWaits(old)
      /\ OvertakenIsDirty(old)
  BY DEF DelayInv, DelayTypes, WaitingInv, OvertakenInv
<1>2. /\ new \in Seq(Waiting) /\ Len(new) = Len(old)
      /\ \A i \in 1 .. Len(old) : new[i] = Later(old[i])
  BY <1>1, TickedBuffer
<1>3. D!Longest \in Nat
  BY LongestDelay DEF D!DelayAssumption
<1>4. \A i \in 1 .. Len(old) :
         /\ old[i].left \in Nat /\ old[i].age \in Nat
         /\ new[i].left \in Nat /\ new[i].age \in Nat
  <2>1. \A i \in 1 .. Len(old) : old[i] \in Waiting /\ new[i] \in Waiting
    BY <1>1, <1>2
  <2> QED
    BY <2>1 DEF Waiting
<1>5. ASSUME NEW i \in 1 .. Len(old)
      PROVE  /\ new[i].dirty = old[i].dirty
             /\ new[i].overtaken = old[i].overtaken
             /\ old[i].left > 0 => new[i].left = old[i].left - 1
             /\ new[i].left > 0 => old[i].left > 0
             /\ new[i].age = old[i].age + 1
  <2>1. old[i] \in Waiting /\ new[i] = Later(old[i])
    BY <1>1, <1>2
  <2>2. old[i].age <= D!Longest
    BY <1>1 DEF YoungerBehind
  <2> HIDE DEF old, new
  <2> QED
    BY <1>3, <2>1, <2>2, LaterAction
<1> HIDE DEF old, new
<1>6. \A i \in 1 .. Len(old) : old[i].age < D!Longest
  <2> SUFFICES ASSUME NEW i \in 1 .. Len(old)
               PROVE  old[i].age < D!Longest
    OBVIOUS
  <2>1. 1 \in 1 .. Len(old) /\ 1 <= i /\ old # <<>>
    BY <1>1
  <2>2. old[1].left > 0 /\ old[1].left + old[1].age <= D!Longest
    BY <1>1, <2>1 DEF HeadWaits, YoungerBehind
  <2>3. old[i].age <= old[1].age
    BY <1>1, <2>1 DEF YoungerBehind
  <2> QED
    BY <1>3, <1>4, <2>1, <2>2, <2>3
<1>7. YoungerBehind(new)
  <2>1. ASSUME NEW i \in 1 .. Len(old)
        PROVE  /\ new[i].age <= D!Longest
               /\ new[i].left > 0 => new[i].left + new[i].age <= D!Longest
    <3>1. old[i].left > 0 => old[i].left + old[i].age <= D!Longest
      BY <1>1 DEF YoungerBehind
    <3>2. /\ old[i].left \in Nat /\ old[i].age \in Nat
          /\ old[i].left > 0 => new[i].left = old[i].left - 1
          /\ new[i].left > 0 => old[i].left > 0
          /\ new[i].age = old[i].age + 1
          /\ old[i].age < D!Longest
      BY <1>4, <1>5, <1>6
    <3> QED
      BY <1>3, <3>1, <3>2
  <2>2. ASSUME NEW i \in 1 .. Len(old), NEW j \in 1 .. Len(old), i <= j
        PROVE  new[j].age <= new[i].age
    <3>1. old[j].age <= old[i].age
      BY <1>1, <2>2 DEF YoungerBehind
    <3> QED
      BY <1>4, <1>5, <3>1
  <2> QED
    BY <1>2, <2>1, <2>2 DEF YoungerBehind
<1> QED
  BY <1>1, <1>2, <1>5, <1>7
     DEF OvertakenIsDirty, AllDirty, OneDirty, NoneDirty, old, new

\* A set of numbers that is not empty has a least one.
LEMMA Least ==
    ASSUME NEW S \in SUBSET Nat, S # {}
    PROVE  \E i \in S : \A j \in S : i <= j
<1> DEFINE less == OpToRel(<, Nat)
<1>1. \A i, j \in Nat : <<i, j>> \in less <=> i < j
  BY DEF OpToRel
<1>2. IsWellFoundedOn(less, Nat)
  BY NatLessThanWellFounded, Zenon
<1> HIDE DEF less
<1>3. PICK i \in S : \A j \in S : <<j, i>> \notin less
  BY <1>2, WFMin
<1>4. ASSUME NEW j \in S PROVE i <= j
  <2>1. i \in Nat /\ j \in Nat /\ ~(j < i)
    BY <1>1, <1>3
  <2> QED
    BY <2>1
<1> QED
  BY <1>4

\* What is released stops where an action waits whose time is to come.
LEMMA DueOf ==
    ASSUME NEW buffer \in Seq(Waiting)
    PROVE  /\ D!Due(buffer) \in 0 .. Len(buffer)
           /\ D!Due(buffer) < Len(buffer) => buffer[D!Due(buffer) + 1].left > 0
<1> DEFINE waits == {i \in DOMAIN buffer : buffer[i].left > 0}
<1>1. Len(buffer) \in Nat /\ DOMAIN buffer = 1 .. Len(buffer)
  OBVIOUS
<1>2. CASE waits = {}
  BY <1>1, <1>2 DEF D!Due
<1>3. CASE waits # {}
  <2> DEFINE i0 == CHOOSE i \in waits : \A j \in waits : i <= j
  <2>1. waits \in SUBSET Nat
    BY <1>1
  <2> HIDE DEF waits
  <2>2. \E i \in waits : \A j \in waits : i <= j
    BY <1>3, <2>1, Least
  <2>3. i0 \in waits
    BY <2>2
  <2> HIDE DEF i0
  <2>4. i0 \in 1 .. Len(buffer) /\ buffer[i0].left > 0
    BY <1>1, <2>3 DEF waits
  <2>5. D!Due(buffer) = i0 - 1
    BY <1>3, Zenon DEF D!Due, waits, i0
  <2>6. i0 - 1 + 1 = i0 /\ i0 - 1 \in 0 .. Len(buffer)
    BY <1>1, <2>4
  <2> QED
    BY <2>4, <2>5, <2>6
<1> QED
  BY <1>2, <1>3

\* The drain moves the first actions of the buffer to the queue.
LEMMA DrainKeeps ==
    ASSUME D!DelayAssumption, DelayInv, D!DrainActionDelayBuffer
    PROVE  DelayInv'
<1> DEFINE old == action_delay_buffer_
           new == action_delay_buffer_'
           flags == output_dof_queue
           n == D!Due(old)
           out == [i \in 1 .. n |-> [overtaken |-> old[i].overtaken,
                                     dirty |-> old[i].dirty]]
<1>1. /\ cycle = "drain" /\ cycle' = "keys"
      /\ output_dof_queue' = flags \o out
      /\ new = SubSeq(old, n + 1, Len(old))
      /\ UNCHANGED <<delay_rl_init_done, delay_simulation_running, delayed,
                     delay_rl, was_rl_init_done_, pass_dirty, release_time,
                     current_delay_ms_, actions_history>>
  BY DEF D!DrainActionDelayBuffer, D!policy
<1>2. old \in Seq(Waiting) /\ flags \in Seq(Released)
  BY DEF DelayInv, DelayTypes
<1>3. /\ n \in 0 .. Len(old) /\ Len(old) \in Nat /\ Len(flags) \in Nat
      /\ n < Len(old) => old[n + 1].left > 0
  BY <1>2, DueOf
<1>4. \A i \in 1 .. Len(old) : old[i] \in Waiting
  BY <1>2
<1> HIDE DEF old, new, flags, n
<1>5. /\ new \in Seq(Waiting) /\ Len(new) = Len(old) - n
      /\ \A i \in 1 .. Len(old) - n : new[i] = old[n + i]
  <2>1. /\ n + 1 \in Int /\ Len(old) \in Int
        /\ \A i \in n + 1 .. Len(old) : old[i] \in Waiting
    BY <1>3, <1>4
  <2>2. /\ new \in Seq(Waiting)
        /\ Len(new) = IF n + 1 <= Len(old) THEN Len(old) - (n + 1) + 1 ELSE 0
        /\ \A i \in 1 .. Len(old) - (n + 1) + 1 : new[i] = old[n + 1 + i - 1]
    BY <1>1, <2>1, SubSeqProperties
  <2> QED
    BY <1>3, <2>2
<1>6. /\ out \in Seq(Released) /\ Len(out) = n
      /\ \A i \in 1 .. n : /\ out[i].overtaken = old[i].overtaken
                           /\ out[i].dirty = old[i].dirty
  <2>1. \A i \in 1 .. n : i \in 1 .. Len(old)
    BY <1>3
  <2>2. out \in [1 .. n -> Released]
    BY <1>4, <2>1 DEF Waiting, Released
  <2> QED
    BY <1>3, <2>2
<1> HIDE DEF out
<1>7. /\ output_dof_queue' \in Seq(Released)
      /\ Len(output_dof_queue') = Len(flags) + n
      /\ \A i \in 1 .. Len(flags) + n :
            output_dof_queue'[i] = IF i <= Len(flags) THEN flags[i]
                                   ELSE out[i - Len(flags)]
  BY <1>1, <1>2, <1>6, ConcatProperties
<1>8. DelayTypes'
  <2>1. Len(new) + Len(output_dof_queue') = Len(old) + Len(flags)
    BY <1>3, <1>5, <1>7
  <2>2. D!TypeOK'
    BY <1>1, <2>1 DEF DelayInv, DelayTypes, D!TypeOK, old, new, flags
  <2> QED
    BY <1>1, <1>5, <1>7, <2>1, <2>2
       DEF DelayInv, DelayTypes, old, new, flags
<1>9. \A i \in 1 .. Len(new) :
         /\ n + i \in 1 .. Len(old) /\ new[i] = old[n + i]
         /\ \A j \in 1 .. Len(new) : i <= j => n + i <= n + j
  BY <1>3, <1>5
<1>10. WaitingInv'
  <2>1. YoungerBehind(old)
    BY DEF DelayInv, WaitingInv, old
  <2>2. YoungerBehind(new)
    BY <1>9, <2>1 DEF YoungerBehind
  <2>3. HeadWaits(new)
    <3>1. ASSUME new # <<>> PROVE new[1].left > 0
      <4>1. 1 \in 1 .. Len(old) - n /\ n < Len(old)
        BY <1>3, <1>5, <3>1
      <4> QED
        BY <1>3, <1>5, <4>1
    <3> QED
      BY <3>1 DEF HeadWaits
  <2> QED
    BY <2>2, <2>3 DEF WaitingInv, new
<1>11. OvertakenInv'
  <2>1. OvertakenIsDirty(old) /\ OvertakenIsDirty(flags)
    BY DEF DelayInv, OvertakenInv, old, flags
  <2>2. OvertakenIsDirty(new)
    BY <1>9, <2>1 DEF OvertakenIsDirty
  <2>3. OvertakenIsDirty(output_dof_queue')
    <3> SUFFICES ASSUME NEW i \in 1 .. Len(flags) + n,
                        output_dof_queue'[i].overtaken
                 PROVE  output_dof_queue'[i].dirty
      BY <1>7 DEF OvertakenIsDirty
    <3>1. CASE i <= Len(flags)
      <4>1. i \in 1 .. Len(flags) /\ output_dof_queue'[i] = flags[i]
        BY <1>3, <1>7, <3>1
      <4> QED
        BY <2>1, <4>1 DEF OvertakenIsDirty
    <3>2. CASE ~(i <= Len(flags))
      <4>1. /\ i - Len(flags) \in 1 .. n
            /\ i - Len(flags) \in 1 .. Len(old)
            /\ output_dof_queue'[i] = out[i - Len(flags)]
        BY <1>3, <1>7, <3>2
      <4> QED
        BY <1>6, <2>1, <4>1 DEF OvertakenIsDirty
    <3> QED
      BY <3>1, <3>2
  <2>4. AllDirty(old) => AllDirty(new)
    BY <1>9 DEF AllDirty
  <2> QED
    BY <1>1, <2>2, <2>3, <2>4 DEF DelayInv, OvertakenInv, old, new
<1>12. DirtyInv'
  <2>1. OneDirty(old) => OneDirty(new)
    <3> SUFFICES ASSUME OneDirty(old),
                        NEW i \in 1 .. Len(new), NEW j \in 1 .. Len(new),
                        new[i].dirty, new[j].dirty
                 PROVE  i = j
      BY DEF OneDirty
    <3>1. n + i = n + j
      BY <1>9 DEF OneDirty
    <3> QED
      BY <1>3, <3>1
  <2>2. NoneDirty(old) => NoneDirty(new)
    BY <1>9 DEF NoneDirty
  <2> QED
    BY <1>1, <2>1, <2>2
       DEF DelayInv, DirtyInv, OneDirtyIn, NoneDirtyIn, old, new
<1> QED
  BY <1>8, <1>10, <1>11, <1>12 DEF DelayInv

\* An empty buffer, and a buffer or a history in which only marks change.
LEMMA NothingWaits ==
    ASSUME NEW buffer, buffer = <<>>
    PROVE  /\ buffer \in Seq(Waiting) /\ Len(buffer) = 0
           /\ YoungerBehind(buffer) /\ HeadWaits(buffer)
           /\ OvertakenIsDirty(buffer) /\ AllDirty(buffer)
           /\ OneDirty(buffer) /\ NoneDirty(buffer)
<1>1. buffer \in Seq(Waiting) /\ Len(buffer) = 0 /\ 1 .. 0 = {}
  OBVIOUS
<1> QED
  BY <1>1 DEF YoungerBehind, HeadWaits, OvertakenIsDirty, AllDirty, OneDirty,
     NoneDirty

LEMMA MarkedBuffer ==
    ASSUME NEW old \in Seq(Waiting), NEW new,
           new = [i \in DOMAIN old |-> new[i]],
           \A i \in 1 .. Len(old) :
              /\ new[i] \in Waiting
              /\ new[i].left = old[i].left /\ new[i].age = old[i].age
    PROVE  /\ new \in Seq(Waiting) /\ Len(new) = Len(old)
           /\ YoungerBehind(old) => YoungerBehind(new)
           /\ HeadWaits(old) => HeadWaits(new)
<1>1. new \in Seq(Waiting) /\ Len(new) = Len(old) /\ Len(old) \in Nat
  <2>1. \A i \in 1 .. Len(old) : new[i] \in Waiting
    OBVIOUS
  <2>2. new \in Seq(Waiting) /\ Len(new) = Len(old)
    BY <2>1, EachOfBuffer, Zenon
  <2> QED
    BY <2>2
<1>2. YoungerBehind(old) => YoungerBehind(new)
  BY <1>1 DEF YoungerBehind
<1>3. HeadWaits(old) => HeadWaits(new)
  <2> SUFFICES ASSUME HeadWaits(old), new # <<>>
               PROVE  new[1].left > 0
    BY DEF HeadWaits
  <2>1. Len(old) # 0
    BY <1>1
  <2>2. old # <<>> /\ 1 \in 1 .. Len(old)
    BY <1>1, <2>1
  <2> QED
    BY <2>2 DEF HeadWaits
<1> QED
  BY <1>1, <1>2, <1>3

LEMMA ZeroHistory ==
    ASSUME D!DelayAssumption
    PROVE  /\ D!Zeros \in [1 .. HistoryLength -> {"own", "dirty", "zero"}]
           /\ Len(D!Zeros) = HistoryLength
           /\ OneDirtyIn(D!Zeros) /\ NoneDirtyIn(D!Zeros)
<1>1. HistoryLength \in Nat
  BY DEF D!DelayAssumption
<1>2. D!Zeros \in [1 .. HistoryLength -> {"own", "dirty", "zero"}]
  BY DEF D!Zeros
<1>3. Len(D!Zeros) = HistoryLength
  BY <1>1, <1>2
<1> QED
  BY <1>2, <1>3 DEF D!Zeros, OneDirtyIn, NoneDirtyIn

LEMMA DelayInit ==
    ASSUME D!DelayAssumption, D!Init
    PROVE  DelayInv
<1>1. /\ delay_rl_init_done = FALSE /\ delay_simulation_running = TRUE
      /\ delayed = FALSE /\ cycle = "state" /\ delay_rl = "idle"
      /\ was_rl_init_done_ = FALSE /\ pass_dirty = FALSE /\ release_time = 0
      /\ current_delay_ms_ = 0 /\ action_delay_buffer_ = <<>>
      /\ output_dof_queue = <<>> /\ actions_history = D!Zeros
  BY DEF D!Init
<1>2. MaxBacklog \in Nat
  BY DEF D!DelayAssumption
<1>3. D!TypeOK
  <2>1. /\ Len(actions_history) = HistoryLength
        /\ Len(action_delay_buffer_) + Len(output_dof_queue) <= MaxBacklog
    BY <1>1, <1>2, ZeroHistory
  <2> QED
    BY <1>1, <2>1, Zenon DEF D!TypeOK
<1>4. DelayTypes
  BY <1>1, <1>3, ZeroHistory DEF DelayTypes
<1>5. OvertakenIsDirty(output_dof_queue)
  BY <1>1 DEF OvertakenIsDirty
<1> QED
  BY <1>1, <1>4, <1>5, NothingWaits, ZeroHistory
     DEF DelayInv, WaitingInv, OvertakenInv, DirtyInv

\* The steps that leave the actions alone, but for emptying the buffer.
LEMMA SimpleStepsKeep ==
    ASSUME D!DelayAssumption, DelayInv,
           \/ D!Exit \/ D!Enter \/ D!Run \/ D!ResetClear
           \/ D!Off \/ D!RunModel \/ D!Resample \/ D!FirstClear
    PROVE  DelayInv'
<1> USE DEF DelayInv
<1>1. /\ D!TypeOK /\ MaxBacklog \in Nat /\ HistoryLength \in Nat
      /\ Len(output_dof_queue) \in Nat /\ Len(action_delay_buffer_) \in Nat
  BY DEF DelayTypes, D!DelayAssumption
<1>2. \/ /\ UNCHANGED action_delay_buffer_
         /\ cycle' \in {cycle, "state", "drain"}
      \/ action_delay_buffer_' = <<>>
  BY DEF D!Exit, D!Enter, D!Run, D!ResetClear, D!Off, D!RunModel, D!Resample,
     D!FirstClear, D!control, D!actions
<1>3. /\ action_delay_buffer_' \in Seq(Waiting)
      /\ Len(action_delay_buffer_') <= Len(action_delay_buffer_)
      /\ WaitingInv' /\ OvertakenIsDirty(action_delay_buffer_')
      /\ cycle # "clear" => OneDirty(action_delay_buffer_')
  <2>1. CASE UNCHANGED action_delay_buffer_
               /\ cycle' \in {cycle, "state", "drain"}
    BY <1>1, <2>1 DEF DelayTypes, WaitingInv, OvertakenInv, DirtyInv
  <2>2. CASE action_delay_buffer_' = <<>>
    BY <1>1, <2>2, NothingWaits DEF WaitingInv
  <2> QED
    BY <1>2, <2>1, <2>2
<1>4. /\ output_dof_queue' \in Seq(Released)
      /\ Len(output_dof_queue') <= Len(output_dof_queue)
      /\ OvertakenIsDirty(output_dof_queue')
  <2>1. CASE UNCHANGED output_dof_queue
    BY <1>1, <2>1 DEF DelayTypes, OvertakenInv
  <2>2. CASE output_dof_queue' = <<>>
    BY <1>1, <2>2 DEF OvertakenIsDirty
  <2>3. CASE output_dof_queue # <<>>
               /\ output_dof_queue' = Tail(output_dof_queue)
    <3>1. /\ output_dof_queue' \in Seq(Released)
          /\ Len(output_dof_queue') = Len(output_dof_queue) - 1
          /\ \A i \in 1 .. Len(output_dof_queue') :
                /\ i + 1 \in 1 .. Len(output_dof_queue)
                /\ output_dof_queue'[i] = output_dof_queue[i + 1]
      BY <2>3 DEF DelayTypes
    <3> QED
      BY <1>1, <3>1 DEF OvertakenInv, OvertakenIsDirty
  <2> QED
    BY <2>1, <2>2, <2>3
       DEF D!Exit, D!Enter, D!Run, D!ResetClear, D!Off, D!RunModel,
           D!Resample, D!FirstClear, D!actions
<1>5. /\ \/ UNCHANGED actions_history
         \/ actions_history' = D!Zeros
      /\ Len(actions_history') = HistoryLength
      /\ actions_history' \in [1 .. HistoryLength -> {"own", "dirty", "zero"}]
  <2>1. \/ UNCHANGED actions_history
        \/ actions_history' = D!Zeros
    BY DEF D!Exit, D!Enter, D!Run, D!ResetClear, D!Off, D!RunModel,
       D!Resample, D!FirstClear, D!actions
  <2> QED
    BY <1>1, <2>1, ZeroHistory DEF DelayTypes, D!TypeOK
<1>6. Len(action_delay_buffer_') \in Nat /\ Len(output_dof_queue') \in Nat
  BY <1>3, <1>4
<1>7. /\ {delay_rl_init_done', delay_simulation_running', delayed',
          was_rl_init_done_', pass_dirty'} \subseteq BOOLEAN
      /\ cycle' \in {"state", "drain", "keys", "clear", "clear_history"}
      /\ delay_rl' \in {"idle", "resample", "clear", "forward", "delay", "push"}
      /\ {current_delay_ms_', release_time'} \subseteq Delays \cup {0}
  BY <1>1 DEF D!TypeOK, D!Exit, D!Enter, D!Run, D!ResetClear, D!Off,
     D!RunModel, D!Resample, D!FirstClear, D!ResampleActionDelay, D!control,
     D!policy
<1>8. /\ delay_rl' # "idle" =>
           Len(action_delay_buffer_) + Len(output_dof_queue) < MaxBacklog
      /\ delay_rl' = "push" => delay_rl = "push" /\ UNCHANGED <<release_time,
                                        pass_dirty, current_delay_ms_>>
  BY DEF D!Exit, D!Enter, D!Run, D!ResetClear, D!Off, D!RunModel, D!Resample,
     D!FirstClear, D!policy, DelayTypes
<1>9. DelayTypes'
  <2>1. D!TypeOK'
    BY <1>1, <1>3, <1>4, <1>5, <1>6, <1>7 DEF D!TypeOK
  <2> QED
    BY <1>1, <1>3, <1>4, <1>5, <1>6, <1>8, <2>1 DEF DelayTypes
<1>10. OvertakenInv'
  <2>1. current_delay_ms_' = 0 /\ delay_rl' # "clear" =>
           \/ action_delay_buffer_' = <<>>
           \/ /\ UNCHANGED action_delay_buffer_
              /\ current_delay_ms_ = 0 /\ delay_rl # "clear"
    BY DEF D!Exit, D!Enter, D!Run, D!ResetClear, D!Off, D!RunModel,
       D!Resample, D!FirstClear, D!policy, D!actions
  <2>2. current_delay_ms_' = 0 /\ delay_rl' # "clear" =>
           AllDirty(action_delay_buffer_')
    BY <2>1, NothingWaits DEF OvertakenInv
  <2> QED
    BY <1>3, <1>4, <1>8, <2>2 DEF OvertakenInv
<1>11. DirtyInv'
  <2>1. cycle' # "clear" => OneDirty(action_delay_buffer_')
    BY <1>3, NothingWaits DEF D!Exit, D!Enter, D!Run, D!ResetClear, D!Off,
       D!RunModel, D!Resample, D!FirstClear, D!control
  <2>2. cycle' # "clear" /\ pass_dirty' /\ delay_rl' # "idle" =>
           NoneDirty(action_delay_buffer_')
    BY NothingWaits DEF DirtyInv, D!Exit, D!Enter, D!Run, D!ResetClear, D!Off,
       D!RunModel, D!Resample, D!FirstClear, D!control, D!policy, D!actions
  <2>3. cycle' \notin {"clear", "clear_history"} =>
           OneDirtyIn(actions_history')
    BY <1>5, ZeroHistory DEF DirtyInv, D!Exit, D!Enter, D!Run, D!ResetClear,
       D!Off, D!RunModel, D!Resample, D!FirstClear, D!control
  <2>4. cycle' \notin {"clear", "clear_history"} /\ pass_dirty'
          /\ delay_rl' \in {"resample", "clear", "forward"} =>
           NoneDirtyIn(actions_history')
    BY ZeroHistory DEF DirtyInv, D!Exit, D!Enter, D!Run,
       D!ResetClear, D!Off, D!RunModel, D!Resample, D!FirstClear, D!control,
       D!policy, D!actions
  <2> QED
    BY <2>1, <2>2, <2>3, <2>4, Zenon DEF DirtyInv, OneDirtyIn, NoneDirtyIn
<1> QED
  BY <1>3, <1>9, <1>10, <1>11

\* R makes every action of before it dirty.
LEMMA ResetKeeps ==
    ASSUME D!DelayAssumption, DelayInv, D!Reset
    PROVE  DelayInv'
<1> USE DEF DelayInv
<1>1. /\ cycle = "keys" /\ cycle' = "clear" /\ pass_dirty' = TRUE
      /\ current_delay_ms_' \in Delays \cup {0}
      /\ UNCHANGED <<delay_rl_init_done, delay_simulation_running, delayed,
                     delay_rl, was_rl_init_done_, release_time,
                     output_dof_queue>>
  BY DEF D!Reset, D!ResampleActionDelay
<1>2. /\ action_delay_buffer_ \in Seq(Waiting)
      /\ YoungerBehind(action_delay_buffer_)
      /\ HeadWaits(action_delay_buffer_)
      /\ HistoryLength \in Nat
  BY <1>1 DEF DelayTypes, WaitingInv, D!DelayAssumption
<1>3. action_delay_buffer_' =
        [i \in DOMAIN action_delay_buffer_ |->
            [action_delay_buffer_[i] EXCEPT !.dirty = TRUE]]
  BY DEF D!Reset
<1>4. ASSUME NEW i \in 1 .. Len(action_delay_buffer_)
      PROVE  /\ action_delay_buffer_'[i] \in Waiting
             /\ action_delay_buffer_'[i].left = action_delay_buffer_[i].left
             /\ action_delay_buffer_'[i].age = action_delay_buffer_[i].age
             /\ action_delay_buffer_'[i].dirty
  <2>1. /\ i \in DOMAIN action_delay_buffer_
        /\ action_delay_buffer_[i] \in Waiting
    BY <1>2
  <2>2. action_delay_buffer_'[i] =
          [action_delay_buffer_[i] EXCEPT !.dirty = TRUE]
    BY <1>3, <2>1
  <2> QED
    BY <2>1, <2>2 DEF Waiting
<1>5. action_delay_buffer_' =
        [i \in DOMAIN action_delay_buffer_ |-> action_delay_buffer_'[i]]
  BY <1>3
<1>6. /\ action_delay_buffer_' \in Seq(Waiting)
      /\ Len(action_delay_buffer_') = Len(action_delay_buffer_)
      /\ YoungerBehind(action_delay_buffer_')
      /\ HeadWaits(action_delay_buffer_')
  BY <1>2, <1>4, <1>5, MarkedBuffer
<1>7. /\ actions_history' \in [1 .. HistoryLength -> {"own", "dirty", "zero"}]
      /\ Len(actions_history') = HistoryLength
  <2>1. actions_history' \in [1 .. HistoryLength -> {"own", "dirty", "zero"}]
    BY DEF D!Reset, DelayTypes
  <2> QED
    BY <1>2, <2>1
<1>8. DelayTypes'
  <2>1. D!TypeOK'
    BY <1>1, <1>6, <1>7 DEF DelayTypes, D!TypeOK
  <2> QED
    BY <1>1, <1>6, <1>7, <2>1 DEF DelayTypes
<1>9. WaitingInv'
  BY <1>6 DEF WaitingInv
<1>10. OvertakenInv'
  BY <1>1, <1>4, <1>6 DEF OvertakenInv, OvertakenIsDirty, AllDirty
<1>11. DirtyInv'
  BY <1>1 DEF DirtyInv
<1> QED
  BY <1>8, <1>9, <1>10, <1>11

\* The two ends of a cycle.
LEMMA CycleEndKeeps ==
    ASSUME D!DelayAssumption, DelayInv,
           D!ResetClearHistory \/ \E enter \in BOOLEAN : D!Keys(enter)
    PROVE  DelayInv'
<1> USE DEF DelayInv
<1>1. /\ D!Tick /\ cycle \in {"keys", "clear_history"} /\ cycle' = "state"
      /\ UNCHANGED <<delay_rl_init_done, delayed, delay_rl,
                     was_rl_init_done_, pass_dirty, release_time,
                     current_delay_ms_, output_dof_queue>>
      /\ cycle = "keys" => UNCHANGED actions_history
      /\ UNCHANGED actions_history \/ actions_history' = D!Zeros
      /\ cycle = "clear_history" => actions_history' = D!Zeros
  BY DEF D!ResetClearHistory, D!Keys, D!policy
<1>2. delay_simulation_running' \in BOOLEAN
  <2>1. CASE D!ResetClearHistory
    BY <2>1 DEF D!ResetClearHistory, DelayTypes, D!TypeOK
  <2>2. CASE \E enter \in BOOLEAN : D!Keys(enter)
    <3>1. PICK enter \in BOOLEAN :
             delay_simulation_running' = (delay_simulation_running # enter)
      BY <2>2 DEF D!Keys
    <3> QED
      BY <3>1, Zenon
  <2> QED
    BY <2>1, <2>2
<1>3. /\ action_delay_buffer_' \in Seq(Waiting)
      /\ Len(action_delay_buffer_') = Len(action_delay_buffer_)
      /\ YoungerBehind(action_delay_buffer_')
      /\ OvertakenIsDirty(action_delay_buffer_')
      /\ AllDirty(action_delay_buffer_) => AllDirty(action_delay_buffer_')
      /\ OneDirty(action_delay_buffer_) => OneDirty(action_delay_buffer_')
      /\ NoneDirty(action_delay_buffer_) => NoneDirty(action_delay_buffer_')
  <2>1. cycle \in {"keys", "clear", "clear_history"}
    BY <1>1
  <2> QED
    BY <1>1, <2>1, TickKeeps, Zenon
<1>4. /\ Len(actions_history') = HistoryLength
      /\ actions_history' \in [1 .. HistoryLength -> {"own", "dirty", "zero"}]
  BY <1>1, ZeroHistory DEF DelayTypes, D!TypeOK
<1>5. DelayTypes'
  <2>1. D!TypeOK'
    BY <1>1, <1>2, <1>3, <1>4 DEF DelayTypes, D!TypeOK
  <2> QED
    BY <1>1, <1>3, <1>4, <2>1 DEF DelayTypes
<1>6. WaitingInv'
  BY <1>1, <1>3 DEF WaitingInv
<1>7. OvertakenInv'
  BY <1>1, <1>3 DEF OvertakenInv, OvertakenIsDirty
<1>8. DirtyInv'
  <2>1. /\ OneDirty(action_delay_buffer_')
        /\ pass_dirty' /\ delay_rl' # "idle" => NoneDirty(action_delay_buffer_')
    BY <1>1, <1>3 DEF DirtyInv
  <2>2. /\ OneDirtyIn(actions_history')
        /\ pass_dirty' /\ delay_rl' \in {"resample", "clear", "forward"} =>
              NoneDirtyIn(actions_history')
    BY <1>1, ZeroHistory DEF DirtyInv
  <2> QED
    BY <2>1, <2>2, Zenon DEF DirtyInv, OneDirtyIn, NoneDirtyIn
<1> QED
  BY <1>5, <1>6, <1>7, <1>8

\* A new action is the newest of the history, which keeps its length.
LEMMA ForwardKeeps ==
    ASSUME D!DelayAssumption, DelayInv, D!Forward
    PROVE  DelayInv'
<1> USE DEF DelayInv
<1> DEFINE new == IF pass_dirty THEN "dirty" ELSE "own"
           old == actions_history
           kinds == {"own", "dirty", "zero"}
<1>1. /\ delay_rl = "forward" /\ delay_rl' = "delay"
      /\ old' = SubSeq(<<new>> \o old, 1, HistoryLength)
      /\ UNCHANGED <<delay_rl_init_done, delay_simulation_running, delayed,
                     cycle, was_rl_init_done_, pass_dirty, release_time,
                     current_delay_ms_, action_delay_buffer_,
                     output_dof_queue>>
  BY DEF D!Forward, D!control
<1>2. /\ HistoryLength \in Nat /\ HistoryLength > 0
      /\ old \in [1 .. HistoryLength -> kinds] /\ pass_dirty \in BOOLEAN
  BY DEF DelayTypes, D!TypeOK, D!DelayAssumption
<1>3. new \in kinds /\ (new = "dirty" <=> pass_dirty)
  BY <1>2
<1> HIDE DEF new, old, kinds
<1>4. old \in Seq(kinds) /\ Len(old) = HistoryLength /\ <<new>> \in Seq(kinds)
      /\ Len(<<new>>) = 1 /\ <<new>>[1] = new
  BY <1>2, <1>3
<1>5. /\ <<new>> \o old \in Seq(kinds)
      /\ Len(<<new>> \o old) = 1 + HistoryLength
      /\ \A i \in 1 .. 1 + HistoryLength :
            (<<new>> \o old)[i] = IF i <= 1 THEN <<new>>[i] ELSE old[i - 1]
  BY <1>4, ConcatProperties
<1>6. \A i \in 1 .. HistoryLength : (<<new>> \o old)[i] \in kinds
  BY <1>2, <1>5
<1>7. /\ old' \in Seq(kinds)
      /\ Len(old') =
           IF 1 <= HistoryLength THEN HistoryLength - 1 + 1 ELSE 0
      /\ \A i \in 1 .. HistoryLength - 1 + 1 :
            old'[i] = (<<new>> \o old)[1 + i - 1]
  <2> DEFINE longer == <<new>> \o old
  <2>1. 1 \in Int /\ HistoryLength \in Int
        /\ \A i \in 1 .. HistoryLength : longer[i] \in kinds
    BY <1>2, <1>6
  <2>2. old' = SubSeq(longer, 1, HistoryLength)
    BY <1>1
  <2> HIDE DEF longer
  <2>3. /\ old' \in Seq(kinds)
        /\ Len(old') =
             IF 1 <= HistoryLength THEN HistoryLength - 1 + 1 ELSE 0
        /\ \A i \in 1 .. HistoryLength - 1 + 1 : old'[i] = longer[1 + i - 1]
    BY <2>1, <2>2, SubSeqProperties
  <2> QED
    BY <2>3 DEF longer
<1>8. /\ Len(old') = HistoryLength
      /\ \A i \in 1 .. HistoryLength :
            old'[i] = IF i = 1 THEN new ELSE old[i - 1]
  BY <1>2, <1>4, <1>5, <1>7
<1>9. old' \in [1 .. HistoryLength -> kinds]
  BY <1>7, <1>8
<1>10. DelayTypes'
  <2>1. D!TypeOK'
    BY <1>1, <1>8 DEF DelayTypes, D!TypeOK, old
  <2> QED
    BY <1>1, <1>9, <2>1 DEF DelayTypes, old, kinds
<1>11. WaitingInv' /\ OvertakenInv'
  BY <1>1 DEF WaitingInv, OvertakenInv, YoungerBehind, HeadWaits,
     OvertakenIsDirty, AllDirty
<1>12. DirtyInv'
  <2>1. OneDirtyIn(old) /\ (new = "dirty" => NoneDirtyIn(old)) =>
           OneDirtyIn(old')
    <3> SUFFICES ASSUME OneDirtyIn(old), new = "dirty" => NoneDirtyIn(old),
                        NEW i \in 1 .. HistoryLength,
                        NEW j \in 1 .. HistoryLength,
                        old'[i] = "dirty", old'[j] = "dirty"
                 PROVE  i = j
      BY DEF OneDirtyIn
    <3>1. CASE new = "dirty"
      <4>1. \A k \in 1 .. HistoryLength : k # 1 => old'[k] # "dirty"
        BY <1>2, <1>8, <3>1 DEF NoneDirtyIn
      <4> QED
        BY <4>1
    <3>2. CASE new # "dirty"
      <4>1. /\ i # 1 /\ j # 1
            /\ i - 1 \in 1 .. HistoryLength /\ j - 1 \in 1 .. HistoryLength
            /\ old[i - 1] = "dirty" /\ old[j - 1] = "dirty"
        BY <1>2, <1>8, <3>2
      <4>2. i - 1 = j - 1
        BY <4>1 DEF OneDirtyIn
      <4> QED
        BY <4>2
    <3> QED
      BY <3>1, <3>2
  <2>2. cycle' # "clear" =>
           /\ OneDirty(action_delay_buffer_')
           /\ pass_dirty' /\ delay_rl' # "idle" =>
                 NoneDirty(action_delay_buffer_')
    BY <1>1 DEF DirtyInv
  <2>3. cycle' \notin {"clear", "clear_history"} => OneDirtyIn(old')
    BY <1>1, <1>3, <2>1 DEF DirtyInv, old
  <2>4. delay_rl' \notin {"resample", "clear", "forward"}
    BY <1>1
  <2> QED
    BY <2>2, <2>3, <2>4, Zenon DEF DirtyInv, OneDirtyIn, NoneDirtyIn, old
<1> QED
  BY <1>10, <1>11, <1>12

\* Without a delay the action overtakes only dirty ones.
LEMMA DelayKeeps ==
    ASSUME D!DelayAssumption, DelayInv, D!Delay
    PROVE  DelayInv'
<1> USE DEF DelayInv
<1> DEFINE action == [overtaken |-> FALSE, dirty |-> pass_dirty]
<1>1. /\ delay_rl = "delay"
      /\ UNCHANGED <<delay_rl_init_done, delay_simulation_running, delayed,
                     cycle, was_rl_init_done_, pass_dirty, current_delay_ms_,
                     actions_history>>
  BY DEF D!Delay, D!control
<1>2. CASE current_delay_ms_ # 0
  <2>1. /\ delay_rl' = "push" /\ release_time' = current_delay_ms_
        /\ UNCHANGED <<action_delay_buffer_, output_dof_queue>>
    BY <1>2 DEF D!Delay
  <2>2. D!TypeOK'
    BY <1>1, <2>1 DEF DelayTypes, D!TypeOK
  <2>3. DelayTypes'
    BY <1>1, <1>2, <2>1, <2>2 DEF DelayTypes
  <2>4. WaitingInv' /\ OvertakenInv' /\ DirtyInv'
    BY <1>1, <1>2, <2>1 DEF WaitingInv, OvertakenInv, DirtyInv,
       YoungerBehind, HeadWaits, OvertakenIsDirty, AllDirty, OneDirty,
       NoneDirty, OneDirtyIn, NoneDirtyIn
  <2> QED
    BY <2>3, <2>4
<1>3. CASE current_delay_ms_ = 0
  <2>1. /\ delay_rl' = "idle"
        /\ output_dof_queue' = Append(output_dof_queue, action)
        /\ action_delay_buffer_' =
             [i \in DOMAIN action_delay_buffer_ |->
                 [action_delay_buffer_[i] EXCEPT !.overtaken = TRUE]]
        /\ UNCHANGED release_time
    BY <1>3 DEF D!Delay
  <2>2. /\ action_delay_buffer_ \in Seq(Waiting)
        /\ output_dof_queue \in Seq(Released) /\ action \in Released
        /\ AllDirty(action_delay_buffer_) /\ MaxBacklog \in Nat
        /\ Len(action_delay_buffer_) + Len(output_dof_queue) < MaxBacklog
    BY <1>1, <1>3
       DEF DelayTypes, D!TypeOK, OvertakenInv, Released, D!DelayAssumption
  <2>3. ASSUME NEW i \in 1 .. Len(action_delay_buffer_)
        PROVE  /\ action_delay_buffer_'[i] \in Waiting
               /\ action_delay_buffer_'[i].left = action_delay_buffer_[i].left
               /\ action_delay_buffer_'[i].age = action_delay_buffer_[i].age
               /\ action_delay_buffer_'[i].dirty = action_delay_buffer_[i].dirty
    <3>1. /\ i \in DOMAIN action_delay_buffer_
          /\ action_delay_buffer_[i] \in Waiting
      BY <2>2
    <3>2. action_delay_buffer_'[i] =
            [action_delay_buffer_[i] EXCEPT !.overtaken = TRUE]
      BY <2>1, <3>1
    <3> QED
      BY <3>1, <3>2 DEF Waiting
  <2>4. action_delay_buffer_' =
          [i \in DOMAIN action_delay_buffer_ |-> action_delay_buffer_'[i]]
    BY <2>1
  <2>5. /\ action_delay_buffer_' \in Seq(Waiting)
        /\ Len(action_delay_buffer_') = Len(action_delay_buffer_)
        /\ YoungerBehind(action_delay_buffer_) =>
              YoungerBehind(action_delay_buffer_')
        /\ HeadWaits(action_delay_buffer_) => HeadWaits(action_delay_buffer_')
    BY <2>2, <2>3, <2>4, MarkedBuffer
  <2> HIDE DEF action
  <2>6. /\ output_dof_queue' \in Seq(Released)
        /\ Len(output_dof_queue') = Len(output_dof_queue) + 1
        /\ \A i \in 1 .. Len(output_dof_queue') :
              output_dof_queue'[i] = IF i <= Len(output_dof_queue)
                                     THEN output_dof_queue[i] ELSE action
    BY <2>1, <2>2
  <2>7. /\ Len(action_delay_buffer_) \in Nat /\ Len(output_dof_queue) \in Nat
        /\ Len(action_delay_buffer_') + Len(output_dof_queue') <= MaxBacklog
    BY <2>2, <2>5, <2>6
  <2>8. D!TypeOK'
    BY <1>1, <2>1, <2>7 DEF DelayTypes, D!TypeOK
  <2>9. DelayTypes'
    BY <1>1, <2>1, <2>5, <2>6, <2>8 DEF DelayTypes
  <2>10. WaitingInv'
    BY <1>1, <2>5 DEF WaitingInv
  <2>11. OvertakenInv'
    <3>1. /\ OvertakenIsDirty(action_delay_buffer_')
          /\ AllDirty(action_delay_buffer_')
      BY <2>2, <2>3, <2>5 DEF OvertakenIsDirty, AllDirty
    <3>2. ~action.overtaken
      BY DEF action
    <3>3. OvertakenIsDirty(output_dof_queue')
      BY <2>6, <2>7, <3>2 DEF OvertakenInv, OvertakenIsDirty
    <3> QED
      BY <2>1, <3>1, <3>3 DEF OvertakenInv
  <2>12. DirtyInv'
    <3>1. cycle' # "clear" => OneDirty(action_delay_buffer_')
      BY <1>1, <2>3, <2>5 DEF DirtyInv, OneDirty
    <3>2. cycle' \notin {"clear", "clear_history"} =>
             OneDirtyIn(actions_history')
      BY <1>1 DEF DirtyInv
    <3>3. delay_rl' = "idle"
      BY <2>1
    <3> QED
      BY <3>1, <3>2, <3>3 DEF DirtyInv
  <2> QED
    BY <2>9, <2>10, <2>11, <2>12
<1> QED
  BY <1>2, <1>3

\* The last action of the buffer is the youngest.
LEMMA PushKeeps ==
    ASSUME D!DelayAssumption, DelayInv, D!Push
    PROVE  DelayInv'
<1> USE DEF DelayInv
<1> DEFINE action == [left |-> release_time, age |-> 0, dirty |-> pass_dirty,
                      overtaken |-> FALSE]
           old == action_delay_buffer_
           new == action_delay_buffer_'
<1>1. /\ delay_rl = "push" /\ delay_rl' = "idle"
      /\ new = Append(old, action)
      /\ UNCHANGED <<delay_rl_init_done, delay_simulation_running, delayed,
                     cycle, was_rl_init_done_, pass_dirty, release_time,
                     current_delay_ms_, output_dof_queue, actions_history>>
  BY DEF D!Push, D!control
<1>2. D!Longest \in Nat /\ Delays \subseteq Nat /\ MaxBacklog \in Nat
  BY LongestDelay DEF D!DelayAssumption
<1>3. /\ old \in Seq(Waiting) /\ output_dof_queue \in Seq(Released)
      /\ pass_dirty \in BOOLEAN
      /\ release_time \in Delays \cup {0} /\ release_time # 0
      /\ Len(old) + Len(output_dof_queue) < MaxBacklog
      /\ YoungerBehind(old) /\ OvertakenIsDirty(old)
  BY <1>1 DEF DelayTypes, D!TypeOK, WaitingInv, OvertakenInv
<1>4. release_time \in Nat /\ release_time <= D!Longest /\ release_time > 0
  BY <1>2, <1>3, LongestDelay
<1>5. /\ action \in Waiting /\ action.left = release_time /\ action.age = 0
      /\ action.dirty = pass_dirty /\ ~action.overtaken
  BY <1>3, <1>4 DEF Waiting
<1> HIDE DEF action, old, new
<1>6. /\ new \in Seq(Waiting) /\ Len(new) = Len(old) + 1
      /\ Len(old) \in Nat /\ Len(output_dof_queue) \in Nat
      /\ \A i \in 1 .. Len(new) :
            /\ i = Len(new) => new[i] = action
            /\ i # Len(new) => i \in 1 .. Len(old) /\ new[i] = old[i]
  BY <1>1, <1>3, <1>5
<1>7. DelayTypes'
  <2>1. Len(new) + Len(output_dof_queue) <= MaxBacklog
    BY <1>2, <1>3, <1>6
  <2>2. D!TypeOK'
    BY <1>1, <2>1 DEF DelayTypes, D!TypeOK, new
  <2> QED
    BY <1>1, <1>6, <2>2 DEF DelayTypes, new
<1>8. WaitingInv'
  <2>1. ASSUME NEW i \in 1 .. Len(new)
        PROVE  /\ new[i].age <= D!Longest /\ new[i].age >= 0
               /\ new[i].left > 0 => new[i].left + new[i].age <= D!Longest
    <3>1. CASE i = Len(new)
      BY <1>2, <1>4, <1>5, <1>6, <3>1
    <3>2. CASE i # Len(new)
      <4>1. i \in 1 .. Len(old) /\ new[i] = old[i] /\ new[i] \in Waiting
        BY <1>6, <3>2
      <4>2. new[i].age \in Nat
        BY <4>1 DEF Waiting
      <4> QED
        BY <1>3, <4>1, <4>2 DEF YoungerBehind
    <3> QED
      BY <3>1, <3>2
  <2>2. ASSUME NEW i \in 1 .. Len(new), NEW j \in 1 .. Len(new), i <= j
        PROVE  new[j].age <= new[i].age
    <3>1. CASE j = Len(new)
      <4>1. new[j].age = 0 /\ new[i].age >= 0
        BY <1>5, <1>6, <2>1, <3>1
      <4> QED
        BY <4>1
    <3>2. CASE j # Len(new)
      <4>1. /\ i \in 1 .. Len(old) /\ j \in 1 .. Len(old)
            /\ new[i] = old[i] /\ new[j] = old[j]
        BY <1>6, <2>2, <3>2
      <4> QED
        BY <1>3, <2>2, <4>1 DEF YoungerBehind
    <3> QED
      BY <3>1, <3>2
  <2>3. YoungerBehind(new)
    BY <2>1, <2>2 DEF YoungerBehind
  <2>4. HeadWaits(old) => HeadWaits(new)
    <3> SUFFICES ASSUME HeadWaits(old)
                 PROVE  new[1].left > 0
      BY DEF HeadWaits
    <3>1. CASE Len(old) = 0
      BY <1>4, <1>5, <1>6, <3>1
    <3>2. CASE Len(old) # 0
      <4>1. old # <<>> /\ new[1] = old[1]
        BY <1>3, <1>6, <3>2
      <4> QED
        BY <4>1 DEF HeadWaits
    <3> QED
      BY <3>1, <3>2
  <2> QED
    BY <1>1, <2>3, <2>4 DEF WaitingInv, old, new
<1>9. OvertakenInv'
  <2>1. OvertakenIsDirty(new)
    BY <1>3, <1>5, <1>6 DEF OvertakenIsDirty
  <2>2. AllDirty(old) /\ pass_dirty => AllDirty(new)
    BY <1>5, <1>6 DEF AllDirty
  <2>3. OvertakenIsDirty(output_dof_queue')
    BY <1>1 DEF OvertakenInv
  <2> QED
    BY <1>1, <2>1, <2>2, <2>3 DEF OvertakenInv, old, new
<1>10. DirtyInv'
  <2>1. OneDirty(old) /\ (pass_dirty => NoneDirty(old)) => OneDirty(new)
    BY <1>5, <1>6 DEF OneDirty, NoneDirty
  <2>2. cycle' # "clear" => OneDirty(new)
    BY <1>1, <2>1 DEF DirtyInv, old
  <2>3. cycle' \notin {"clear", "clear_history"} =>
           OneDirtyIn(actions_history')
    BY <1>1 DEF DirtyInv
  <2> QED
    BY <1>1, <2>2, <2>3 DEF DirtyInv, new
<1> QED
  BY <1>7, <1>8, <1>9, <1>10

LEMMA DelayNext ==
    ASSUME D!DelayAssumption, DelayInv, [D!Next]_(D!vars)
    PROVE  DelayInv'
<1>1. CASE D!RobotControl
  BY <1>1, SimpleStepsKeep, DrainKeeps, ResetKeeps, CycleEndKeeps
     DEF D!RobotControl
<1>2. CASE D!Policy
  BY <1>2, SimpleStepsKeep, ForwardKeeps, DelayKeeps, PushKeeps DEF D!Policy
<1>3. CASE UNCHANGED D!vars
  BY <1>3 DEF D!vars, D!control, D!policy, D!actions, DelayInv, DelayTypes,
     D!TypeOK, WaitingInv, OvertakenInv, DirtyInv, YoungerBehind, HeadWaits,
     OvertakenIsDirty, AllDirty, OneDirty, NoneDirty, OneDirtyIn, NoneDirtyIn
<1> QED
  BY <1>1, <1>2, <1>3 DEF D!Next

LEMMA DelaySteps == Spec => D!Spec
<1>1. Init => D!Init
  BY DEF Init
<1>2. [Next]_vars => [D!Next]_(D!vars)
  <2>1. UNCHANGED delay_vars => UNCHANGED D!vars
    BY DEF delay_vars, D!vars, D!control, D!policy, D!actions
  <2>2. UNCHANGED vars => UNCHANGED delay_vars
    BY DEF vars
  <2> QED
    BY <2>1, <2>2, OthersStay DEF Next
<1> QED
  BY <1>1, <1>2, PTL DEF Spec, D!Spec

\* No action waits for longer than the longest delay that can be drawn, none is
\* overtaken by a later one unless an R was under way, and of the actions of
\* before an R at most one is kept: for every set of delays with a longest one,
\* every length of the history, and however many actions may wait.
THEOREM ActionDelaySafeHolds == Spec => []ActionDelaySafe
<1>1. D!DelayAssumption
  BY DelayAssumption
<1>2. D!Init => DelayInv
  BY <1>1, DelayInit
<1>3. DelayInv /\ [D!Next]_(D!vars) => DelayInv'
  BY <1>1, DelayNext
<1>4. DelayInv => ActionDelaySafe
  <2> SUFFICES ASSUME DelayInv PROVE D!ActionDelaySafe
    BY DEF ActionDelaySafe
  <2> USE DEF DelayInv
  <2>1. /\ DOMAIN action_delay_buffer_ = 1 .. Len(action_delay_buffer_)
        /\ DOMAIN output_dof_queue = 1 .. Len(output_dof_queue)
        /\ DOMAIN actions_history = 1 .. HistoryLength
    BY DEF DelayTypes
  <2>2. D!ReleasedInTime
    BY <2>1 DEF D!ReleasedInTime, WaitingInv, YoungerBehind
  <2>3. D!OrderKept
    BY <2>1 DEF D!OrderKept, OvertakenInv, OvertakenIsDirty
  <2>4. D!AtMostOneDirty
    BY <2>1 DEF D!AtMostOneDirty, DirtyInv, OneDirty, OneDirtyIn
  <2> QED
    BY <2>2, <2>3, <2>4 DEF DelayTypes, D!ActionDelaySafe
<1> QED
  BY <1>2, <1>3, <1>4, DelaySteps, PTL DEF Spec, D!Spec
-----------------------------------------------------------------------------
(* The keyboard between two threads, for every set of keys and every bound *)
(* of the command.                                                         *)

\* A W or an N that is there was set in this cycle, and what it asks for is
\* still to be carried out, unless two keys met in a cycle.
KeyInv ==
    /\ presses \in 0 .. 2 /\ navigations \in 0 .. 1
    /\ {burst, forward} \subseteq BOOLEAN
    /\ I!NothingStuck /\ I!SpaceResets
    /\ ~burst => /\ keys_current_keyboard = "W" => forward
                 /\ keys_current_keyboard = "N" /\ phase # "clear" =>
                       navigations > 0

LEMMA KeyInit ==
    ASSUME I!Init
    PROVE  KeyInv
<1>1. /\ keys_current_keyboard = "None" /\ keys_last_keyboard = "None"
      /\ keys_x = 0 /\ presses = 0 /\ burst = FALSE /\ forward = FALSE
      /\ navigations = 0
  BY DEF I!Init
<1>2. presses \in 0 .. 2 /\ navigations \in 0 .. 1
  BY <1>1
<1>3. I!NothingStuck /\ I!SpaceResets
  BY <1>1 DEF I!NothingStuck, I!SpaceResets
<1>4. keys_current_keyboard # "W" /\ keys_current_keyboard # "N"
  BY <1>1
<1> QED
  BY <1>1, <1>2, <1>3, <1>4, Zenon DEF KeyInv

\* A key that comes when none was set in this cycle leaves burst as it is.
LEMMA KeySet ==
    ASSUME KeyInv, burst' = (burst \/ presses > 0)
    PROVE  burst' \in BOOLEAN /\ (~burst' => ~burst /\ presses = 0)
<1>1. burst' \in BOOLEAN /\ (~burst' => ~burst /\ ~(presses > 0))
  BY Zenon
<1>2. ~(presses > 0) => presses = 0
  BY DEF KeyInv
<1> QED
  BY <1>1, <1>2

LEMMA KeyNext ==
    ASSUME KeyInv, [I!Next]_(I!vars)
    PROVE  KeyInv'
<1> USE DEF KeyInv, I!NothingStuck, I!SpaceResets
<1>1. CASE \E k \in Keyboard : I!SetLast(k)
  <2>1. /\ keys_last_keyboard' = keys_current_keyboard
        /\ burst' = (burst \/ presses > 0)
        /\ UNCHANGED <<keys_current_keyboard, keys_x, phase, presses, forward,
                       navigations>>
    BY <1>1 DEF I!SetLast, I!control
  <2>2. burst' \in BOOLEAN /\ (~burst' => ~burst /\ presses = 0)
    BY <2>1, KeySet
  <2> QED
    BY <2>1, <2>2
<1>2. CASE I!SetCurrent
  <2>1. /\ keys_current_keyboard' = pressing
        /\ presses' = IF presses < 2 THEN presses + 1 ELSE presses
        /\ burst' = (burst \/ presses > 0)
        /\ navigations' = IF pressing = "N" THEN 1 ELSE navigations
        /\ forward' = (forward \/ pressing = "W")
        /\ UNCHANGED <<keys_last_keyboard, keys_x, phase>>
    BY <1>2 DEF I!SetCurrent, I!control
  <2>2. burst' \in BOOLEAN /\ (~burst' => ~burst /\ presses = 0)
    BY <2>1, KeySet
  <2>3. /\ forward' \in BOOLEAN /\ (pressing = "W" => forward')
        /\ ~forward' => ~forward
    BY <2>1, Zenon
  <2>4. presses' \in 1 .. 2 /\ navigations' \in 0 .. 1
    BY <2>1
  <2> QED
    BY <2>1, <2>2, <2>3, <2>4
<1>3. CASE I!RunFSM \/ I!Move
  BY <1>3 DEF I!RunFSM, I!Move, I!Goes, I!history
<1>4. CASE I!Stop
  BY <1>4 DEF I!Stop, I!Goes
<1>5. CASE I!Navigate
  BY <1>5 DEF I!Navigate, I!Goes
<1>6. CASE I!ClearInput
  BY <1>6 DEF I!ClearInput, I!Goes
<1>7. CASE UNCHANGED I!vars
  BY <1>7 DEF I!vars, I!control, I!history
<1> QED
  BY <1>1, <1>2, <1>3, <1>4, <1>5, <1>6, <1>7 DEF I!Next

LEMMA KeySteps == Spec => I!Spec
<1>1. Init => I!Init
  BY DEF Init
<1>2. [Next]_vars => [I!Next]_(I!vars)
  <2>1. UNCHANGED keys_vars => UNCHANGED I!vars
    BY DEF keys_vars, I!vars, I!control, I!history
  <2>2. UNCHANGED vars => UNCHANGED keys_vars
    BY DEF vars
  <2> QED
    BY <2>1, <2>2, OthersStay DEF Next
<1> QED
  BY <1>1, <1>2, PTL DEF Spec, I!Spec

\* As long as no two keys met in one control cycle, no key is left behind by
\* ClearInput, Space makes the command zero until the next W, and the navigation
\* changes at most once for each N: whatever keys there are besides.
THEOREM OperatorInputSafeHolds == Spec => OperatorInputSafe
<1>1. I!Init => KeyInv
  BY KeyInit
<1>2. KeyInv /\ [I!Next]_(I!vars) => KeyInv'
  BY KeyNext
<1>3. KeyInv => I!NothingStuck /\ I!SpaceResets
  BY DEF KeyInv
<1>4. KeyInv /\ [I!Next]_(I!vars)
        => [keys_navigation_mode' # keys_navigation_mode /\ ~burst
              => navigations > 0]_(I!vars)
  <2> SUFFICES ASSUME KeyInv, I!Next,
                      keys_navigation_mode' # keys_navigation_mode, ~burst
               PROVE  navigations > 0
    OBVIOUS
  <2> QED
    BY DEF KeyInv, I!Next, I!SetLast, I!SetCurrent, I!RunFSM, I!Move, I!Stop,
       I!Navigate, I!ClearInput, I!Goes, I!control
<1> QED
  BY <1>1, <1>2, <1>3, <1>4, KeySteps, PTL
     DEF I!Spec, OperatorInputSafe, I!OperatorInputSafe, I!NavigateOncePerKey
-----------------------------------------------------------------------------
(* The joint controller, for every number of messages and activations.     *)

Stored == {last_command_, rt_command, rt_data}
Whole == [q |-> sent, gains |-> sent]

\* A pose of before the controller was started is that of the one message that
\* was being stored then.
PoseInv ==
    /\ \A c \in Stored : c.q = 0 \/ c.q >= before
    /\ \A pose \in poses : pose = 0 \/ pose >= before

\* The latest message is whole where it has been stored, unless the two threads
\* met meanwhile; an update that they do not meet in uses it whole.
WholeInv ==
    /\ activations \in Nat
    /\ active /\ ~joint_overlapped =>
          /\ callback = "gains" => last_command_.q = sent
          /\ callback = "write" => last_command_ = Whole
          /\ callback = "idle" /\ sent > before => rt_command = Whole
    /\ calm /\ update # "idle" =>
          /\ callback = "idle"
          /\ ~joint_overlapped /\ sent > before =>
                /\ last_command_ = Whole
                /\ update = "gains" => servo_command_.q = sent

JointInv == J!TypeOK /\ PoseInv /\ WholeInv

LEMMA JointInit ==
    ASSUME J!ControllerAssumption, J!Init
    PROVE  JointInv
<1>1. /\ variant \in {"ros1", "joint", "group"}
      /\ active = FALSE /\ joint_overlapped = FALSE /\ calm = FALSE
      /\ last_command_ = J!Rest /\ rt_command = J!Rest /\ rt_data = J!Rest
      /\ servo_command_ = J!Rest /\ callback = "idle" /\ update = "idle"
      /\ sent = 0 /\ activations = 0 /\ before = 0 /\ poses = {}
  BY DEF J!Init
<1>2. J!Rest \in J!Command /\ J!Rest.q = 0
  BY <1>1 DEF J!Rest, J!Command
<1>3. sent \in 0 .. MaxMessages /\ before \in 0 .. sent /\ MaxMessages \in Nat
  BY <1>1 DEF J!ControllerAssumption
<1>4. J!TypeOK
  BY <1>1, <1>2, <1>3, Zenon DEF J!TypeOK
<1>5. PoseInv
  BY <1>1, <1>2 DEF PoseInv, Stored
<1>6. WholeInv
  BY <1>1 DEF WholeInv
<1> QED
  BY <1>4, <1>5, <1>6 DEF JointInv

\* The types, in the form the steps use them.
LEMMA JointTypes ==
    ASSUME J!ControllerAssumption, J!TypeOK
    PROVE  /\ sent \in Nat /\ before \in Nat /\ before <= sent
           /\ \A c \in {last_command_, rt_command, rt_data, servo_command_} :
                 /\ c = [q |-> c.q, gains |-> c.gains]
                 /\ c.q \in 0 .. sent /\ c.gains \in 0 .. sent
           /\ MaxMessages \in Nat /\ sent <= MaxMessages
           /\ J!Rest \in J!Command /\ J!Rest.q = 0
  BY DEF J!TypeOK, J!Command, J!ControllerAssumption, J!Rest

\* The messages that are received are stored one after the other.
LEMMA ReceiveKeeps ==
    ASSUME J!ControllerAssumption, JointInv,
           J!SetCommandCallback \/ J!StoreQ \/ J!StoreGains \/ J!writeFromNonRT
    PROVE  JointInv'
<1> USE DEF JointInv
<1>1. /\ sent \in Nat /\ before \in Nat /\ before <= sent
      /\ MaxMessages \in Nat /\ sent <= MaxMessages
      /\ \A c \in {last_command_, rt_command, rt_data, servo_command_} :
            /\ c = [q |-> c.q, gains |-> c.gains]
            /\ c.q \in 0 .. sent /\ c.gains \in 0 .. sent
  BY JointTypes
<1>2. CASE J!SetCommandCallback
  <2>1. /\ callback = "idle" /\ callback' = "q"
        /\ sent < MaxMessages /\ sent' = sent + 1
        /\ joint_overlapped' = FALSE /\ calm' = FALSE
        /\ UNCHANGED <<variant, active, last_command_, rt_command, rt_data,
                       update, servo_command_, activations, before, poses>>
    BY <1>2 DEF J!SetCommandCallback, J!stored
  <2>2. /\ sent' \in 0 .. MaxMessages /\ before' \in 0 .. sent'
        /\ 0 .. sent \subseteq 0 .. sent'
    BY <1>1, <2>1
  <2>3. /\ {last_command_, rt_command, rt_data, servo_command_}'
              \subseteq J!Command'
        /\ poses' \subseteq 0 .. sent'
    BY <2>1, <2>2 DEF J!TypeOK, J!Command
  <2>4. J!TypeOK'
    BY <2>1, <2>2, <2>3 DEF J!TypeOK
  <2>5. PoseInv'
    BY <2>1 DEF PoseInv, Stored
  <2>6. WholeInv'
    BY <2>1 DEF WholeInv
  <2> QED
    BY <2>4, <2>5, <2>6
<1>3. CASE J!StoreQ
  <2>1. /\ callback = "q" /\ callback' = "gains"
        /\ last_command_' = [last_command_ EXCEPT !.q = sent]
        /\ UNCHANGED <<variant, active, rt_command, rt_data, update,
                       servo_command_, sent, activations, before, poses,
                       joint_overlapped, calm>>
    BY <1>3 DEF J!StoreQ, J!history
  <2>2. last_command_' \in J!Command' /\ last_command_'.q = sent
    BY <1>1, <2>1 DEF J!Command, J!TypeOK
  <2>3. J!TypeOK'
    BY <2>1, <2>2 DEF J!TypeOK, J!Command
  <2>4. PoseInv'
    BY <1>1, <2>1, <2>2 DEF PoseInv, Stored
  <2>5. WholeInv'
    BY <2>1, <2>2 DEF WholeInv
  <2> QED
    BY <2>3, <2>4, <2>5
<1>4. CASE J!StoreGains
  <2>1. /\ callback = "gains" /\ callback' = "write"
        /\ last_command_' = [last_command_ EXCEPT !.gains = sent]
        /\ UNCHANGED <<variant, active, rt_command, rt_data, update,
                       servo_command_, sent, activations, before, poses,
                       joint_overlapped, calm>>
    BY <1>4 DEF J!StoreGains, J!history
  <2>2. /\ last_command_' \in J!Command' /\ last_command_'.q = last_command_.q
        /\ last_command_' = [q |-> last_command_.q, gains |-> sent]
    BY <1>1, <2>1 DEF J!Command, J!TypeOK
  <2>3. J!TypeOK'
    BY <2>1, <2>2 DEF J!TypeOK, J!Command
  <2>4. PoseInv'
    BY <1>1, <2>1, <2>2 DEF PoseInv, Stored
  <2>5. WholeInv'
    BY <2>1, <2>2 DEF WholeInv, Whole
  <2> QED
    BY <2>3, <2>4, <2>5
<1>5. CASE J!writeFromNonRT
  <2>1. /\ callback = "write" /\ callback' = "idle"
        /\ rt_command' = last_command_
        /\ UNCHANGED <<variant, active, last_command_, rt_data, update,
                       servo_command_, sent, activations, before, poses,
                       joint_overlapped, calm>>
    BY <1>5 DEF J!writeFromNonRT, J!history
  <2>2. J!TypeOK'
    BY <2>1 DEF J!TypeOK, J!Command
  <2>3. PoseInv'
    BY <2>1 DEF PoseInv, Stored
  <2>4. WholeInv'
    BY <2>1 DEF WholeInv, Whole
  <2> QED
    BY <2>2, <2>3, <2>4
<1> QED
  BY <1>2, <1>3, <1>4, <1>5

\* The controller is started and stopped.
LEMMA ActivateKeeps ==
    ASSUME J!ControllerAssumption, JointInv, J!on_activate \/ J!on_deactivate
    PROVE  JointInv'
<1> USE DEF JointInv
<1>1. /\ sent \in Nat /\ before \in Nat /\ before <= sent
      /\ J!Rest \in J!Command /\ J!Rest.q = 0
      /\ \A c \in {last_command_, rt_command, rt_data, servo_command_} :
            /\ c = [q |-> c.q, gains |-> c.gains]
            /\ c.q \in 0 .. sent /\ c.gains \in 0 .. sent
  BY JointTypes
<1>2. CASE J!on_activate
  <2>1. /\ ~active /\ active' = TRUE
        /\ last_command_' = [J!Rest EXCEPT !.gains =
               IF variant = "group" THEN 0 ELSE last_command_.gains]
        /\ rt_command' = IF variant = "ros1" THEN last_command_' ELSE J!Rest
        /\ rt_data' = rt_command'
        /\ before' = sent /\ poses' = {} /\ activations' = activations + 1
        /\ joint_overlapped' = (joint_overlapped \/ callback # "idle")
        /\ UNCHANGED <<variant, callback, update, servo_command_, sent, calm>>
    BY <1>2 DEF J!on_activate
  <2>2. /\ joint_overlapped' \in BOOLEAN
        /\ ~joint_overlapped' => callback = "idle"
    BY <2>1, Zenon
  <2>3. last_command_' \in J!Command /\ last_command_'.q = 0
    BY <1>1, <2>1 DEF J!Command, J!Rest
  <2>4. /\ rt_command' \in J!Command /\ rt_command'.q = 0
        /\ rt_data' \in J!Command /\ rt_data'.q = 0
    BY <1>1, <2>1, <2>3
  <2>5. J!Command' = J!Command
    BY <2>1 DEF J!Command
  <2>6. /\ {last_command_, rt_command, rt_data, servo_command_}'
              \subseteq J!Command'
        /\ before' \in 0 .. sent' /\ poses' \subseteq 0 .. sent'
    BY <1>1, <2>1, <2>3, <2>4, <2>5 DEF J!TypeOK
  <2>7. update = "idle"
    BY <2>1 DEF J!TypeOK
  <2>8. J!TypeOK'
    BY <2>1, <2>2, <2>6, <2>7 DEF J!TypeOK
  <2>9. PoseInv'
    BY <2>1, <2>3, <2>4 DEF PoseInv, Stored
  <2>10. WholeInv'
    BY <1>1, <2>1, <2>2, <2>7 DEF WholeInv
  <2> QED
    BY <2>8, <2>9, <2>10
<1>3. CASE J!on_deactivate
  <2>1. /\ update = "idle" /\ active' = FALSE
        /\ last_command_' \in {last_command_, J!Rest}
        /\ rt_command' \in {rt_command, J!Rest}
        /\ rt_data' \in {rt_data, J!Rest}
        /\ UNCHANGED <<variant, callback, update, servo_command_, sent,
                       activations, before, poses, joint_overlapped, calm>>
    BY <1>3 DEF J!on_deactivate, J!history
  <2>2. J!Command' = J!Command
    BY <2>1 DEF J!Command
  <2>3. J!TypeOK'
    BY <1>1, <2>1, <2>2 DEF J!TypeOK
  <2>4. PoseInv'
    BY <1>1, <2>1 DEF PoseInv, Stored
  <2>5. WholeInv'
    BY <2>1 DEF WholeInv
  <2> QED
    BY <2>3, <2>4, <2>5
<1> QED
  BY <1>2, <1>3

\* The real-time thread.
LEMMA UpdateKeeps ==
    ASSUME J!ControllerAssumption, JointInv,
           J!readFromRT \/ J!UpdateQ \/ J!UpdateGains
    PROVE  JointInv'
<1> USE DEF JointInv
<1>1. /\ sent \in Nat /\ before \in Nat /\ before <= sent
      /\ \A c \in {last_command_, rt_command, rt_data, servo_command_} :
            /\ c = [q |-> c.q, gains |-> c.gains]
            /\ c.q \in 0 .. sent /\ c.gains \in 0 .. sent
  BY JointTypes
<1>2. CASE J!readFromRT
  <2>1. /\ active /\ update = "idle" /\ update' = "q"
        /\ rt_data' \in {rt_command, rt_data}
        /\ callback # "write" => rt_data' = rt_command
        /\ last_command_' = rt_data'
        /\ joint_overlapped' = (joint_overlapped \/ callback # "idle")
        /\ calm' = (callback = "idle")
        /\ UNCHANGED <<variant, active, rt_command, callback, servo_command_,
                       sent, activations, before, poses>>
    BY <1>2 DEF J!readFromRT
  <2>2. /\ {joint_overlapped', calm'} \subseteq BOOLEAN
        /\ ~joint_overlapped' => ~joint_overlapped /\ callback = "idle"
        /\ calm' => callback = "idle"
    BY <2>1, Zenon
  <2>3. J!Command' = J!Command
    BY <2>1 DEF J!Command
  <2>4. J!TypeOK'
    BY <2>1, <2>2, <2>3 DEF J!TypeOK
  <2>5. PoseInv'
    BY <2>1 DEF PoseInv, Stored
  <2>6. WholeInv'
    BY <2>1, <2>2 DEF WholeInv, Whole
  <2> QED
    BY <2>4, <2>5, <2>6
<1>3. CASE J!UpdateQ
  <2>1. /\ update = "q" /\ update' = "gains"
        /\ servo_command_' = [servo_command_ EXCEPT !.q = last_command_.q]
        /\ poses' = poses \cup {last_command_.q}
        /\ UNCHANGED <<variant, active, last_command_, rt_command, rt_data,
                       callback, sent, activations, before, joint_overlapped,
                       calm>>
    BY <1>3 DEF J!UpdateQ, J!stored
  <2>2. /\ servo_command_' \in J!Command'
        /\ servo_command_'.q = last_command_.q
    BY <1>1, <2>1 DEF J!Command, J!TypeOK
  <2>3. J!Command' = J!Command
    BY <2>1 DEF J!Command
  <2>4. poses' \subseteq 0 .. sent
    BY <1>1, <2>1 DEF J!TypeOK
  <2>5. J!TypeOK'
    BY <2>1, <2>2, <2>3, <2>4 DEF J!TypeOK
  <2>6. PoseInv'
    BY <2>1 DEF PoseInv, Stored
  <2>7. WholeInv'
    <3>1. Whole.q = sent
      BY DEF Whole
    <3> QED
      BY <2>1, <2>2, <3>1 DEF WholeInv, Whole
  <2> QED
    BY <2>5, <2>6, <2>7
<1>4. CASE J!UpdateGains
  <2>1. /\ update = "gains" /\ update' = "idle"
        /\ servo_command_' =
             [servo_command_ EXCEPT !.gains = last_command_.gains]
        /\ UNCHANGED <<variant, active, last_command_, rt_command, rt_data,
                       callback, sent, activations, before, poses,
                       joint_overlapped, calm>>
    BY <1>4 DEF J!UpdateGains, J!stored, J!history
  <2>2. servo_command_' \in J!Command'
    BY <1>1, <2>1 DEF J!Command, J!TypeOK
  <2>3. J!TypeOK'
    BY <2>1, <2>2 DEF J!TypeOK, J!Command
  <2>4. PoseInv'
    BY <2>1 DEF PoseInv, Stored
  <2>5. WholeInv'
    BY <2>1 DEF WholeInv, Whole
  <2> QED
    BY <2>3, <2>4, <2>5
<1> QED
  BY <1>2, <1>3, <1>4

LEMMA JointNext ==
    ASSUME J!ControllerAssumption, JointInv, [J!Next]_(J!vars)
    PROVE  JointInv'
<1>1. CASE J!Next
  BY <1>1, ReceiveKeeps, ActivateKeeps, UpdateKeeps DEF J!Next
<1>2. CASE UNCHANGED J!vars
  BY <1>2 DEF J!vars, J!stored, J!history, JointInv, J!TypeOK, J!Command,
     PoseInv, Stored, WholeInv, Whole
<1> QED
  BY <1>1, <1>2

LEMMA JointSteps == Spec => J!Spec
<1>1. Init => J!Init
  BY DEF Init
<1>2. [Next]_vars => [J!Next]_(J!vars)
  <2>1. UNCHANGED joint_vars => UNCHANGED J!vars
    BY DEF joint_vars, J!vars, J!stored, J!history
  <2>2. UNCHANGED vars => UNCHANGED joint_vars
    BY DEF vars
  <2> QED
    BY <2>1, <2>2, OthersStay DEF Next
<1> QED
  BY <1>1, <1>2, PTL DEF Spec, J!Spec

\* A controller that is started again is moved by at most one message of before,
\* and a message is used whole by an update in which nothing is received, unless
\* the two threads met while it was stored: for every number of messages and of
\* activations, in all three controllers.
THEOREM JointControllerSafeHolds == Spec => JointControllerSafe
<1>1. J!ControllerAssumption
  BY ControllerAssumption
<1>2. J!Init => JointInv
  BY <1>1, JointInit
<1>3. JointInv /\ [J!Next]_(J!vars) => JointInv'
  BY <1>1, JointNext
<1>4. JointInv => J!TypeOK /\ J!AtMostOneOldPose
  <2> SUFFICES ASSUME JointInv PROVE J!AtMostOneOldPose
    BY DEF JointInv
  <2> USE DEF JointInv
  <2>1. before \in Nat /\ poses \cap 1 .. before \subseteq {before}
    BY <1>1, JointTypes DEF PoseInv
  <2> QED
    BY <2>1 DEF J!AtMostOneOldPose
<1>5. JointInv /\ [J!Next]_(J!vars)
        => [update = "gains" /\ update' = "idle" /\ calm /\ ~joint_overlapped
              /\ sent > before
              => servo_command_' = [q |-> sent, gains |-> sent]]_(J!vars)
  <2> SUFFICES ASSUME JointInv, J!Next, update = "gains", update' = "idle",
                      calm, ~joint_overlapped, sent > before
               PROVE  servo_command_' = [q |-> sent, gains |-> sent]
    OBVIOUS
  <2> USE DEF JointInv
  <2>1. servo_command_' =
          [servo_command_ EXCEPT !.gains = last_command_.gains]
    BY DEF J!Next, J!SetCommandCallback, J!StoreQ, J!StoreGains,
       J!writeFromNonRT, J!on_activate, J!on_deactivate, J!readFromRT,
       J!UpdateQ, J!UpdateGains
  <2>2. last_command_ = Whole /\ servo_command_.q = sent
    BY DEF WholeInv
  <2>3. servo_command_ = [q |-> servo_command_.q, gains |-> servo_command_.gains]
    BY <1>1, JointTypes
  <2> QED
    BY <2>1, <2>2, <2>3 DEF Whole
<1> QED
  BY <1>2, <1>3, <1>4, <1>5, JointSteps, PTL
     DEF J!Spec, JointControllerSafe, J!JointControllerSafe,
         J!UndisturbedUsedWhole
-----------------------------------------------------------------------------
(* The inference runtime, for any files, whatever their inputs and outputs *)
(* are called, in any order and type, and for any values given to them.    *)

\* A row of a tensor has as many elements as the row is wide.
LEMMA ElementsOfRow ==
    ASSUME NEW shape \in Seq(Int), Len(shape) = 2, shape[1] = 1
    PROVE  N!Elements(shape) = shape[2]
<1> DEFINE Step(f) == [d \in 0 .. Len(shape) |->
                          IF d = 0 THEN 1 ELSE f[d - 1] * shape[d]]
           g == [d \in 0 .. 2 |-> IF d = 2 THEN shape[2] ELSE 1]
           Upto == CHOOSE f : f = Step(f)
<1>1. shape[2] \in Int
  OBVIOUS
<1>2. g = Step(g)
  BY <1>1
<1>3. Upto = Step(Upto)
  BY <1>2
<1>4. N!Elements(shape) = Upto[2]
  BY DEF N!Elements
<1> HIDE DEF Upto
<1>5. Upto[0] = 1
  BY <1>3
<1>6. Upto[1] = 1 * 1
  BY <1>3, <1>5
<1>7. Upto[2] = 1 * shape[2]
  BY <1>3, <1>6
<1> QED
  BY <1>1, <1>4, <1>7

\* The nearest whole number is no further than half a number away.
LEMMA NearestWhole ==
    ASSUME NEW v \in Int
    PROVE  /\ N!llround(v) \in Int /\ N!WholeNumber(N!llround(v))
           /\ N!llround(v) - v \in -2 .. 2
  BY DEF N!llround, N!WholeNumber

LEMMA ConvertFacts ==
    ASSUME NEW etype, NEW vals \in Seq(Int)
    PROVE  /\ N!Convert(etype, vals) \in Seq(Int)
           /\ Len(N!Convert(etype, vals)) = Len(vals)
           /\ N!Near(etype, N!Convert(etype, vals), vals)
<1>1. CASE etype = "FLOAT"
  BY <1>1 DEF N!Convert, N!Near
<1>2. CASE etype # "FLOAT"
  <2> DEFINE whole == [i \in DOMAIN vals |-> N!llround(vals[i])]
  <2>1. N!Convert(etype, vals) = whole
    BY <1>2 DEF N!Convert
  <2>2. \A i \in DOMAIN vals :
           /\ whole[i] \in Int /\ N!WholeNumber(whole[i])
           /\ whole[i] - vals[i] \in -2 .. 2
    BY NearestWhole
  <2>3. whole \in Seq(Int) /\ Len(whole) = Len(vals)
    BY <2>2
  <2>4. DOMAIN whole = DOMAIN vals
    OBVIOUS
  <2> HIDE DEF whole
  <2>5. N!Near(etype, whole, vals)
    BY <1>2, <2>2, <2>4 DEF N!Near
  <2> QED
    BY <2>1, <2>3, <2>5
<1> QED
  BY <1>1, <1>2

\* A tensor of one row has all that it was created with.
LEMMA RowTensor ==
    ASSUME NEW etype, NEW data \in Seq(Int), NEW shape \in Seq(Int),
           Len(shape) = 2, shape[1] = 1, shape[2] = Len(data)
    PROVE  /\ N!CanCreate(data, shape)
           /\ N!CreateTensor(etype, data, shape)
                = [etype |-> etype, data |-> data, shape |-> shape]
<1>1. N!Elements(shape) = Len(data)
  BY ElementsOfRow
<1>2. SubSeq(data, 1, Len(data)) = data
  BY SubSeqProperties
<1>3. \A d \in DOMAIN shape : shape[d] >= 0
  <2>1. Len(data) \in Nat /\ DOMAIN shape = 1 .. 2
    OBVIOUS
  <2> QED
    BY <2>1
<1> QED
  BY <1>1, <1>2, <1>3 DEF N!CanCreate, N!CreateTensor

\* A model that is not null was loaded from a file that can be read, by the back
\* end that the name of the file asks for.
LoadedInv ==
    inference_model = N!NoModel
      \/ /\ inference_model \in [type : {"TORCH", "ONNX"}, session : Files,
                                 loaded_ : {TRUE}]
         /\ inference_model.session.extension \in {".pt", ".onnx"}

CallInv ==
    /\ compiled \subseteq {"TORCH", "ONNX"}
    /\ call.of \in {"none", "load_model", "forward", "forward_io"}
    /\ result.status \in {"none", "thrown", "answered"}

InferenceInv == LoadedInv /\ CallInv /\ N!LoadedOrNone /\ N!AnswersByName

\* What the file of a loaded model declares.
LEMMA SessionFacts ==
    ASSUME N!InferenceAssumption, LoadedInv, inference_model # N!NoModel
    PROVE  LET session == inference_model.session
               inputs == N!Elem(session.inputs)
           IN  /\ inference_model.type \in {"TORCH", "ONNX"}
               /\ inference_model.loaded_ = TRUE
               /\ session.inputs \in Seq(inputs) /\ Len(session.inputs) > 0
               /\ session.inputs[1] \in inputs
               /\ \A n \in inputs :
                     /\ n.shape \in Seq(Int) /\ Len(n.shape) = 2
                     /\ n.shape[1] \in {-1, 1}
                     /\ n.shape[2] \in Nat \cup {-1}
               /\ \A n, m \in inputs : n.name = m.name => n = m
<1> DEFINE session == inference_model.session
<1>1. /\ inference_model.type \in {"TORCH", "ONNX"}
      /\ inference_model.loaded_ = TRUE
      /\ session \in Files /\ session.extension \in {".pt", ".onnx"}
  BY DEF LoadedInv
<1> HIDE DEF session
<1>2. /\ session.inputs \in Seq(N!Elem(session.inputs))
      /\ Len(session.inputs) > 0
      /\ \A n \in N!Elem(session.inputs) :
            /\ n.shape \in Seq(Int) /\ Len(n.shape) = 2
            /\ n.shape[1] \in {-1, 1}
            /\ n.shape[2] \in Nat \cup {-1}
      /\ \A n, m \in N!Elem(session.inputs) : n.name = m.name => n = m
  BY <1>1 DEF N!InferenceAssumption
<1>3. session.inputs[1] \in N!Elem(session.inputs)
  BY <1>2
<1> QED
  BY <1>1, <1>2, <1>3 DEF session

\* One input: an observation of its width is answered, or cannot be.
LEMMA ForwardAnswers ==
    ASSUME N!InferenceAssumption, LoadedInv, NEW in \in Values, N!forward(in)
    PROVE  N!LoadedOrNone'
<1> DEFINE session == inference_model.session
           first == session.inputs[1]
           output == session.outputs[1]
           shape == IF inference_model.type = "TORCH" THEN <<1, Len(in)>>
                    ELSE first.shape
           tensors == [n \in {first.name} |->
                          N!CreateTensor("FLOAT", in, shape)]
           runs == /\ inference_model.loaded_
                   /\ N!CanCreate(in, shape)
                   /\ N!CanRun(session, tensors)
<1>1. /\ inference_model # N!NoModel /\ inference_model' = inference_model
      /\ call' = [of |-> "forward", input |-> in]
      /\ result' = IF runs
                   THEN N!Answered([o \in {output} |-> N!Run(tensors, o)])
                   ELSE N!Thrown
  BY DEF N!forward
<1> SUFFICES ASSUME Len(session.inputs) = 1, Len(in) = first.shape[2]
             PROVE  IF \/ first.etype # "FLOAT"
                       \/ inference_model.type = "ONNX" /\ first.shape[1] = -1
                    THEN result' = N!Thrown
                    ELSE /\ result'.status = "answered"
                         /\ result'.answers[output].of[first.name].data = in
  BY <1>1 DEF N!LoadedOrNone
<1>2. /\ inference_model.type \in {"TORCH", "ONNX"}
      /\ inference_model.loaded_ = TRUE
      /\ session.inputs \in Seq(N!Elem(session.inputs))
      /\ first.shape \in Seq(Int) /\ Len(first.shape) = 2
      /\ first.shape[1] \in {-1, 1} /\ first.shape[2] \in Nat \cup {-1}
  BY <1>1, SessionFacts
<1>3. N!Elem(session.inputs) = {first}
  BY <1>2 DEF N!Elem
<1>4. in \in Seq(Int)
  BY DEF N!InferenceAssumption
<1> HIDE DEF session
<1>5. CASE first.etype # "FLOAT"
  <2>1. tensors[first.name].etype = "FLOAT"
    BY DEF N!CreateTensor
  <2>2. ~N!CanRun(session, tensors)
    BY <1>3, <1>5, <2>1 DEF N!CanRun
  <2> QED
    BY <1>1, <1>5, <2>2
<1>6. CASE inference_model.type = "ONNX" /\ first.shape[1] = -1
  <2>1. ~N!CanCreate(in, shape)
    BY <1>2, <1>6 DEF N!CanCreate
  <2> QED
    BY <1>1, <1>6, <2>1
<1>7. CASE /\ first.etype = "FLOAT"
           /\ inference_model.type = "TORCH" \/ first.shape[1] = 1
  <2>1. /\ shape \in Seq(Int) /\ Len(shape) = 2
        /\ shape[1] = 1 /\ shape[2] = Len(in)
    BY <1>2, <1>4, <1>7
  <2> HIDE DEF shape
  <2>2. /\ N!CanCreate(in, shape)
        /\ N!CreateTensor("FLOAT", in, shape)
             = [etype |-> "FLOAT", data |-> in, shape |-> shape]
    BY <1>4, <2>1, RowTensor
  <2>3. tensors[first.name]
          = [etype |-> "FLOAT", data |-> in, shape |-> shape]
    BY <2>2
  <2>4. DOMAIN tensors = {first.name}
    OBVIOUS
  <2> HIDE DEF tensors
  <2>5. \A d \in DOMAIN first.shape : first.shape[d] \in {-1, shape[d]}
    <3>1. DOMAIN first.shape = 1 .. 2
      BY <1>2
    <3> QED
      BY <1>2, <2>1, <3>1
  <2>6. N!CanRun(session, tensors)
    BY <1>2, <1>3, <1>7, <2>1, <2>3, <2>4, <2>5 DEF N!CanRun
  <2>7. result' = N!Answered([o \in {output} |-> N!Run(tensors, o)])
    BY <1>1, <1>2, <2>2, <2>6
  <2>8. /\ result'.status = "answered"
        /\ result'.answers[output].of[first.name].data = in
    BY <2>3, <2>7 DEF N!Answered, N!Run
  <2> QED
    BY <1>7, <2>8
<1> QED
  BY <1>2, <1>5, <1>6, <1>7

\* Inputs by name: what is answered is of what was given under each name, and a
\* call that gives and asks what the file has is answered.
LEMMA ForwardIoAnswers ==
    ASSUME N!InferenceAssumption, LoadedInv,
           NEW given \in SUBSET Names, NEW in \in [given -> Values],
           NEW names \in SUBSET Outputs, N!forward_io(in, names)
    PROVE  N!AnswersByName'
<1> DEFINE session == inference_model.session
           inputs == N!Elem(session.inputs)
           nodes == {n \in inputs : n.name \in DOMAIN in}
           Etype(name) == (CHOOSE n \in nodes : n.name = name).etype
           Data(name) == N!Convert(Etype(name), in[name])
           Shape(name) == <<1, Len(in[name])>>
           tensors == [name \in {n.name : n \in nodes} |->
                        N!CreateTensor(Etype(name), Data(name), Shape(name))]
           runs == /\ inference_model.loaded_ /\ inference_model.type = "ONNX"
                   /\ DOMAIN tensors = DOMAIN in
                   /\ names \subseteq N!Elem(session.outputs)
                   /\ N!CanRun(session, tensors)
<1>1. /\ inference_model # N!NoModel /\ inference_model' = inference_model
      /\ call' = [of |-> "forward_io", inputs |-> in, names |-> names]
      /\ result' = IF runs
                   THEN N!Answered([o \in names |-> N!Run(tensors, o)])
                   ELSE N!Thrown
  BY DEF N!forward_io
<1>2. /\ inference_model.loaded_ = TRUE
      /\ \A n \in inputs :
            /\ n.shape \in Seq(Int) /\ Len(n.shape) = 2
            /\ n.shape[1] \in {-1, 1}
            /\ n.shape[2] \in Nat \cup {-1}
      /\ \A n, m \in inputs : n.name = m.name => n = m
  BY <1>1, SessionFacts
<1>3. \A name \in DOMAIN in : in[name] \in Seq(Int)
  BY DEF N!InferenceAssumption
<1>4. \A n \in nodes : Etype(n.name) = n.etype
  BY <1>2
<1>5. \A n \in nodes :
         tensors[n.name] = [etype |-> n.etype,
                            data |-> N!Convert(n.etype, in[n.name]),
                            shape |-> <<1, Len(in[n.name])>>]
  <2> SUFFICES ASSUME NEW n \in nodes
               PROVE  tensors[n.name] = [etype |-> n.etype,
                            data |-> N!Convert(n.etype, in[n.name]),
                            shape |-> <<1, Len(in[n.name])>>]
    OBVIOUS
  <2> DEFINE data == N!Convert(n.etype, in[n.name])
             row == <<1, Len(in[n.name])>>
  <2>1. in[n.name] \in Seq(Int)
    BY <1>3
  <2>2. data \in Seq(Int) /\ Len(data) = Len(in[n.name])
    BY <2>1, ConvertFacts
  <2>3. tensors[n.name] = N!CreateTensor(n.etype, data, row)
    BY <1>4
  <2>4. row \in Seq(Int) /\ Len(row) = 2 /\ row[1] = 1 /\ row[2] = Len(data)
    BY <2>1, <2>2
  <2> HIDE DEF data, row
  <2>5. N!CreateTensor(n.etype, data, row)
          = [etype |-> n.etype, data |-> data, shape |-> row]
    BY <2>2, <2>4, RowTensor
  <2> QED
    BY <2>3, <2>5 DEF data, row
<1>6. DOMAIN tensors = {n.name : n \in nodes}
  OBVIOUS
<1> HIDE DEF tensors
<1>7. ASSUME runs
      PROVE  \A o \in names : \A n \in inputs :
                N!Near(n.etype, N!Run(tensors, o).of[n.name].data, in[n.name])
  <2> SUFFICES ASSUME NEW o \in names, NEW n \in inputs
               PROVE  N!Near(n.etype, N!Run(tensors, o).of[n.name].data,
                             in[n.name])
    OBVIOUS
  <2>1. n.name \in DOMAIN in
    BY <1>7 DEF N!CanRun
  <2>2. N!Run(tensors, o).of[n.name].data = N!Convert(n.etype, in[n.name])
    <3>1. N!Run(tensors, o).of = tensors
      BY DEF N!Run
    <3>2. tensors[n.name].data = N!Convert(n.etype, in[n.name])
      <4>1. n \in nodes
        BY <2>1
      <4>2. tensors[n.name] = [etype |-> n.etype,
                               data |-> N!Convert(n.etype, in[n.name]),
                               shape |-> <<1, Len(in[n.name])>>]
        BY <1>5, <4>1
      <4> QED
        BY <4>2
    <3> QED
      BY <3>1, <3>2, Zenon
  <2> QED
    BY <1>3, <2>1, <2>2, ConvertFacts
<1>8. ASSUME inference_model.type = "ONNX",
             DOMAIN in = {n.name : n \in inputs},
             \A n \in inputs : n.shape[2] \in {-1, Len(in[n.name])},
             names \subseteq N!Elem(session.outputs)
      PROVE  runs
  <2>1. nodes = inputs
    BY <1>8
  <2>2. DOMAIN tensors = {n.name : n \in inputs}
    BY <1>6, <2>1
  <2>3. ASSUME NEW n \in inputs
        PROVE  /\ tensors[n.name].etype = n.etype
               /\ Len(tensors[n.name].shape) = Len(n.shape)
               /\ \A d \in DOMAIN n.shape :
                     n.shape[d] \in {-1, tensors[n.name].shape[d]}
    <3>1. tensors[n.name] = [etype |-> n.etype,
                             data |-> N!Convert(n.etype, in[n.name]),
                             shape |-> <<1, Len(in[n.name])>>]
      BY <1>5, <2>1
    <3>2. DOMAIN n.shape = 1 .. 2
      BY <1>2
    <3> QED
      BY <1>2, <1>8, <3>1, <3>2
  <2>4. N!CanRun(session, tensors)
    BY <2>2, <2>3 DEF N!CanRun
  <2> QED
    BY <1>2, <1>8, <2>2, <2>4
<1> HIDE DEF runs
<1>9. CASE runs
  <2>1. result' = [status |-> "answered",
                   answers |-> [o \in names |-> N!Run(tensors, o)]]
    BY <1>1, <1>9 DEF N!Answered
  <2>2. \A o \in names : result'.answers[o] = N!Run(tensors, o)
    BY <2>1
  <2>3. \A o \in names : \A n \in inputs :
           /\ result'.answers[o].output = o
           /\ N!Near(n.etype, result'.answers[o].of[n.name].data, in[n.name])
    <3>1. \A o \in names : N!Run(tensors, o).output = o
      BY DEF N!Run
    <3> QED
      BY <1>7, <1>9, <2>2, <3>1, Zenon
  <2> QED
    BY <1>1, <2>1, <2>3 DEF N!AnswersByName
<1>10. CASE ~runs
  <2>1. result' = N!Thrown
    BY <1>1, <1>10
  <2>2. result'.status = "thrown"
    BY <2>1 DEF N!Thrown
  <2> QED
    BY <1>1, <1>8, <1>10, <2>2 DEF N!AnswersByName
<1> QED
  BY <1>9, <1>10

LEMMA InferenceNext ==
    ASSUME N!InferenceAssumption, InferenceInv, [N!Next]_(N!vars)
    PROVE  InferenceInv'
<1> USE DEF InferenceInv
<1>1. ASSUME NEW file \in Files, N!load_model(file) PROVE InferenceInv'
  <2>1. /\ call' = [of |-> "load_model", file |-> file]
        /\ UNCHANGED compiled
        /\ \/ result' = N!Thrown /\ UNCHANGED inference_model
           \/ /\ result' = N!Answered(<<>>)
              /\ N!detect_model_type(file) # "unknown"
              /\ inference_model' = N!Loaded(N!detect_model_type(file), file)
    BY <1>1 DEF N!load_model
  <2>2. LoadedInv'
    <3>1. CASE UNCHANGED inference_model
      BY <3>1 DEF LoadedInv
    <3>2. CASE /\ N!detect_model_type(file) # "unknown"
               /\ inference_model' = N!Loaded(N!detect_model_type(file), file)
      <4>1. /\ file.extension \in {".pt", ".onnx"}
            /\ N!detect_model_type(file) \in {"TORCH", "ONNX"}
        BY <3>2 DEF N!detect_model_type
      <4>2. \/ inference_model' = N!NoModel
            \/ inference_model' = [type |-> N!detect_model_type(file),
                                   session |-> file, loaded_ |-> TRUE]
        BY <3>2 DEF N!Loaded
      <4>3. CASE inference_model' = N!NoModel
        BY <4>3 DEF LoadedInv
      <4>4. CASE inference_model' = [type |-> N!detect_model_type(file),
                                     session |-> file, loaded_ |-> TRUE]
        <5>1. /\ inference_model'
                   \in [type : {"TORCH", "ONNX"}, session : Files,
                        loaded_ : {TRUE}]
              /\ inference_model'.session = file
          BY <4>1, <4>4
        <5> QED
          BY <4>1, <5>1 DEF LoadedInv
      <4> QED
        BY <4>2, <4>3, <4>4
    <3> QED
      BY <2>1, <3>1, <3>2
  <2>3. result'.status \in {"thrown", "answered"}
    BY <2>1 DEF N!Thrown, N!Answered
  <2> QED
    BY <2>1, <2>2, <2>3 DEF CallInv, N!LoadedOrNone, N!AnswersByName
<1>2. ASSUME NEW in \in Values, N!forward(in) PROVE InferenceInv'
  <2>1. /\ call'.of = "forward" /\ UNCHANGED <<compiled, inference_model>>
        /\ result'.status \in {"thrown", "answered"}
    BY <1>2 DEF N!forward, N!Thrown, N!Answered
  <2>2. N!LoadedOrNone'
    BY <1>2, ForwardAnswers
  <2> QED
    BY <2>1, <2>2 DEF LoadedInv, CallInv, N!AnswersByName
<1>3. ASSUME NEW given \in SUBSET Names, NEW in \in [given -> Values],
             NEW names \in SUBSET Outputs, N!forward_io(in, names)
      PROVE  InferenceInv'
  <2>1. /\ call'.of = "forward_io" /\ UNCHANGED <<compiled, inference_model>>
        /\ result'.status \in {"thrown", "answered"}
    BY <1>3 DEF N!forward_io, N!Thrown, N!Answered
  <2>2. N!AnswersByName'
    BY <1>3, ForwardIoAnswers
  <2> QED
    BY <2>1, <2>2 DEF LoadedInv, CallInv, N!LoadedOrNone
<1>4. CASE N!Return
  <2>1. /\ call'.of = "none" /\ UNCHANGED <<compiled, inference_model>>
        /\ result'.status = "none"
    BY <1>4 DEF N!Return, N!NoCall, N!None
  <2> QED
    BY <2>1 DEF LoadedInv, CallInv, N!LoadedOrNone, N!AnswersByName
<1>5. CASE UNCHANGED N!vars
  BY <1>5 DEF N!vars, LoadedInv, CallInv, N!LoadedOrNone, N!AnswersByName
<1> QED
  BY <1>1, <1>2, <1>3, <1>4, <1>5 DEF N!Next

LEMMA InferenceInit == N!Init => InferenceInv
<1> SUFFICES ASSUME N!Init PROVE InferenceInv
  OBVIOUS
<1>1. /\ compiled \subseteq {"TORCH", "ONNX"}
      /\ inference_model = N!NoModel
      /\ call.of = "none" /\ result.status = "none"
  BY DEF N!Init, N!NoCall, N!None
<1> QED
  BY <1>1 DEF InferenceInv, LoadedInv, CallInv, N!LoadedOrNone, N!AnswersByName

LEMMA InferenceSteps == Spec => N!Spec
<1>1. Init => N!Init
  BY DEF Init
<1>2. [Next]_vars => [N!Next]_(N!vars)
  <2>1. UNCHANGED inference_vars => UNCHANGED N!vars
    BY DEF inference_vars, N!vars
  <2>2. UNCHANGED vars => UNCHANGED inference_vars
    BY DEF vars
  <2> QED
    BY <2>1, <2>2, OthersStay DEF Next
<1> QED
  BY <1>1, <1>2, PTL DEF Spec, N!Spec

\* A model that is handed out can be called, and answers an observation of its
\* width with the whole of it; by name each output is computed of what was given
\* to each input under its name, in the nearest numbers of its type: for any
\* files and any values.
THEOREM InferenceSafeHolds == Spec => []InferenceSafe
<1>1. N!InferenceAssumption
  BY InferenceAssumption
<1>2. N!Init => InferenceInv
  BY InferenceInit
<1>3. InferenceInv /\ [N!Next]_(N!vars) => InferenceInv'
  BY <1>1, InferenceNext
<1>4. InferenceInv => InferenceSafe
  <2>1. LoadedInv => \/ inference_model = N!NoModel
                     \/ inference_model \in [type : {"TORCH", "ONNX"},
                                             session : Files,
                                             loaded_ : BOOLEAN]
    BY DEF LoadedInv
  <2> QED
    BY <2>1 DEF InferenceInv, CallInv, InferenceSafe, N!InferenceSafe, N!TypeOK
<1> QED
  BY <1>2, <1>3, <1>4, InferenceSteps, PTL DEF Spec, N!Spec
-----------------------------------------------------------------------------
(* The input of the network, for any number of passes.  Sum and FlattenSeq *)
(* are recursive functions: a lemma says that there is one, another what   *)
(* its values are, both from the first index at which that fails.          *)

LEMMA FirstOf ==
    ASSUME NEW S \in SUBSET Nat, S # {}
    PROVE  \E i \in S : \A j \in S : i <= j
<1> DEFINE less == OpToRel(<, Nat)
<1>1. \A i, j \in Nat : <<i, j>> \in less <=> i < j
  BY DEF OpToRel
<1>2. IsWellFoundedOn(less, Nat)
  BY NatLessThanWellFounded, Zenon
<1> HIDE DEF less
<1>3. PICK i \in S : \A j \in S : <<j, i>> \notin less
  BY <1>2, WFMin
<1>4. ASSUME NEW j \in S PROVE i <= j
  <2>1. i \in Nat /\ j \in Nat /\ ~(j < i)
    BY <1>1, <1>3
  <2> QED
    BY <2>1
<1> QED
  BY <1>4

\* g[i] is the sum of the first i of n widths.
PartialSums(w, n, g) ==
    /\ g \in [0 .. n -> Int] /\ g[0] = 0
    /\ \A i \in 1 .. n : w[i] \in Int /\ g[i] = g[i - 1] + w[i]

LEMMA PartialSumsExist ==
    ASSUME NEW n \in Nat, NEW w, \A i \in 1 .. n : w[i] \in Int
    PROVE  \E g : PartialSums(w, n, g)
<1> DEFINE Ok(m) == \E g : PartialSums(w, m, g)
           Bad == {m \in 0 .. n : ~Ok(m)}
<1> HIDE DEF Ok
<1>1. SUFFICES ASSUME Bad # {} PROVE FALSE
  <2>1. n \in 0 .. n
    OBVIOUS
  <2>2. Bad = {} => Ok(n)
    BY <2>1
  <2> QED
    BY <2>2 DEF Ok
<1>2. /\ Bad \in SUBSET Nat
      /\ \A m : m \in Bad <=> m \in 0 .. n /\ ~Ok(m)
  OBVIOUS
<1> HIDE DEF Bad
<1>3. PICK m \in Bad : \A k \in Bad : m <= k
  BY <1>1, <1>2, FirstOf
<1>4. m # 0
  <2> DEFINE z == [i \in 0 .. 0 |-> 0]
  <2>1. PartialSums(w, 0, z)
    BY DEF PartialSums
  <2> QED
    BY <1>2, <1>3, <2>1 DEF Ok
<1>5. m \in 1 .. n /\ m - 1 \in 0 .. n /\ m - 1 \notin Bad
  BY <1>2, <1>3, <1>4
<1>6. PICK g : PartialSums(w, m - 1, g)
  BY <1>2, <1>5 DEF Ok
<1> DEFINE h == [i \in 0 .. m |-> IF i = m THEN g[m - 1] + w[m] ELSE g[i]]
<1>7. w[m] \in Int /\ m \in Int
  BY <1>5
<1>8. h \in [0 .. m -> Int] /\ h[0] = 0
  BY <1>5, <1>6, <1>7 DEF PartialSums
<1>9. ASSUME NEW i \in 1 .. m PROVE w[i] \in Int /\ h[i] = h[i - 1] + w[i]
  <2>1. CASE i = m
    BY <1>5, <1>7, <2>1
  <2>2. CASE i # m
    <3>1. i \in 1 .. m - 1 /\ i \in 0 .. m /\ i - 1 \in 0 .. m /\ i - 1 # m
      BY <1>5, <2>2
    <3>2. h[i] = g[i] /\ h[i - 1] = g[i - 1]
      BY <2>2, <3>1
    <3> QED
      BY <1>6, <3>1, <3>2 DEF PartialSums
  <2> QED
    BY <2>1, <2>2
<1> HIDE DEF h
<1>10. PartialSums(w, m, h)
  BY <1>8, <1>9 DEF PartialSums
<1> QED
  BY <1>2, <1>3, <1>10 DEF Ok

LEMMA SumIs ==
    ASSUME NEW w \in Seq(Int), NEW g, PartialSums(w, Len(w), g)
    PROVE  M!Sum(w) = g[Len(w)]
<1> DEFINE Step(f) == [n \in 0 .. Len(w) |->
                          IF n = 0 THEN 0 ELSE f[n - 1] + w[n]]
           Upto == CHOOSE f : f = Step(f)
<1>1. g = Step(g)
  BY DEF PartialSums
<1>2. Upto = Step(Upto)
  BY <1>1
<1>3. M!Sum(w) = Upto[Len(w)]
  BY DEF M!Sum
<1> HIDE DEF Upto
<1>4. Upto[0] = 0 /\ \A i \in 1 .. Len(w) : Upto[i] = Upto[i - 1] + w[i]
  <2> DEFINE n == Len(w)
  <2>1. n \in Nat
    OBVIOUS
  <2>2. \A i \in 0 .. n :
           Upto[i] = IF i = 0 THEN 0 ELSE Upto[i - 1] + w[i]
    BY <1>2
  <2> HIDE DEF n
  <2>3. Upto[0] = 0 /\ \A i \in 1 .. n : Upto[i] = Upto[i - 1] + w[i]
    BY <2>1, <2>2
  <2> QED
    BY <2>3 DEF n
<1>5. Len(w) \in Nat /\ \A i \in 1 .. Len(w) : w[i] \in Int
  OBVIOUS
<1> DEFINE Bad == {i \in 0 .. Len(w) : Upto[i] # g[i]}
<1>6. /\ Bad \in SUBSET Nat
      /\ \A i : i \in Bad <=> i \in 0 .. Len(w) /\ Upto[i] # g[i]
  OBVIOUS
<1> HIDE DEF Bad
<1>7. ASSUME Bad # {} PROVE FALSE
  <2>1. PICK i \in Bad : \A j \in Bad : i <= j
    BY <1>6, <1>7, FirstOf
  <2>2. i \in 1 .. Len(w) /\ i - 1 \in 0 .. Len(w) /\ i - 1 \notin Bad
    BY <1>4, <1>6, <2>1 DEF PartialSums
  <2>3. Upto[i - 1] = g[i - 1]
    BY <1>6, <2>2
  <2> QED
    BY <1>4, <1>6, <2>1, <2>2, <2>3 DEF PartialSums
<1> QED
  BY <1>3, <1>5, <1>6, <1>7

\* c has the first la of a, then the first lb of b.
Joined(a, la, b, lb, c) ==
    /\ \A i \in 1 .. la : c[i] = a[i]
    /\ \A i \in la + 1 .. la + lb : c[i] = b[i - la]

LEMMA PartialSumsOfConcat ==
    ASSUME NEW la \in Nat, NEW lb \in Nat, NEW a, NEW b, NEW c, NEW f, NEW g,
           PartialSums(a, la, f), PartialSums(b, lb, g),
           Joined(a, la, b, lb, c)
    PROVE  \E h : PartialSums(c, la + lb, h) /\ h[la + lb] = f[la] + g[lb]
<1> DEFINE h == [i \in 0 .. la + lb |->
                    IF i <= la THEN f[i] ELSE f[la] + g[i - la]]
<1>1. /\ f \in [0 .. la -> Int] /\ f[0] = 0
      /\ \A i \in 1 .. la : a[i] \in Int /\ f[i] = f[i - 1] + a[i]
      /\ g \in [0 .. lb -> Int] /\ g[0] = 0
      /\ \A i \in 1 .. lb : b[i] \in Int /\ g[i] = g[i - 1] + b[i]
      /\ \A i \in 1 .. la : c[i] = a[i]
      /\ \A i \in la + 1 .. la + lb : c[i] = b[i - la]
  BY DEF PartialSums, Joined
<1>2. f[la] \in Int /\ g[lb] \in Int
  BY <1>1
<1>3. h[0] = 0 /\ h[la + lb] = f[la] + g[lb]
  <2>1. CASE lb = 0
    BY <1>1, <1>2, <2>1
  <2>2. CASE lb # 0
    <3>1. 0 \in 0 .. la + lb /\ la + lb \in 0 .. la + lb
      OBVIOUS
    <3>2. ~(la + lb <= la) /\ (la + lb) - la = lb
      BY <2>2
    <3> QED
      BY <1>1, <3>1, <3>2
  <2> QED
    BY <2>1, <2>2
<1>4. ASSUME NEW i \in 0 .. la + lb PROVE h[i] \in Int
  <2>1. i > la => i - la \in 0 .. lb
    OBVIOUS
  <2> QED
    BY <1>1, <1>2, <2>1
<1>5. ASSUME NEW i \in 1 .. la + lb PROVE c[i] \in Int /\ h[i] = h[i - 1] + c[i]
  <2>1. CASE i <= la
    <3>1. /\ i \in 1 .. la /\ i \in 0 .. la + lb /\ i - 1 \in 0 .. la + lb
          /\ i - 1 <= la
      BY <2>1
    <3>2. h[i] = f[i] /\ h[i - 1] = f[i - 1]
      BY <2>1, <3>1
    <3> HIDE DEF h
    <3> QED
      BY <1>1, <3>1, <3>2
  <2>2. CASE i = la + 1
    <3>1. /\ i \in la + 1 .. la + lb /\ 1 \in 1 .. lb
          /\ i - la = 1 /\ i - 1 = la /\ ~(i <= la)
          /\ i \in 0 .. la + lb /\ la \in 0 .. la + lb
      BY <2>2
    <3>2. g[1] = b[1] /\ c[i] = b[1] /\ b[1] \in Int
      BY <1>1, <3>1
    <3>3. h[i] = f[la] + g[1] /\ h[i - 1] = f[la]
      BY <3>1
    <3> HIDE DEF h
    <3> QED
      BY <1>2, <3>2, <3>3
  <2>3. CASE i > la + 1
    <3> DEFINE j == i - la
    <3>1. /\ i \in la + 1 .. la + lb /\ j \in 1 .. lb /\ j - 1 \in 0 .. lb
          /\ j - 1 = (i - 1) - la /\ i - 1 > la
      BY <2>3
    <3>2. /\ g[j] = g[j - 1] + b[j] /\ c[i] = b[j] /\ b[j] \in Int
          /\ g[j - 1] \in Int
      BY <1>1, <3>1
    <3>3. h[i] = f[la] + g[j] /\ h[i - 1] = f[la] + g[j - 1]
      BY <3>1
    <3> HIDE DEF h, j
    <3> QED
      BY <1>2, <3>2, <3>3
  <2> QED
    BY <2>1, <2>2, <2>3
<1>6. h \in [0 .. la + lb -> Int]
  <2>1. DOMAIN h = 0 .. la + lb
    OBVIOUS
  <2> QED
    BY <1>4, <2>1
<1> HIDE DEF h
<1>7. PartialSums(c, la + lb, h)
  BY <1>3, <1>5, <1>6 DEF PartialSums
<1> QED
  BY <1>3, <1>7

LEMMA SumOfConcat ==
    ASSUME NEW a \in Seq(Int), NEW b \in Seq(Int)
    PROVE  /\ M!Sum(a) \in Int /\ M!Sum(b) \in Int
           /\ M!Sum(a \o b) = M!Sum(a) + M!Sum(b)
<1> DEFINE la == Len(a)
           lb == Len(b)
           c == a \o b
<1>1. /\ la \in Nat /\ lb \in Nat
      /\ \A i \in 1 .. la : a[i] \in Int
      /\ \A i \in 1 .. lb : b[i] \in Int
  OBVIOUS
<1>2. PICK f : PartialSums(a, la, f)
  BY <1>1, PartialSumsExist
<1>3. PICK g : PartialSums(b, lb, g)
  BY <1>1, PartialSumsExist
<1>4. M!Sum(a) = f[la] /\ M!Sum(b) = g[lb]
  BY <1>2, <1>3, SumIs
<1>5. /\ c \in Seq(Int) /\ Len(c) = la + lb
      /\ Joined(a, la, b, lb, c)
  BY ConcatProperties DEF Joined
<1> HIDE DEF c, la, lb
<1>6. PICK h : PartialSums(c, la + lb, h) /\ h[la + lb] = f[la] + g[lb]
  BY <1>1, <1>2, <1>3, <1>5, PartialSumsOfConcat
<1>7. M!Sum(c) = f[la] + g[lb]
  BY <1>5, <1>6, SumIs
<1>8. f[la] \in Int /\ g[lb] \in Int
  BY <1>1, <1>2, <1>3 DEF PartialSums
<1> QED
  BY <1>4, <1>7, <1>8 DEF c

\* f[i] is the first i of n sequences, one after the other.
Flattens(seqs, n, f) ==
    /\ DOMAIN f = 1 .. n
    /\ \A i \in 1 .. n :
          f[i] = IF i = 1 THEN seqs[i] ELSE f[i - 1] \o seqs[i]

LEMMA FlattensExist ==
    ASSUME NEW n \in Nat, NEW seqs
    PROVE  \E f : f = [i \in 1 .. n |-> IF i = 1 THEN seqs[i]
                                        ELSE f[i - 1] \o seqs[i]]
<1> DEFINE Step(m, f) == [i \in 1 .. m |-> IF i = 1 THEN seqs[i]
                                           ELSE f[i - 1] \o seqs[i]]
           Ok(m) == \E f : f = Step(m, f)
           Bad == {m \in 0 .. n : ~Ok(m)}
<1> HIDE DEF Ok
<1>1. SUFFICES ASSUME Bad # {} PROVE FALSE
  <2>1. n \in 0 .. n
    OBVIOUS
  <2>2. Bad = {} => Ok(n)
    BY <2>1
  <2> QED
    BY <2>2 DEF Ok
<1>2. /\ Bad \in SUBSET Nat
      /\ \A m : m \in Bad <=> m \in 0 .. n /\ ~Ok(m)
  OBVIOUS
<1> HIDE DEF Bad
<1>3. PICK m \in Bad : \A k \in Bad : m <= k
  BY <1>1, <1>2, FirstOf
<1>4. m # 0
  <2> DEFINE z == [i \in 1 .. 0 |-> 0]
  <2>1. z = Step(0, z)
    OBVIOUS
  <2> QED
    BY <1>2, <1>3, <2>1 DEF Ok
<1>5. m \in 1 .. n /\ m - 1 \in 0 .. n /\ m - 1 \notin Bad
  BY <1>2, <1>3, <1>4
<1>6. PICK f : f = Step(m - 1, f)
  BY <1>2, <1>5 DEF Ok
<1> DEFINE h == [i \in 1 .. m |-> IF i = m THEN IF m = 1 THEN seqs[m]
                                               ELSE f[m - 1] \o seqs[m]
                                  ELSE f[i]]
<1>7. ASSUME NEW i \in 1 .. m
      PROVE  h[i] = IF i = 1 THEN seqs[i] ELSE h[i - 1] \o seqs[i]
  <2>1. CASE i = m
    <3>1. i # 1 => i - 1 \in 1 .. m /\ i - 1 # m
      BY <2>1
    <3> QED
      BY <2>1, <3>1
  <2>2. CASE i # m
    <3>1. i \in 1 .. m - 1
      BY <1>5, <2>2
    <3>2. f[i] = IF i = 1 THEN seqs[i] ELSE f[i - 1] \o seqs[i]
      BY <1>6, <3>1
    <3>3. i # 1 => i - 1 \in 1 .. m /\ i - 1 # m
      BY <1>5, <2>2
    <3> QED
      BY <2>2, <3>2, <3>3
  <2> QED
    BY <2>1, <2>2
<1>8. DOMAIN h = 1 .. m /\ h = [i \in 1 .. m |-> h[i]]
  OBVIOUS
<1> HIDE DEF h
<1>9. h = Step(m, h)
  BY <1>7, <1>8
<1>10. Ok(m)
  <2>1. \E g : g = Step(m, g)
    BY <1>9
  <2> QED
    BY <2>1 DEF Ok
<1> QED
  BY <1>2, <1>3, <1>10

LEMMA FlattenSeqIs ==
    ASSUME NEW S, NEW seqs \in Seq(S), Len(seqs) > 0
    PROVE  \E f : /\ Flattens(seqs, Len(seqs), f)
                  /\ M!FlattenSeq(seqs) = f[Len(seqs)]
<1> DEFINE n == Len(seqs)
           Step(f) == [i \in 1 .. n |-> IF i = 1 THEN seqs[i]
                                        ELSE f[i - 1] \o seqs[i]]
           flatten == CHOOSE f : f = Step(f)
<1>1. n \in Nat
  OBVIOUS
<1>2. \E f : f = Step(f)
  BY <1>1, FlattensExist
<1>3. flatten = Step(flatten)
  BY <1>2
<1>4. M!FlattenSeq(seqs) = flatten[n]
  BY DEF M!FlattenSeq
<1> HIDE DEF flatten, n
<1>5. Flattens(seqs, n, flatten)
  BY <1>3 DEF Flattens
<1> QED
  BY <1>4, <1>5 DEF n

LEMMA Products ==
    ASSUME NEW a \in Nat, NEW b \in Nat, NEW T \in Nat
    PROVE  /\ a * T \in Nat
           /\ (a + 1) * T = a * T + T
           /\ a <= b => a * T <= b * T
  OBVIOUS

\* r has the first i sequences, each of length T, one after the other.
Blocks(seqs, i, T, S, r) ==
    /\ r \in Seq(S) /\ Len(r) = i * T
    /\ \A k \in 1 .. i, t \in 1 .. T : r[(k - 1) * T + t] = seqs[k][t]

LEMMA BlocksGrow ==
    ASSUME NEW S, NEW T \in Nat, NEW i \in Nat, NEW seqs, NEW r,
           Blocks(seqs, i, T, S, r),
           seqs[i + 1] \in Seq(S), Len(seqs[i + 1]) = T
    PROVE  Blocks(seqs, i + 1, T, S, r \o seqs[i + 1])
<1> DEFINE s == seqs[i + 1]
           c == r \o s
           l == i * T
<1>1. /\ r \in Seq(S) /\ Len(r) = l
      /\ \A k \in 1 .. i, t \in 1 .. T : r[(k - 1) * T + t] = seqs[k][t]
  BY DEF Blocks
<1>2. l \in Nat /\ (i + 1) * T = l + T
  BY Products
<1>6. s \in Seq(S) /\ Len(s) = T
  OBVIOUS
<1> HIDE DEF l, s
<1>3. /\ c \in Seq(S) /\ Len(c) = l + T
      /\ \A j \in 1 .. l : c[j] = r[j]
      /\ \A j \in l + 1 .. l + T : c[j] = s[j - l]
  <2>1. /\ r \o s \in Seq(S)
        /\ Len(r \o s) = Len(r) + Len(s)
        /\ \A j \in 1 .. Len(r) + Len(s) :
              (r \o s)[j] = IF j <= Len(r) THEN r[j] ELSE s[j - Len(r)]
    BY <1>1, <1>6, ConcatProperties
  <2>2. /\ c \in Seq(S) /\ Len(c) = l + T
        /\ \A j \in 1 .. l + T : c[j] = IF j <= l THEN r[j] ELSE s[j - l]
    BY <1>1, <1>6, <2>1
  <2> HIDE DEF c
  <2> QED
    BY <1>2, <2>2
<1> HIDE DEF c
<1>4. ASSUME NEW k \in 1 .. i + 1, NEW t \in 1 .. T
      PROVE  c[(k - 1) * T + t] = seqs[k][t]
  <2>1. CASE k = i + 1
    <3>1. (k - 1) * T = l
      BY <2>1 DEF l
    <3>2. l + t \in l + 1 .. l + T /\ (l + t) - l = t
      BY <1>2
    <3>3. c[l + t] = s[t]
      BY <1>3, <3>2
    <3> QED
      BY <2>1, <3>1, <3>3 DEF s
  <2>2. CASE k # i + 1
    <3> DEFINE prior == (k - 1) * T
    <3>1. k \in 1 .. i /\ k \in Nat /\ k - 1 \in Nat /\ k <= i /\ (k - 1) + 1 = k
      BY <2>2
    <3>2. prior \in Nat /\ prior + T = k * T /\ k * T <= l
      BY <3>1, Products DEF l
    <3>3. r[prior + t] = seqs[k][t]
      BY <1>1, <3>1
    <3> HIDE DEF prior
    <3>4. prior + t \in 1 .. l
      BY <1>2, <3>2
    <3>5. c[prior + t] = seqs[k][t]
      BY <1>3, <3>3, <3>4
    <3> QED
      BY <3>5 DEF prior
  <2> QED
    BY <2>1, <2>2
<1>5. Blocks(seqs, i + 1, T, S, c)
  BY <1>2, <1>3, <1>4 DEF Blocks
<1> QED
  BY <1>5 DEF c, s

LEMMA FlattenedBlocks ==
    ASSUME NEW S, NEW T \in Nat, NEW n \in Nat, NEW seqs, NEW f,
           Flattens(seqs, n, f),
           \A k \in 1 .. n : seqs[k] \in Seq(S) /\ Len(seqs[k]) = T
    PROVE  \A i \in 1 .. n : Blocks(seqs, i, T, S, f[i])
<1> DEFINE Bad == {i \in 1 .. n : ~Blocks(seqs, i, T, S, f[i])}
<1>1. /\ Bad \in SUBSET Nat
      /\ \A i : i \in Bad <=> i \in 1 .. n /\ ~Blocks(seqs, i, T, S, f[i])
  OBVIOUS
<1> HIDE DEF Bad
<1>2. ASSUME Bad # {} PROVE FALSE
  <2>1. PICK i \in Bad : \A j \in Bad : i <= j
    BY <1>1, <1>2, FirstOf
  <2>2. i \in 1 .. n
    BY <1>1, <2>1
  <2>3. CASE i = 1
    <3>1. f[1] = seqs[1] /\ seqs[1] \in Seq(S) /\ Len(seqs[1]) = T
      BY <2>2, <2>3 DEF Flattens
    <3>2. 1 * T = T /\ \A k \in 1 .. 1 : k = 1 /\ (k - 1) * T = 0
      BY Products
    <3>3. Blocks(seqs, 1, T, S, f[1])
      BY <3>1, <3>2 DEF Blocks
    <3> QED
      BY <1>1, <2>1, <2>3, <3>3
  <2>4. CASE i # 1
    <3> DEFINE j == i - 1
    <3>1. /\ j \in 1 .. n /\ j \in Nat /\ j + 1 = i /\ ~(i <= j)
      BY <2>2, <2>4
    <3> HIDE DEF j
    <3>2. Blocks(seqs, j, T, S, f[j])
      BY <1>1, <2>1, <3>1
    <3>3. f[i] = f[j] \o seqs[i]
      BY <2>2, <2>4 DEF Flattens, j
    <3>4. seqs[j + 1] \in Seq(S) /\ Len(seqs[j + 1]) = T
      BY <2>2, <3>1
    <3>5. Blocks(seqs, j + 1, T, S, f[j] \o seqs[j + 1])
      BY <3>1, <3>2, <3>4, BlocksGrow
    <3> QED
      BY <1>1, <2>1, <3>1, <3>3, <3>5
  <2> QED
    BY <2>3, <2>4
<1> QED
  BY <1>1, <1>2

\* What the network is given is made of blocks, a number of a pass and a term.
Block(c) == Nat \X (1 .. Len(c.terms))

\* The widths of the blocks of a sequence, and of all of them together.
Widths(c, s) == [b \in DOMAIN s |-> M!Width(c.terms[s[b][2]], c.dofs)]
Total(c, s) == M!Sum(Widths(c, s))

\* What the configurations of the repository have in common: the terms are as
\* wide as the network together; of the ids one is the largest, and one is below
\* the number of terms.
WellFormed(c) ==
    /\ Len(c.terms) \in Nat /\ Len(c.terms) > 0
    /\ DOMAIN c.terms = 1 .. Len(c.terms)
    /\ \A t \in 1 .. Len(c.terms) : M!Width(c.terms[t], c.dofs) \in Int
    /\ c.num \in Int /\ M!Sum(M!obs_dims(c)) = c.num
    /\ c.ids \in Seq(Nat)
    /\ c.priority \in {"time", "term"}
    /\ c.ids # <<>> =>
          /\ \E k \in DOMAIN c.ids : c.ids[k] < Len(c.terms)
          /\ \E k \in DOMAIN c.ids : \A j \in DOMAIN c.ids : c.ids[j] <= c.ids[k]

LEMMA FramesFacts ==
    ASSUME NEW c, WellFormed(c), c.ids # <<>>
    PROVE  /\ M!FramesOf(c) \in Nat /\ M!FramesOf(c) > 0
           /\ \A k \in DOMAIN c.ids : c.ids[k] \in 0 .. M!FramesOf(c) - 1
<1> DEFINE ids == {c.ids[k] : k \in DOMAIN c.ids}
           most == CHOOSE i \in ids : \A j \in ids : j <= i
<1>1. \A k \in DOMAIN c.ids : c.ids[k] \in Nat
  BY DEF WellFormed
<1>2. PICK k \in DOMAIN c.ids : \A j \in DOMAIN c.ids : c.ids[j] <= c.ids[k]
  BY DEF WellFormed
<1>3. c.ids[k] \in ids /\ \A j \in ids : j <= c.ids[k]
  BY <1>2
<1>4. most \in ids /\ \A j \in ids : j <= most
  BY <1>3
<1>5. most \in Nat
  BY <1>1, <1>4
<1>6. M!FramesOf(c) = 1 + most
  BY DEF M!FramesOf, M!Range
<1>7. \A j \in DOMAIN c.ids : c.ids[j] <= most
  BY <1>4
<1> HIDE DEF most
<1> QED
  BY <1>1, <1>5, <1>6, <1>7

LEMMA WidthsFacts ==
    ASSUME NEW c, WellFormed(c), NEW s \in Seq(Block(c))
    PROVE  /\ Widths(c, s) \in Seq(Int) /\ Len(Widths(c, s)) = Len(s)
           /\ Total(c, s) \in Int
<1>1. \A b \in DOMAIN s : M!Width(c.terms[s[b][2]], c.dofs) \in Int
  <2>1. \A b \in DOMAIN s : s[b] \in Block(c)
    OBVIOUS
  <2>2. \A b \in DOMAIN s : s[b][2] \in 1 .. Len(c.terms)
    BY <2>1 DEF Block
  <2>3. \A t \in 1 .. Len(c.terms) : M!Width(c.terms[t], c.dofs) \in Int
    BY DEF WellFormed
  <2> QED
    BY <2>2, <2>3, Zenon
<1>2. Widths(c, s) \in Seq(Int) /\ Len(Widths(c, s)) = Len(s)
  <2> DEFINE w == [b \in DOMAIN s |-> M!Width(c.terms[s[b][2]], c.dofs)]
  <2>1. DOMAIN s = 1 .. Len(s) /\ Len(s) \in Nat
    OBVIOUS
  <2>2. w \in [1 .. Len(s) -> Int]
    BY <1>1, <2>1
  <2>3. w \in Seq(Int) /\ Len(w) = Len(s)
    BY <2>1, <2>2
  <2> QED
    BY <2>3 DEF Widths
<1> QED
  BY <1>2, SumOfConcat DEF Total

LEMMA TotalOfConcat ==
    ASSUME NEW c, WellFormed(c),
           NEW a \in Seq(Block(c)), NEW b \in Seq(Block(c))
    PROVE  Total(c, a \o b) = Total(c, a) + Total(c, b)
<1> DEFINE Pairs == Block(c)
           v == Widths(c, a)
           w == Widths(c, b)
           W(x) == M!Width(c.terms[x[2]], c.dofs)
<1>1. /\ a \o b \in Seq(Pairs) /\ Len(a \o b) = Len(a) + Len(b)
      /\ \A i \in 1 .. Len(a) + Len(b) :
            (a \o b)[i] = IF i <= Len(a) THEN a[i] ELSE b[i - Len(a)]
  BY ConcatProperties
<1>2. /\ v \in Seq(Int) /\ Len(v) = Len(a)
      /\ w \in Seq(Int) /\ Len(w) = Len(b)
  BY WidthsFacts
<1>3. /\ v \o w \in Seq(Int) /\ Len(v \o w) = Len(a) + Len(b)
      /\ \A i \in 1 .. Len(a) + Len(b) :
            (v \o w)[i] = IF i <= Len(a) THEN v[i] ELSE w[i - Len(a)]
  <2> HIDE DEF v, w
  <2>1. /\ v \o w \in Seq(Int) /\ Len(v \o w) = Len(v) + Len(w)
        /\ \A i \in 1 .. Len(v) + Len(w) :
              (v \o w)[i] = IF i <= Len(v) THEN v[i] ELSE w[i - Len(v)]
    BY <1>2, ConcatProperties
  <2> QED
    BY <1>2, <2>1
<1>4. /\ \A i \in 1 .. Len(a) : v[i] = W(a[i])
      /\ \A i \in 1 .. Len(b) : w[i] = W(b[i])
  <2>1. DOMAIN a = 1 .. Len(a) /\ DOMAIN b = 1 .. Len(b)
    OBVIOUS
  <2> QED
    BY <2>1 DEF Widths
<1>5. Widths(c, a \o b) = v \o w
  <2> DEFINE n == Len(a) + Len(b)
             u == Widths(c, a \o b)
  <2>1. Len(a) \in Nat /\ Len(b) \in Nat
    OBVIOUS
  <2>2. DOMAIN (a \o b) = 1 .. n
    BY <1>1
  <2>3. u = [i \in 1 .. n |-> W((a \o b)[i])]
    BY <2>2 DEF Widths
  <2>4. DOMAIN (v \o w) = 1 .. n
    BY <1>3
  <2>5. v \o w = [i \in 1 .. n |-> (v \o w)[i]]
    <3> DEFINE z == v \o w
    <3>1. z \in Seq(Int) /\ DOMAIN z = 1 .. n
      BY <1>3, <2>4
    <3> HIDE DEF z
    <3>2. z = [i \in 1 .. n |-> z[i]]
      BY <3>1
    <3> QED
      BY <3>2 DEF z
  <2>6. ASSUME NEW i \in 1 .. n PROVE W((a \o b)[i]) = (v \o w)[i]
    <3> HIDE DEF W, v, w
    <3>1. CASE i <= Len(a)
      <4>1. i \in 1 .. Len(a)
        BY <3>1
      <4> QED
        BY <1>1, <1>3, <1>4, <3>1, <4>1
    <3>2. CASE ~(i <= Len(a))
      <4> DEFINE j == i - Len(a)
      <4>1. j \in 1 .. Len(b)
        BY <2>1, <3>2
      <4>2. (a \o b)[i] = b[j] /\ (v \o w)[i] = w[j]
        BY <1>1, <1>3, <3>2
      <4>3. w[j] = W(b[j])
        BY <1>4, <4>1
      <4> QED
        BY <4>2, <4>3
    <3> QED
      BY <3>1, <3>2
  <2> HIDE DEF u, v, w, W, n
  <2>7. u = v \o w
    BY <2>3, <2>5, <2>6
  <2> QED
    BY <2>7 DEF u
<1>6. M!Sum(v \o w) = M!Sum(v) + M!Sum(w)
  BY <1>2, SumOfConcat
<1> QED
  BY <1>5, <1>6 DEF Total

\* w has the totals of n sequences.
Totals(c, n, seqs, w) ==
    \A k \in 1 .. n : seqs[k] \in Seq(Block(c)) /\ w[k] = Total(c, seqs[k])

\* The total of sequences that are flattened is the sum of theirs.
LEMMA FlattenedTotal ==
    ASSUME NEW c, WellFormed(c), NEW n \in Nat, NEW seqs, NEW f,
           Flattens(seqs, n, f),
           NEW w, Totals(c, n, seqs, w), NEW g, PartialSums(w, n, g)
    PROVE  \A i \in 1 .. n : f[i] \in Seq(Block(c)) /\ Total(c, f[i]) = g[i]
<1> DEFINE Pairs == Block(c)
           Ok(i) == f[i] \in Seq(Pairs) /\ Total(c, f[i]) = g[i]
           Bad == {i \in 1 .. n : ~Ok(i)}
<1> HIDE DEF Ok, Pairs
<1>1. /\ Bad \in SUBSET Nat
      /\ \A i : i \in Bad <=> i \in 1 .. n /\ ~Ok(i)
  OBVIOUS
<1> HIDE DEF Bad
<1>2. ASSUME Bad # {} PROVE FALSE
  <2>1. PICK i \in Bad : \A j \in Bad : i <= j
    BY <1>1, <1>2, FirstOf
  <2>2. i \in 1 .. n
    BY <1>1, <2>1
  <2>3. /\ seqs[i] \in Seq(Pairs) /\ w[i] = Total(c, seqs[i])
        /\ w[i] \in Int /\ g[i] = g[i - 1] + w[i] /\ g[0] = 0
    BY <2>2 DEF PartialSums, Totals, Pairs
  <2>4. CASE i = 1
    <3>1. f[1] = seqs[1]
      BY <2>2, <2>4 DEF Flattens
    <3>2. g[1] = w[1]
      BY <2>3, <2>4
    <3>3. Ok(1)
      BY <2>3, <2>4, <3>1, <3>2 DEF Ok
    <3> QED
      BY <1>1, <2>1, <2>4, <3>3
  <2>5. CASE i # 1
    <3> DEFINE j == i - 1
    <3>1. j \in 1 .. n /\ ~(i <= j)
      BY <2>2, <2>5
    <3>2. f[i] = f[j] \o seqs[i]
      BY <2>2, <2>5 DEF Flattens
    <3> HIDE DEF j
    <3>3. f[j] \in Seq(Pairs) /\ Total(c, f[j]) = g[j]
      BY <1>1, <2>1, <3>1 DEF Ok
    <3>4. f[i] \in Seq(Pairs)
      BY <2>3, <3>2, <3>3, ConcatProperties
    <3>5. Total(c, f[i]) = Total(c, f[j]) + Total(c, seqs[i])
      BY <2>3, <3>2, <3>3, TotalOfConcat DEF Pairs
    <3>6. Ok(i)
      BY <2>3, <3>3, <3>4, <3>5 DEF Ok, j
    <3> QED
      BY <1>1, <2>1, <3>6
  <2> QED
    BY <2>4, <2>5
<1> QED
  BY <1>1, <1>2 DEF Ok, Pairs

\* The widths of some terms.
TermWidths(c, ts) == [t \in DOMAIN ts |-> M!Width(c.terms[ts[t]], c.dofs)]

LEMMA SliceFacts ==
    ASSUME NEW c, WellFormed(c), NEW buffer \in Seq(Nat),
           NEW i \in 0 .. Len(buffer) - 1, NEW ts \in Seq(1 .. Len(c.terms))
    PROVE  /\ M!Slice(buffer, i, ts) \in Seq(Block(c))
           /\ Len(M!Slice(buffer, i, ts)) = Len(ts)
           /\ \A t \in 1 .. Len(ts) :
                 M!Slice(buffer, i, ts)[t] = <<buffer[i + 1], ts[t]>>
           /\ Total(c, M!Slice(buffer, i, ts)) = M!Sum(TermWidths(c, ts))
<1> DEFINE s == [t \in 1 .. Len(ts) |-> <<buffer[i + 1], ts[t]>>]
<1>1. DOMAIN ts = 1 .. Len(ts) /\ Len(ts) \in Nat
  OBVIOUS
<1>2. buffer[i + 1] \in Nat
  OBVIOUS
<1>3. \A t \in 1 .. Len(ts) : <<buffer[i + 1], ts[t]>> \in Block(c)
  <2>1. \A t \in 1 .. Len(ts) : ts[t] \in 1 .. Len(c.terms)
    OBVIOUS
  <2> QED
    BY <1>2, <2>1 DEF Block
<1>4. s \in [1 .. Len(ts) -> Block(c)]
  BY <1>3
<1>5. s \in Seq(Block(c)) /\ Len(s) = Len(ts)
  BY <1>1, <1>4
<1>6. M!Slice(buffer, i, ts) = s
  BY <1>1 DEF M!Slice
<1>7. Widths(c, s) = TermWidths(c, ts)
  <2>1. DOMAIN s = 1 .. Len(ts) /\ \A t \in 1 .. Len(ts) : s[t][2] = ts[t]
    OBVIOUS
  <2> HIDE DEF s
  <2> QED
    BY <1>1, <2>1 DEF Widths, TermWidths
<1> QED
  BY <1>5, <1>6, <1>7 DEF Total

\* The partial sums of equal widths are their multiples.
LEMMA EqualWidths ==
    ASSUME NEW n \in Nat, NEW x \in Int
    PROVE  PartialSums([k \in 1 .. n |-> x], n, [i \in 0 .. n |-> i * x])
<1> DEFINE w == [k \in 1 .. n |-> x]
           g == [i \in 0 .. n |-> i * x]
<1>1. \A i \in Int : i * x \in Int /\ i * x = (i - 1) * x + x
  OBVIOUS
<1>2. g \in [0 .. n -> Int] /\ g[0] = 0
  BY <1>1
<1>3. ASSUME NEW i \in 1 .. n PROVE w[i] \in Int /\ g[i] = g[i - 1] + w[i]
  <2>1. /\ i \in Int /\ i \in 0 .. n /\ i - 1 \in 0 .. n
        /\ g[i] = i * x /\ g[i - 1] = (i - 1) * x /\ w[i] = x
    OBVIOUS
  <2> HIDE DEF g, w
  <2> QED
    BY <1>1, <2>1
<1> QED
  BY <1>2, <1>3 DEF PartialSums

\* Every frame of the history is there, in the order of the ids.
LEMMA HistoryFacts ==
    ASSUME NEW c, WellFormed(c), c.ids # <<>>, NEW buffer \in Seq(Nat),
           \A k \in DOMAIN c.ids : c.ids[k] \in 0 .. Len(buffer) - 1,
           NEW ts \in Seq(1 .. Len(c.terms))
    PROVE  LET Count == Len(c.ids)
               L == Len(ts)
               v == M!History(buffer, c, ts)
           IN  /\ v \in Seq(Block(c)) /\ Len(v) = Count * L
               /\ \A k \in 1 .. Count, t \in 1 .. L :
                     v[(k - 1) * L + t] = <<buffer[c.ids[k] + 1], ts[t]>>
               /\ Total(c, v) = Count * M!Sum(TermWidths(c, ts))
<1> DEFINE Count == Len(c.ids)
           L == Len(ts)
           Pairs == Block(c)
           seqs == [k \in 1 .. Count |-> M!Slice(buffer, c.ids[k], ts)]
           x == M!Sum(TermWidths(c, ts))
<1>1. Count \in Nat /\ Count > 0 /\ L \in Nat /\ DOMAIN c.ids = 1 .. Count
  <2>1. c.ids \in Seq(Nat)
    BY DEF WellFormed
  <2> QED
    BY <2>1
<1> HIDE DEF Pairs
<1>2. ASSUME NEW k \in 1 .. Count
      PROVE  /\ seqs[k] \in Seq(Pairs) /\ Len(seqs[k]) = L
             /\ \A t \in 1 .. L :
                   seqs[k][t] = <<buffer[c.ids[k] + 1], ts[t]>>
             /\ Total(c, seqs[k]) = x
  <2>1. c.ids[k] \in 0 .. Len(buffer) - 1
    BY <1>1
  <2> DEFINE s == M!Slice(buffer, c.ids[k], ts)
  <2>2. seqs[k] = s
    OBVIOUS
  <2>3. /\ s \in Seq(Pairs) /\ Len(s) = L
        /\ \A t \in 1 .. L : s[t] = <<buffer[c.ids[k] + 1], ts[t]>>
        /\ Total(c, s) = x
    BY <2>1, SliceFacts DEF Pairs
  <2> HIDE DEF seqs, s, x, L
  <2> QED
    BY <2>2, <2>3
<1>3. seqs \in Seq(Seq(Pairs)) /\ Len(seqs) = Count
  <2> DEFINE SB == Seq(Pairs)
  <2>1. \A k \in 1 .. Count : seqs[k] \in SB
    BY <1>2
  <2>2. DOMAIN seqs = 1 .. Count /\ seqs = [k \in 1 .. Count |-> seqs[k]]
    OBVIOUS
  <2> HIDE DEF seqs, Count, SB
  <2>3. seqs \in [1 .. Count -> SB]
    BY <2>1, <2>2
  <2>4. seqs \in Seq(SB) /\ Len(seqs) = Count
    BY <1>1, <2>3
  <2> QED
    BY <2>4 DEF SB
<1>4. M!History(buffer, c, ts) = M!FlattenSeq(seqs)
  BY <1>1 DEF M!History
<1> HIDE DEF seqs
<1>5. PICK f : Flattens(seqs, Count, f) /\ M!FlattenSeq(seqs) = f[Count]
  BY <1>1, <1>3, FlattenSeqIs
<1>6. Blocks(seqs, Count, L, Pairs, f[Count])
  <2>1. \A i \in 1 .. Count : Blocks(seqs, i, L, Pairs, f[i])
    <3> HIDE DEF Count, L
    <3> QED
      BY <1>1, <1>2, <1>5, FlattenedBlocks
  <2> HIDE DEF Count, L
  <2>2. Count \in 1 .. Count
    BY <1>1
  <2> QED
    BY <2>1, <2>2
<1>7. x \in Int
  <2>1. seqs[1] \in Seq(Block(c)) /\ Total(c, seqs[1]) = x
    BY <1>1, <1>2 DEF Pairs
  <2> HIDE DEF x
  <2> QED
    BY <2>1, WidthsFacts
<1>8. Total(c, f[Count]) = Count * x
  <2> DEFINE w == [k \in 1 .. Count |-> x]
             g == [i \in 0 .. Count |-> i * x]
  <2>1. PartialSums(w, Count, g)
    BY <1>1, <1>7, EqualWidths
  <2>2. Totals(c, Count, seqs, w)
    <3>1. \A k \in 1 .. Count : w[k] = x
      OBVIOUS
    <3> HIDE DEF w, x, Count
    <3> QED
      BY <1>2, <3>1 DEF Totals, Pairs
  <2>3. g[Count] = Count * x
    BY <1>1
  <2> HIDE DEF w, g, Count, x
  <2>5. \A i \in 1 .. Count : Total(c, f[i]) = g[i]
    BY <1>1, <1>5, <2>1, <2>2, FlattenedTotal
  <2> QED
    BY <1>1, <2>3, <2>5
<1>9. /\ f[Count] \in Seq(Pairs) /\ Len(f[Count]) = Count * L
      /\ \A k \in 1 .. Count, t \in 1 .. L :
            f[Count][(k - 1) * L + t] = seqs[k][t]
  BY <1>6 DEF Blocks
<1>10. \A k \in 1 .. Count, t \in 1 .. L :
          f[Count][(k - 1) * L + t] = <<buffer[c.ids[k] + 1], ts[t]>>
  BY <1>2, <1>9
<1> QED
  BY <1>4, <1>5, <1>8, <1>9, <1>10 DEF Pairs

\* What the network is given: each frame that the configuration asks for, in its
\* order, as wide as the network was trained with.
LEMMA InputFromBuffer ==
    ASSUME NEW c, WellFormed(c), c.ids # <<>>, NEW buffer \in Seq(Nat),
           Len(buffer) = M!FramesOf(c)
    PROVE  LET Count == Len(c.ids)
               T == Len(c.terms)
               v == M!get_obs_vec(buffer, c)
           IN  /\ v \in Seq(Block(c)) /\ Len(v) = T * Count
               /\ \A k \in 1 .. Count, t \in 1 .. T :
                     v[IF c.priority = "time" THEN (k - 1) * T + t
                                              ELSE (t - 1) * Count + k]
                       = <<buffer[c.ids[k] + 1], t>>
               /\ Total(c, v) = c.num * Count
<1> DEFINE Count == Len(c.ids)
           T == Len(c.terms)
           Pairs == Block(c)
           v == M!get_obs_vec(buffer, c)
           all == [t \in 1 .. T |-> t]
           dims == M!obs_dims(c)
<1>1. /\ Count \in Nat /\ DOMAIN c.ids = 1 .. Count
      /\ T \in Nat /\ T > 0 /\ DOMAIN c.terms = 1 .. T
      /\ c.num \in Int /\ M!Sum(dims) = c.num
      /\ c.priority \in {"time", "term"}
  BY DEF WellFormed
<1>2. /\ \A k \in DOMAIN c.ids : c.ids[k] \in 0 .. Len(buffer) - 1
      /\ buffer # <<>>
  BY FramesFacts
<1>3. ~\A k \in DOMAIN c.ids : c.ids[k] \notin 0 .. T - 1
  <2>1. PICK k \in DOMAIN c.ids : c.ids[k] < T
    BY DEF WellFormed
  <2>2. c.ids[k] \in Nat
    BY <2>1 DEF WellFormed
  <2> HIDE DEF T
  <2> QED
    BY <1>1, <2>1, <2>2
<1>4. v = IF c.priority = "time" THEN M!History(buffer, c, all)
          ELSE M!FlattenSeq([t \in 1 .. T |-> M!History(buffer, c, <<t>>)])
  BY <1>1, <1>2, <1>3 DEF M!get_obs_vec
<1>5. dims = [t \in 1 .. T |-> M!Width(c.terms[t], c.dofs)]
  BY <1>1 DEF M!obs_dims
<1>6. CASE c.priority = "time"
  <2>1. all \in Seq(1 .. T) /\ Len(all) = T
    BY <1>1
  <2>2. TermWidths(c, all) = dims
    BY <1>1, <1>5 DEF TermWidths
  <2> DEFINE h == M!History(buffer, c, all)
  <2>3. \A t \in 1 .. T : all[t] = t
    OBVIOUS
  <2> HIDE DEF all
  <2>4. /\ h \in Seq(Pairs) /\ Len(h) = Count * T
        /\ \A k \in 1 .. Count, t \in 1 .. T :
              h[(k - 1) * T + t] = <<buffer[c.ids[k] + 1], all[t]>>
        /\ Total(c, h) = Count * M!Sum(TermWidths(c, all))
    <3>1. /\ h \in Seq(Pairs) /\ Len(h) = Count * Len(all)
          /\ \A k \in 1 .. Count, t \in 1 .. Len(all) :
                h[(k - 1) * Len(all) + t] = <<buffer[c.ids[k] + 1], all[t]>>
          /\ Total(c, h) = Count * M!Sum(TermWidths(c, all))
      BY <1>2, <2>1, HistoryFacts
    <3> HIDE DEF h, Count, T, Pairs
    <3> QED
      BY <2>1, <3>1
  <2>5. v = h
    BY <1>4, <1>6
  <2>6. Count * T = T * Count /\ Count * c.num = c.num * Count
    <3>1. \A a, b \in Int : a * b = b * a
      OBVIOUS
    <3>2. Count \in Int /\ T \in Int /\ c.num \in Int
      BY <1>1
    <3> QED
      BY <3>1, <3>2, Zenon
  <2>7. Len(h) = T * Count /\ Total(c, h) = c.num * Count
    BY <1>1, <2>2, <2>4, <2>6
  <2>8. \A k \in 1 .. Count, t \in 1 .. T :
           h[(k - 1) * T + t] = <<buffer[c.ids[k] + 1], t>>
    BY <2>3, <2>4
  <2> HIDE DEF h, v
  <2> QED
    BY <1>6, <2>4, <2>5, <2>7, <2>8 DEF v
<1>7. CASE c.priority = "term"
  <2> DEFINE seqs == [t \in 1 .. T |-> M!History(buffer, c, <<t>>)]
  <2>1. ASSUME NEW t \in 1 .. T
        PROVE  /\ seqs[t] \in Seq(Pairs) /\ Len(seqs[t]) = Count
               /\ \A k \in 1 .. Count : seqs[t][k] = <<buffer[c.ids[k] + 1], t>>
               /\ Total(c, seqs[t]) = Count * dims[t] /\ dims[t] \in Int
    <3> DEFINE h == M!History(buffer, c, <<t>>)
               x == M!Width(c.terms[t], c.dofs)
    <3>1. <<t>> \in Seq(1 .. Len(c.terms)) /\ Len(<<t>>) = 1
      OBVIOUS
    <3>2. /\ h \in Seq(Pairs) /\ Len(h) = Count * 1
          /\ \A k \in 1 .. Count, i \in 1 .. 1 :
                h[(k - 1) * 1 + i] = <<buffer[c.ids[k] + 1], <<t>>[i]>>
          /\ Total(c, h) = Count * M!Sum(TermWidths(c, <<t>>))
      BY <1>2, <3>1, HistoryFacts
    <3>3. \A k \in 1 .. Count : h[k] = <<buffer[c.ids[k] + 1], t>>
      <4> HIDE DEF h
      <4>1. ASSUME NEW k \in 1 .. Count PROVE h[k] = <<buffer[c.ids[k] + 1], t>>
        <5>1. (k - 1) * 1 + 1 = k /\ 1 \in 1 .. 1 /\ <<t>>[1] = t
          OBVIOUS
        <5>2. h[(k - 1) * 1 + 1] = <<buffer[c.ids[k] + 1], <<t>>[1]>>
          BY <3>2, <5>1
        <5> QED
          BY <5>1, <5>2
      <4> QED
        BY <4>1
    <3>4. x \in Int /\ dims[t] = x
      BY <1>1, <1>5 DEF WellFormed
    <3>5. M!Sum(TermWidths(c, <<t>>)) = x
      <4> DEFINE w == TermWidths(c, <<t>>)
                 g == [i \in 0 .. 1 |-> i * x]
                 u == [k \in 1 .. 1 |-> x]
      <4>1. w = <<x>> /\ u = <<x>>
        BY DEF TermWidths
      <4>2. PartialSums(u, 1, g)
        BY <3>4, EqualWidths
      <4>4. g[1] = x
        BY <3>4
      <4> HIDE DEF w, g, u, x
      <4>3. w \in Seq(Int) /\ Len(w) = 1
        BY <3>4, <4>1
      <4>5. PartialSums(w, Len(w), g)
        BY <4>1, <4>2, <4>3
      <4>6. M!Sum(w) = g[Len(w)]
        BY <4>3, <4>5, SumIs
      <4> QED
        BY <4>3, <4>4, <4>6 DEF w
    <3>6. seqs[t] = h /\ Count * 1 = Count
      BY <1>1
    <3> HIDE DEF h, x, seqs, dims
    <3> QED
      BY <3>2, <3>3, <3>4, <3>5, <3>6
  <2>2. v = M!FlattenSeq(seqs)
    BY <1>4, <1>7
  <2>3. seqs \in Seq(Seq(Pairs)) /\ Len(seqs) = T
    <3> DEFINE SB == Seq(Pairs)
    <3>1. \A t \in 1 .. T : seqs[t] \in SB
      BY <2>1
    <3>2. seqs = [t \in 1 .. T |-> seqs[t]]
      OBVIOUS
    <3> HIDE DEF seqs, T, SB
    <3>3. seqs \in [1 .. T -> SB]
      BY <3>1, <3>2
    <3>4. seqs \in Seq(SB) /\ Len(seqs) = T
      BY <1>1, <3>3
    <3> QED
      BY <3>4 DEF SB
  <2> HIDE DEF seqs
  <2>4. PICK f : Flattens(seqs, T, f) /\ M!FlattenSeq(seqs) = f[T]
    BY <1>1, <2>3, FlattenSeqIs
  <2>5. Blocks(seqs, T, Count, Pairs, f[T])
    <3> HIDE DEF Count, T, Pairs
    <3>1. \A i \in 1 .. T : Blocks(seqs, i, Count, Pairs, f[i])
      BY <1>1, <2>1, <2>4, FlattenedBlocks
    <3>2. T \in 1 .. T
      BY <1>1
    <3> QED
      BY <3>1, <3>2
  <2>6. Total(c, f[T]) = Count * c.num
    <3> DEFINE w == [t \in 1 .. T |-> Count * dims[t]]
    <3>1. PICK d : PartialSums(dims, T, d)
      <4>1. \A t \in 1 .. T : dims[t] \in Int
        BY <2>1
      <4> HIDE DEF dims, T
      <4> QED
        BY <1>1, <4>1, PartialSumsExist
    <3>2. d[T] = c.num
      <4>1. dims \in Seq(Int) /\ Len(dims) = T
        <5>1. dims \in [1 .. T -> Int]
          BY <1>5, <2>1
        <5> HIDE DEF dims, T
        <5> QED
          BY <1>1, <5>1
      <4> HIDE DEF dims, T
      <4> QED
        BY <1>1, <3>1, <4>1, SumIs
    <3> DEFINE g == [i \in 0 .. T |-> Count * d[i]]
    <3>3. PartialSums(w, T, g)
      <4> HIDE DEF dims, T, Count
      <4>1. /\ d \in [0 .. T -> Int] /\ d[0] = 0
            /\ \A i \in 1 .. T : dims[i] \in Int /\ d[i] = d[i - 1] + dims[i]
        BY <3>1 DEF PartialSums
      <4>2. \A a, b \in Int : /\ Count * a \in Int
                              /\ Count * (a + b) = Count * a + Count * b
        BY <1>1
      <4>3. g \in [0 .. T -> Int] /\ g[0] = 0
        BY <1>1, <4>1, <4>2
      <4>4. ASSUME NEW i \in 1 .. T PROVE w[i] \in Int /\ g[i] = g[i - 1] + w[i]
        <5>1. /\ i - 1 \in 0 .. T /\ g[i] = Count * d[i]
              /\ g[i - 1] = Count * d[i - 1] /\ w[i] = Count * dims[i]
          BY <1>1
        <5>2. /\ d[i - 1] \in Int /\ dims[i] \in Int
              /\ d[i] = d[i - 1] + dims[i]
          BY <4>1, <5>1
        <5> HIDE DEF g, w
        <5> QED
          BY <4>2, <5>1, <5>2
      <4> QED
        BY <4>3, <4>4 DEF PartialSums
    <3>4. Totals(c, T, seqs, w)
      <4>1. \A t \in 1 .. T : w[t] = Count * dims[t]
        OBVIOUS
      <4> HIDE DEF w, Count, T, dims
      <4> QED
        BY <2>1, <4>1 DEF Totals, Pairs
    <3>5. g[T] = Count * c.num
      BY <1>1, <3>2
    <3> HIDE DEF g, w, T
    <3>6. \A i \in 1 .. T : Total(c, f[i]) = g[i]
      BY <1>1, <2>4, <3>3, <3>4, FlattenedTotal
    <3> QED
      BY <1>1, <3>5, <3>6
  <2>7. /\ f[T] \in Seq(Pairs) /\ Len(f[T]) = T * Count
        /\ \A t \in 1 .. T, k \in 1 .. Count :
              f[T][(t - 1) * Count + k] = seqs[t][k]
    BY <2>5 DEF Blocks
  <2>8. \A k \in 1 .. Count, t \in 1 .. T :
           f[T][(t - 1) * Count + k] = <<buffer[c.ids[k] + 1], t>>
    BY <2>1, <2>7
  <2>9. Count * c.num = c.num * Count
    BY <1>1
  <2> HIDE DEF v, Count, T, Pairs
  <2> QED
    BY <1>7, <2>2, <2>4, <2>6, <2>7, <2>8, <2>9 DEF v, Count, T, Pairs
<1> QED
  BY <1>1, <1>6, <1>7

LEMMA SixWidths ==
    ASSUME NEW w \in Seq(Int), Len(w) = 6
    PROVE  M!Sum(w) = w[1] + w[2] + w[3] + w[4] + w[5] + w[6]
<1> DEFINE g == [i \in 0 .. 6 |->
                    IF i = 0 THEN 0 ELSE
                    IF i = 1 THEN w[1] ELSE
                    IF i = 2 THEN w[1] + w[2] ELSE
                    IF i = 3 THEN w[1] + w[2] + w[3] ELSE
                    IF i = 4 THEN w[1] + w[2] + w[3] + w[4] ELSE
                    IF i = 5 THEN w[1] + w[2] + w[3] + w[4] + w[5] ELSE
                    w[1] + w[2] + w[3] + w[4] + w[5] + w[6]]
<1>1. \A i \in 1 .. 6 : w[i] \in Int
  <2>2. \A i \in 1 .. Len(w) : w[i] \in Int
    BY ElementOfSeq
  <2> QED
    BY <2>2
<1>2. w[1] \in Int /\ w[2] \in Int /\ w[3] \in Int /\ w[4] \in Int /\ w[5] \in Int
      /\ w[6] \in Int
  BY <1>1
<1>3. g \in [0 .. 6 -> Int] /\ g[0] = 0
  <2>1. g = [i \in 0 .. 6 |-> g[i]] /\ g[0] = 0
    OBVIOUS
  <2>2. \A i \in 0 .. 6 : g[i] \in Int
    BY <1>2
  <2> HIDE DEF g
  <2> QED
    BY <2>1, <2>2
<1>4. \A i \in 1 .. 6 : g[i] = g[i - 1] + w[i]
  BY <1>2
<1>5. PartialSums(w, 6, g)
  BY <1>1, <1>3, <1>4 DEF PartialSums
<1>6. g[6] = w[1] + w[2] + w[3] + w[4] + w[5] + w[6]
  OBVIOUS
<1> HIDE DEF g
<1> QED
  BY <1>5, <1>6, SumIs

LEMMA ThreeWidths ==
    ASSUME NEW w \in Seq(Int), Len(w) = 3
    PROVE  M!Sum(w) = w[1] + w[2] + w[3]
<1> DEFINE g == [i \in 0 .. 3 |-> IF i = 0 THEN 0 ELSE
                                  IF i = 1 THEN w[1] ELSE
                                  IF i = 2 THEN w[1] + w[2] ELSE
                                  w[1] + w[2] + w[3]]
<1>1. \A i \in 1 .. 3 : w[i] \in Int
  <2>2. \A i \in 1 .. Len(w) : w[i] \in Int
    BY ElementOfSeq
  <2> QED
    BY <2>2
<1>2. w[1] \in Int /\ w[2] \in Int /\ w[3] \in Int
  BY <1>1
<1>3. g \in [0 .. 3 -> Int] /\ g[0] = 0
  BY <1>2
<1>4. \A i \in 1 .. 3 : g[i] = g[i - 1] + w[i]
  BY <1>2
<1>5. PartialSums(w, 3, g)
  BY <1>1, <1>3, <1>4 DEF PartialSums
<1>6. g[3] = w[1] + w[2] + w[3]
  OBVIOUS
<1> HIDE DEF g
<1> QED
  BY <1>5, <1>6, SumIs

\* How wide the terms are, by name.
LEMMA KnownWidths ==
    ASSUME NEW dofs \in Nat
    PROVE  /\ M!Width("ang_vel", dofs) = 3
           /\ M!Width("gravity_vec", dofs) = 3
           /\ M!Width("commands", dofs) = 3
           /\ M!Width("dof_pos", dofs) = dofs
           /\ M!Width("dof_vel", dofs) = dofs
           /\ M!Width("actions", dofs) = dofs
           /\ M!Width("actions_history", dofs) = dofs
           /\ M!Width("RoboMimic_Deploy/phase", dofs) = 1
           /\ M!Width("whole_body_tracking/joint_pos", dofs) = dofs
           /\ M!Width("whole_body_tracking/joint_vel", dofs) = dofs
           /\ M!Width("whole_body_tracking/root_pos_relative", dofs) = 1
           /\ M!Width("whole_body_tracking/ref_body_quat_tan_norm", dofs) = 6
           /\ M!Width("whole_body_tracking/key_body_pos_relative", dofs) = 39
           /\ M!Width("whole_body_tracking/progress", dofs) = 1
           /\ M!Width("whole_body_tracking/motion_command", dofs) = 2 * dofs
           /\ M!Width("whole_body_tracking/motion_anchor_ori_b", dofs) = 6
           /\ M!Width("mjlab/command", dofs) = 2 * dofs
           /\ M!Width("mjlab/motion_anchor_ori_b", dofs) = 6
           /\ M!Width("test_2", dofs) = 2
           /\ M!Width("test_3", dofs) = 3
           /\ M!Width("test_4", dofs) = 4
  BY DEF M!Width, M!MotionWidth, M!K, M!KeyBodies

\* The terms of a configuration, and their widths.
HasTerms(c, w) ==
    /\ Len(c.terms) = Len(w) /\ DOMAIN c.terms = 1 .. Len(w)
    /\ w \in Seq(Int)
    /\ \A t \in 1 .. Len(w) : M!Width(c.terms[t], c.dofs) = w[t]

LEMMA DimsAre ==
    ASSUME NEW c, NEW w, HasTerms(c, w)
    PROVE  M!obs_dims(c) = w
<1>1. DOMAIN c.terms = 1 .. Len(w) /\ w = [t \in 1 .. Len(w) |-> w[t]]
  BY DEF HasTerms
<1>2. M!obs_dims(c) = [t \in 1 .. Len(w) |-> M!Width(c.terms[t], c.dofs)]
  BY <1>1 DEF M!obs_dims
<1> QED
  BY <1>1, <1>2 DEF HasTerms

\* n terms that are together as wide as the network.
Wide(c, n) ==
    \E w : HasTerms(c, w) /\ Len(w) = n /\ M!Sum(w) = c.num

\* Six terms, and three, that are together as wide as the network.
SixWide(c, t1, t2, t3, t4, t5, t6, a1, a2, a3, a4, a5, a6) ==
    /\ c.terms = <<t1, t2, t3, t4, t5, t6>>
    /\ a1 \in Int /\ a2 \in Int /\ a3 \in Int
    /\ a4 \in Int /\ a5 \in Int /\ a6 \in Int
    /\ M!Width(t1, c.dofs) = a1 /\ M!Width(t2, c.dofs) = a2
    /\ M!Width(t3, c.dofs) = a3 /\ M!Width(t4, c.dofs) = a4
    /\ M!Width(t5, c.dofs) = a5 /\ M!Width(t6, c.dofs) = a6
    /\ c.num = a1 + a2 + a3 + a4 + a5 + a6

ThreeWide(c, t1, t2, t3, a1, a2, a3) ==
    /\ c.terms = <<t1, t2, t3>>
    /\ a1 \in Int /\ a2 \in Int /\ a3 \in Int
    /\ M!Width(t1, c.dofs) = a1 /\ M!Width(t2, c.dofs) = a2
    /\ M!Width(t3, c.dofs) = a3
    /\ c.num = a1 + a2 + a3

LEMMA SixTerms ==
    ASSUME NEW c,
           NEW t1, NEW t2, NEW t3, NEW t4, NEW t5, NEW t6,
           NEW a1, NEW a2, NEW a3, NEW a4, NEW a5, NEW a6,
           SixWide(c, t1, t2, t3, t4, t5, t6, a1, a2, a3, a4, a5, a6)
    PROVE  Wide(c, 6)
<1> DEFINE w == <<a1, a2, a3, a4, a5, a6>>
<1> USE DEF SixWide
<1>1. DOMAIN c.terms = 1 .. 6 /\ Len(c.terms) = 6
  OBVIOUS
<1>2. w \in Seq(Int) /\ Len(w) = 6
  OBVIOUS
<1>3. \A t \in 1 .. 6 : t = 1 \/ t = 2 \/ t = 3 \/ t = 4 \/ t = 5 \/ t = 6
  OBVIOUS
<1>4. HasTerms(c, w)
  BY <1>1, <1>2, <1>3 DEF HasTerms
<1>5. /\ w[1] = a1 /\ w[2] = a2 /\ w[3] = a3
      /\ w[4] = a4 /\ w[5] = a5 /\ w[6] = a6
  OBVIOUS
<1> HIDE DEF w
<1>6. M!Sum(w) = c.num
  <2>1. M!Sum(w) = w[1] + w[2] + w[3] + w[4] + w[5] + w[6]
    BY <1>2, SixWidths
  <2> QED
    BY <1>5, <2>1
<1> QED
  BY <1>2, <1>4, <1>6 DEF Wide

LEMMA ThreeTerms ==
    ASSUME NEW c, NEW t1, NEW t2, NEW t3, NEW a1, NEW a2, NEW a3,
           ThreeWide(c, t1, t2, t3, a1, a2, a3)
    PROVE  Wide(c, 3)
<1> DEFINE w == <<a1, a2, a3>>
<1> USE DEF ThreeWide
<1>1. DOMAIN c.terms = 1 .. 3 /\ Len(c.terms) = 3
  OBVIOUS
<1>2. w \in Seq(Int) /\ Len(w) = 3
  OBVIOUS
<1>3. \A t \in 1 .. 3 : t = 1 \/ t = 2 \/ t = 3
  OBVIOUS
<1>4. HasTerms(c, w)
  BY <1>1, <1>2, <1>3 DEF HasTerms
<1>5. w[1] = a1 /\ w[2] = a2 /\ w[3] = a3
  OBVIOUS
<1> HIDE DEF w
<1>6. M!Sum(w) = c.num
  <2>1. M!Sum(w) = w[1] + w[2] + w[3]
    BY <1>2, ThreeWidths
  <2> QED
    BY <1>5, <2>1
<1> QED
  BY <1>2, <1>4, <1>6 DEF Wide

\* The ids, of which the n-th is the largest and the m-th below the number of
\* terms.
HasIds(c, n, m) ==
    /\ c.ids \in Seq(Nat) /\ n \in DOMAIN c.ids /\ m \in DOMAIN c.ids
    /\ \A j \in DOMAIN c.ids : c.ids[j] <= c.ids[n]
    /\ c.ids[m] < Len(c.terms)

LEMMA Fits ==
    ASSUME NEW c, NEW n \in Nat, n > 0, Wide(c, n),
           c.num \in Int, c.priority \in {"time", "term"},
           c.ids = <<>> \/ \E k, m \in Nat : HasIds(c, k, m)
    PROVE  WellFormed(c)
<1> PICK w : HasTerms(c, w) /\ Len(w) = n /\ M!Sum(w) = c.num
  BY DEF Wide
<1>1. M!obs_dims(c) = w
  BY DimsAre
<1>2. \A t \in 1 .. Len(w) : w[t] \in Int
  BY ElementOfSeq DEF HasTerms
<1>3. /\ Len(c.terms) \in Nat /\ Len(c.terms) > 0
      /\ DOMAIN c.terms = 1 .. Len(c.terms)
      /\ \A t \in 1 .. Len(c.terms) : M!Width(c.terms[t], c.dofs) \in Int
  BY <1>2 DEF HasTerms
<1>4. c.ids \in Seq(Nat)
  <2>1. <<>> \in Seq(Nat)
    OBVIOUS
  <2> QED
    BY <2>1 DEF HasIds
<1>5. c.ids # <<>> =>
        /\ \E k \in DOMAIN c.ids : c.ids[k] < Len(c.terms)
        /\ \E k \in DOMAIN c.ids : \A j \in DOMAIN c.ids : c.ids[j] <= c.ids[k]
  BY Zenon DEF HasIds
<1> QED
  BY <1>1, <1>3, <1>4, <1>5 DEF WellFormed

LEMMA A1LeggedGymFits == WellFormed(M!A1LeggedGym)
<1> DEFINE c == M!A1LeggedGym
<1>1. c.terms = <<"ang_vel", "gravity_vec", "commands", "dof_pos", "dof_vel",
                   "actions">>
  BY DEF M!A1LeggedGym, M!Policy, M!Basic
<1>2. c.dofs = 12
  BY DEF M!A1LeggedGym, M!Policy, M!Basic
<1>3. /\ c.num = 45 /\ c.ids = <<5, 4, 3, 2, 1, 0>>
      /\ c.priority \in {"time", "term"}
  BY DEF M!A1LeggedGym, M!Policy, M!Basic
<1> HIDE DEF c
<1>4. /\ M!Width("ang_vel", c.dofs) = 3
      /\ M!Width("gravity_vec", c.dofs) = 3
      /\ M!Width("commands", c.dofs) = 3
      /\ M!Width("dof_pos", c.dofs) = 12
      /\ M!Width("dof_vel", c.dofs) = 12
      /\ M!Width("actions", c.dofs) = 12
  BY <1>2, KnownWidths
<1>5. SixWide(c, "ang_vel", "gravity_vec", "commands", "dof_pos", "dof_vel",
           "actions",
           3, 3, 3, 12, 12, 12)
  BY <1>1, <1>2, <1>3, <1>4 DEF SixWide
<1>6. Wide(c, 6) /\ c.num \in Int
  BY <1>3, <1>5, SixTerms
<1>7. HasIds(c, 1, 6)
  BY <1>1, <1>3 DEF HasIds
<1>8. WellFormed(c)
  BY <1>3, <1>6, <1>7, Fits
<1> QED
  BY <1>8 DEF c

LEMMA Go2HimLocoFits == WellFormed(M!Go2HimLoco)
<1> DEFINE c == M!Go2HimLoco
<1>1. c.terms = <<"commands", "ang_vel", "gravity_vec", "dof_pos", "dof_vel",
                    "actions">>
  BY DEF M!Go2HimLoco, M!Policy
<1>2. c.dofs = 12
  BY DEF M!Go2HimLoco, M!Policy
<1>3. /\ c.num = 45 /\ c.ids = <<0, 1, 2, 3, 4, 5>>
      /\ c.priority \in {"time", "term"}
  BY DEF M!Go2HimLoco, M!Policy
<1> HIDE DEF c
<1>4. /\ M!Width("commands", c.dofs) = 3
      /\ M!Width("ang_vel", c.dofs) = 3
      /\ M!Width("gravity_vec", c.dofs) = 3
      /\ M!Width("dof_pos", c.dofs) = 12
      /\ M!Width("dof_vel", c.dofs) = 12
      /\ M!Width("actions", c.dofs) = 12
  BY <1>2, KnownWidths
<1>5. SixWide(c, "commands", "ang_vel", "gravity_vec", "dof_pos", "dof_vel",
           "actions",
           3, 3, 3, 12, 12, 12)
  BY <1>1, <1>2, <1>3, <1>4 DEF SixWide
<1>6. Wide(c, 6) /\ c.num \in Int
  BY <1>3, <1>5, SixTerms
<1>7. HasIds(c, 6, 1)
  BY <1>1, <1>3 DEF HasIds
<1>8. WellFormed(c)
  BY <1>3, <1>6, <1>7, Fits
<1> QED
  BY <1>8 DEF c

LEMMA G1LocomotionFits == WellFormed(M!G1Locomotion)
<1> DEFINE c == M!G1Locomotion
<1>1. c.terms = <<"ang_vel", "gravity_vec", "commands", "dof_pos", "dof_vel",
                    "actions">>
  BY DEF M!G1Locomotion, M!Policy, M!Basic
<1>2. c.dofs = 29
  BY DEF M!G1Locomotion, M!Policy, M!Basic
<1>3. /\ c.num = 96 /\ c.ids = <<>>
      /\ c.priority \in {"time", "term"}
  BY DEF M!G1Locomotion, M!Policy, M!Basic
<1> HIDE DEF c
<1>4. /\ M!Width("ang_vel", c.dofs) = 3
      /\ M!Width("gravity_vec", c.dofs) = 3
      /\ M!Width("commands", c.dofs) = 3
      /\ M!Width("dof_pos", c.dofs) = 29
      /\ M!Width("dof_vel", c.dofs) = 29
      /\ M!Width("actions", c.dofs) = 29
  BY <1>2, KnownWidths
<1>5. SixWide(c, "ang_vel", "gravity_vec", "commands", "dof_pos", "dof_vel",
           "actions",
           3, 3, 3, 29, 29, 29)
  BY <1>1, <1>2, <1>3, <1>4 DEF SixWide
<1>6. Wide(c, 6) /\ c.num \in Int
  BY <1>3, <1>5, SixTerms
<1>7. WellFormed(c)
  BY <1>3, <1>6, Fits
<1> QED
  BY <1>7 DEF c

LEMMA G1CharlestonFits == WellFormed(M!G1Charleston)
<1> DEFINE c == M!G1Charleston
<1>1. c.terms = <<"ang_vel", "gravity_vec", "dof_pos", "dof_vel", "actions",
                    "RoboMimic_Deploy/phase">>
  BY DEF M!G1Charleston, M!Policy
<1>2. c.dofs = 29
  BY DEF M!G1Charleston, M!Policy
<1>3. /\ c.num = 94 /\ c.ids = <<0, 1, 2, 3>>
      /\ c.priority \in {"time", "term"}
  BY DEF M!G1Charleston, M!Policy
<1> HIDE DEF c
<1>4. /\ M!Width("ang_vel", c.dofs) = 3
      /\ M!Width("gravity_vec", c.dofs) = 3
      /\ M!Width("dof_pos", c.dofs) = 29
      /\ M!Width("dof_vel", c.dofs) = 29
      /\ M!Width("actions", c.dofs) = 29
      /\ M!Width("RoboMimic_Deploy/phase", c.dofs) = 1
  BY <1>2, KnownWidths
<1>5. SixWide(c, "ang_vel", "gravity_vec", "dof_pos", "dof_vel", "actions",
           "RoboMimic_Deploy/phase",
           3, 3, 29, 29, 29, 1)
  BY <1>1, <1>2, <1>3, <1>4 DEF SixWide
<1>6. Wide(c, 6) /\ c.num \in Int
  BY <1>3, <1>5, SixTerms
<1>7. HasIds(c, 4, 1)
  BY <1>1, <1>3 DEF HasIds
<1>8. WellFormed(c)
  BY <1>3, <1>6, <1>7, Fits
<1> QED
  BY <1>8 DEF c

LEMMA G1DanceFits == WellFormed(M!G1Dance)
<1> DEFINE c == M!G1Dance
<1>1. c.terms = <<"whole_body_tracking/motion_command",
                    "whole_body_tracking/motion_anchor_ori_b", "ang_vel",
                    "dof_pos", "dof_vel", "actions">>
  BY DEF M!G1Dance, M!Policy
<1>2. c.dofs = 29
  BY DEF M!G1Dance, M!Policy
<1>3. /\ c.num = 154 /\ c.ids = <<>>
      /\ c.priority \in {"time", "term"}
  BY DEF M!G1Dance, M!Policy
<1> HIDE DEF c
<1>4. /\ M!Width("whole_body_tracking/motion_command", c.dofs) = 58
      /\ M!Width("whole_body_tracking/motion_anchor_ori_b", c.dofs) = 6
      /\ M!Width("ang_vel", c.dofs) = 3
      /\ M!Width("dof_pos", c.dofs) = 29
      /\ M!Width("dof_vel", c.dofs) = 29
      /\ M!Width("actions", c.dofs) = 29
  BY <1>2, KnownWidths
<1>5. SixWide(c, "whole_body_tracking/motion_command",
           "whole_body_tracking/motion_anchor_ori_b", "ang_vel", "dof_pos",
           "dof_vel", "actions",
           58, 6, 3, 29, 29, 29)
  BY <1>1, <1>2, <1>3, <1>4 DEF SixWide
<1>6. Wide(c, 6) /\ c.num \in Int
  BY <1>3, <1>5, SixTerms
<1>7. WellFormed(c)
  BY <1>3, <1>6, Fits
<1> QED
  BY <1>7 DEF c

LEMMA MyRobotLocomotionFits == WellFormed(M!MyRobotLocomotion)
<1> DEFINE c == M!MyRobotLocomotion
<1>1. c.terms = <<"ang_vel", "gravity_vec", "commands", "dof_pos", "dof_vel",
                    "actions_history">>
  BY DEF M!MyRobotLocomotion, M!Policy
<1>2. c.dofs = 21
  BY DEF M!MyRobotLocomotion, M!Policy
<1>3. /\ c.num = 72 /\ c.ids = <<>>
      /\ c.priority \in {"time", "term"}
  BY DEF M!MyRobotLocomotion, M!Policy
<1> HIDE DEF c
<1>4. /\ M!Width("ang_vel", c.dofs) = 3
      /\ M!Width("gravity_vec", c.dofs) = 3
      /\ M!Width("commands", c.dofs) = 3
      /\ M!Width("dof_pos", c.dofs) = 21
      /\ M!Width("dof_vel", c.dofs) = 21
      /\ M!Width("actions_history", c.dofs) = 21
  BY <1>2, KnownWidths
<1>5. SixWide(c, "ang_vel", "gravity_vec", "commands", "dof_pos", "dof_vel",
           "actions_history",
           3, 3, 3, 21, 21, 21)
  BY <1>1, <1>2, <1>3, <1>4 DEF SixWide
<1>6. Wide(c, 6) /\ c.num \in Int
  BY <1>3, <1>5, SixTerms
<1>7. WellFormed(c)
  BY <1>3, <1>6, Fits
<1> QED
  BY <1>7 DEF c

LEMMA MyRobotDanceFits == WellFormed(M!MyRobotDance)
<1> DEFINE c == M!MyRobotDance
<1>1. c.terms = <<"whole_body_tracking/joint_pos",
                    "whole_body_tracking/joint_vel",
                    "whole_body_tracking/root_pos_relative",
                    "whole_body_tracking/ref_body_quat_tan_norm",
                    "whole_body_tracking/key_body_pos_relative",
                    "whole_body_tracking/progress">>
  BY DEF M!MyRobotDance, M!Policy
<1>2. c.dofs = 21
  BY DEF M!MyRobotDance, M!Policy
<1>3. /\ c.num = 89 /\ c.ids = <<>>
      /\ c.priority \in {"time", "term"}
  BY DEF M!MyRobotDance, M!Policy
<1> HIDE DEF c
<1>4. /\ M!Width("whole_body_tracking/joint_pos", c.dofs) = 21
      /\ M!Width("whole_body_tracking/joint_vel", c.dofs) = 21
      /\ M!Width("whole_body_tracking/root_pos_relative", c.dofs) = 1
      /\ M!Width("whole_body_tracking/ref_body_quat_tan_norm", c.dofs) = 6
      /\ M!Width("whole_body_tracking/key_body_pos_relative", c.dofs) = 39
      /\ M!Width("whole_body_tracking/progress", c.dofs) = 1
  BY <1>2, KnownWidths
<1>5. SixWide(c, "whole_body_tracking/joint_pos", "whole_body_tracking/joint_vel",
           "whole_body_tracking/root_pos_relative",
           "whole_body_tracking/ref_body_quat_tan_norm",
           "whole_body_tracking/key_body_pos_relative",
           "whole_body_tracking/progress",
           21, 21, 1, 6, 39, 1)
  BY <1>1, <1>2, <1>3, <1>4 DEF SixWide
<1>6. Wide(c, 6) /\ c.num \in Int
  BY <1>3, <1>5, SixTerms
<1>7. WellFormed(c)
  BY <1>3, <1>6, Fits
<1> QED
  BY <1>7 DEF c

LEMMA MyRobotMjlabFits == WellFormed(M!MyRobotMjlab)
<1> DEFINE c == M!MyRobotMjlab
<1>1. c.terms = <<"mjlab/command", "mjlab/motion_anchor_ori_b", "ang_vel",
                    "dof_pos", "dof_vel", "actions">>
  BY DEF M!MyRobotMjlab, M!Policy
<1>2. c.dofs = 21
  BY DEF M!MyRobotMjlab, M!Policy
<1>3. /\ c.num = 114 /\ c.ids = <<>>
      /\ c.priority \in {"time", "term"}
  BY DEF M!MyRobotMjlab, M!Policy
<1> HIDE DEF c
<1>4. /\ M!Width("mjlab/command", c.dofs) = 42
      /\ M!Width("mjlab/motion_anchor_ori_b", c.dofs) = 6
      /\ M!Width("ang_vel", c.dofs) = 3
      /\ M!Width("dof_pos", c.dofs) = 21
      /\ M!Width("dof_vel", c.dofs) = 21
      /\ M!Width("actions", c.dofs) = 21
  BY <1>2, KnownWidths
<1>5. SixWide(c, "mjlab/command", "mjlab/motion_anchor_ori_b", "ang_vel",
           "dof_pos", "dof_vel", "actions",
           42, 6, 3, 21, 21, 21)
  BY <1>1, <1>2, <1>3, <1>4 DEF SixWide
<1>6. Wide(c, 6) /\ c.num \in Int
  BY <1>3, <1>5, SixTerms
<1>7. WellFormed(c)
  BY <1>3, <1>6, Fits
<1> QED
  BY <1>7 DEF c

LEMMA TestFits == \A p \in {"time", "term"} : WellFormed(M!TestBuffer(p))
<1> SUFFICES ASSUME NEW p \in {"time", "term"} PROVE WellFormed(M!TestBuffer(p))
  OBVIOUS
<1> DEFINE c == M!TestBuffer(p)
<1>1. c.terms = <<"test_2", "test_3", "test_4">>
  BY DEF M!TestBuffer, M!Policy
<1>2. c.dofs = 1
  BY DEF M!TestBuffer, M!Policy
<1>3. /\ c.num = 9 /\ c.ids = <<0, 0, 1, 2>>
      /\ c.priority \in {"time", "term"}
  BY DEF M!TestBuffer, M!Policy
<1> HIDE DEF c
<1>4. /\ M!Width("test_2", c.dofs) = 2
      /\ M!Width("test_3", c.dofs) = 3
      /\ M!Width("test_4", c.dofs) = 4
  BY <1>2, KnownWidths
<1>5. ThreeWide(c, "test_2", "test_3", "test_4", 2, 3, 4)
  BY <1>1, <1>2, <1>3, <1>4 DEF ThreeWide
<1>6. Wide(c, 3) /\ c.num \in Int
  BY <1>3, <1>5, ThreeTerms
<1>7. HasIds(c, 4, 1)
  BY <1>1, <1>3 DEF HasIds
<1>8. WellFormed(c)
  BY <1>3, <1>6, <1>7, Fits
<1> QED
  BY <1>8 DEF c

LEMMA ConfigsFit ==
    ASSUME M!ModelInputAssumption, NEW r \in Robots, NEW c \in M!Policies[r]
    PROVE  WellFormed(c)
<1>1. r \in {"a1", "go2", "g1", "myrobot", "test"}
  BY DEF M!ModelInputAssumption, M!Policies
<1>2. \/ c \in {M!A1LeggedGym, M!Go2HimLoco, M!G1Locomotion, M!G1Charleston,
                M!G1Dance}
      \/ c \in {M!MyRobotLocomotion, M!MyRobotDance, M!MyRobotMjlab}
      \/ c \in {M!TestBuffer("time"), M!TestBuffer("term")}
  BY <1>1 DEF M!Policies
<1> QED
  BY <1>2, A1LeggedGymFits, Go2HimLocoFits, G1LocomotionFits, G1CharlestonFits,
     G1DanceFits, MyRobotLocomotionFits, MyRobotDanceFits, MyRobotMjlabFits,
     TestFits

\* The variables have values of their types.
InputTypes ==
    /\ robot \in Robots /\ config \in M!Policies[robot]
    /\ backend \in {"real", "sim"} /\ input_control \in {"idle", "init"}
    /\ input_rl \in {"idle", "begun"} /\ input_rl_init_done \in BOOLEAN
    /\ passes \in Nat /\ history_obs_buf \in Seq(Nat)

\* A buffer has the frames of the last n passes, the newest first, and zeros
\* behind them.
Frames(buffer, c, n) ==
    /\ Len(buffer) = M!FramesOf(c)
    /\ \A i \in 1 .. Len(buffer) :
          buffer[i] = IF i <= n THEN n + 1 - i ELSE 0

\* Once a policy was entered the buffer is the one of its configuration, also
\* for a pass that began before the robot left it, except while another one is
\* entered.
BufferInv ==
    /\ input_control = "idle"
    /\ input_rl_init_done \/ input_rl = "begun" \/ input # M!NoInput
    /\ config.ids # <<>>
    => Frames(history_obs_buf, config, passes)

InputInv == InputTypes /\ BufferInv /\ M!InputFits /\ M!HistoryAsConfigured

\* A new frame goes to the front, and the oldest one is dropped.
LEMMA Inserted ==
    ASSUME NEW c, WellFormed(c), c.ids # <<>>, NEW n \in Nat,
           NEW buffer \in Seq(Nat), Frames(buffer, c, n),
           M!ObservationWidth(c) = c.num
    PROVE  LET next == M!insert(buffer, n + 1, M!ObservationWidth(c), c)
           IN  next \in Seq(Nat) /\ Frames(next, c, n + 1)
<1> DEFINE next == M!insert(buffer, n + 1, M!ObservationWidth(c), c)
           len == Len(buffer)
           front == SubSeq(buffer, 1, len - 1)
<1>1. len = M!FramesOf(c) /\ len \in Nat /\ len > 0 /\ buffer # <<>>
  BY FramesFacts DEF Frames
<1>2. M!ComputeObservation(c) = c.num
  BY DEF M!ComputeObservation, WellFormed
<1>3. next = <<n + 1>> \o front
  BY <1>1, <1>2 DEF M!insert, M!Front
<1>4. /\ front \in Seq(Nat) /\ Len(front) = len - 1
      /\ \A i \in 1 .. len - 1 : front[i] = buffer[i]
  BY <1>1
<1>5. <<n + 1>> \in Seq(Nat) /\ Len(<<n + 1>>) = 1 /\ <<n + 1>>[1] = n + 1
  OBVIOUS
<1> DEFINE one == <<n + 1>>
<1> HIDE DEF front, one, next
<1>6. /\ one \o front \in Seq(Nat)
      /\ Len(one \o front) = Len(one) + Len(front)
      /\ \A i \in 1 .. Len(one) + Len(front) :
            (one \o front)[i]
              = IF i <= Len(one) THEN one[i] ELSE front[i - Len(one)]
  BY <1>4, <1>5, ConcatProperties DEF one
<1>7. /\ next \in Seq(Nat) /\ Len(next) = len
      /\ next[1] = n + 1
      /\ \A i \in 2 .. len : next[i] = buffer[i - 1]
  <2>1. next = one \o front
    BY <1>3 DEF one
  <2>2. Len(one) = 1 /\ one[1] = n + 1
    BY <1>5 DEF one
  <2>3. Len(next) = len /\ next[1] = n + 1
    BY <1>1, <1>4, <1>6, <2>1, <2>2
  <2>4. ASSUME NEW i \in 2 .. len PROVE next[i] = buffer[i - 1]
    <3>1. next[i] = front[i - 1]
      <4>1. /\ Len(one) = 1 /\ Len(front) = len - 1
            /\ i \in 1 .. 1 + (len - 1) /\ ~(i <= 1)
        BY <1>1, <1>4, <2>2
      <4>2. (one \o front)[i]
              = IF i <= Len(one) THEN one[i] ELSE front[i - Len(one)]
        BY <1>6, <4>1
      <4> QED
        BY <2>1, <4>1, <4>2
    <3>2. i - 1 \in 1 .. len - 1
      BY <1>1
    <3> QED
      BY <1>4, <3>1, <3>2
  <2> QED
    BY <1>6, <2>1, <2>3, <2>4
<1>8. ASSUME NEW i \in 1 .. len
      PROVE  next[i] = IF i <= n + 1 THEN n + 2 - i ELSE 0
  <2>1. CASE i = 1
    BY <1>7, <2>1
  <2>2. CASE i # 1
    <3>1. i \in 2 .. len /\ i - 1 \in 1 .. len
      BY <1>1, <2>2
    <3>2. buffer[i - 1] = IF i - 1 <= n THEN n + 1 - (i - 1) ELSE 0
      BY <3>1 DEF Frames
    <3>3. next[i] = buffer[i - 1]
      BY <1>7, <3>1
    <3> QED
      BY <1>1, <3>2, <3>3
  <2> QED
    BY <2>1, <2>2
<1>9. Frames(next, c, n + 1)
  BY <1>1, <1>7, <1>8 DEF Frames
<1> QED
  BY <1>7, <1>9 DEF next

\* Without a history the observation itself is what the network is given.
LEMMA InputFromObservation ==
    ASSUME NEW c, WellFormed(c), NEW n \in Nat
    PROVE  Total(c, [t \in DOMAIN c.terms |-> <<n, t>>]) = c.num
<1> DEFINE s == [t \in DOMAIN c.terms |-> <<n, t>>]
<1>1. \A t \in DOMAIN c.terms : s[t][2] = t
  OBVIOUS
<1>2. DOMAIN s = DOMAIN c.terms
  OBVIOUS
<1> HIDE DEF s
<1>3. Widths(c, s) = M!obs_dims(c)
  BY <1>1, <1>2 DEF Widths, M!obs_dims
<1>4. Total(c, s) = c.num
  BY <1>3 DEF Total, WellFormed
<1> QED
  BY <1>4 DEF s

LEMMA ForwardFits ==
    ASSUME M!ModelInputAssumption, InputInv, M!Forward
    PROVE  InputInv'
<1> USE DEF InputInv, InputTypes
<1>1. /\ input_rl = "begun" /\ input_control = "idle" /\ input_rl' = "idle"
      /\ UNCHANGED <<robot, backend, config, input_control, input_rl_init_done>>
  BY DEF M!Forward
<1>2. WellFormed(config)
  BY ConfigsFit
<1>3. config.num \in Int /\ config.ids \in Seq(Nat)
  BY <1>2 DEF WellFormed
<1>4. CASE config.ids = <<>>
  <2>1. /\ input' = [t \in DOMAIN config.terms |-> <<passes + 1, t>>]
        /\ UNCHANGED <<history_obs_buf, passes>>
    BY <1>4 DEF M!Forward
  <2>2. Total(config, input') = config.num
    <3>1. passes + 1 \in Nat
      OBVIOUS
    <3> QED
      BY <1>2, <2>1, <3>1, InputFromObservation
  <2>3. M!InputFits'
    <3>1. config.num * 1 = config.num
      BY <1>3
    <3> QED
      BY <1>1, <1>4, <2>2, <3>1 DEF M!InputFits, Total, Widths
  <2>4. BufferInv' /\ M!HistoryAsConfigured'
    BY <1>1, <1>4 DEF BufferInv, M!HistoryAsConfigured
  <2> QED
    BY <1>1, <2>1, <2>3, <2>4
<1>5. CASE config.ids # <<>>
  <2>1. /\ history_obs_buf' = M!insert(history_obs_buf, passes + 1,
                                       M!ObservationWidth(config), config)
        /\ input' = M!get_obs_vec(history_obs_buf', config)
        /\ passes' = passes + 1
    BY <1>5 DEF M!Forward
  <2>2. Frames(history_obs_buf, config, passes)
    BY <1>1, <1>5 DEF BufferInv
  <2>3. M!ObservationWidth(config) = config.num
    BY <1>2 DEF M!ObservationWidth, M!ComputeObservation, WellFormed
  <2>4. history_obs_buf' \in Seq(Nat) /\ Frames(history_obs_buf', config, passes')
    BY <1>2, <1>5, <2>1, <2>2, <2>3, Inserted
  <2> DEFINE Count == Len(config.ids)
             T == Len(config.terms)
  <2>5. Len(history_obs_buf') = M!FramesOf(config)
    BY <2>4 DEF Frames
  <2>6. /\ Len(input') = T * Count
        /\ \A k \in 1 .. Count, t \in 1 .. T :
              input'[IF config.priority = "time" THEN (k - 1) * T + t
                                                 ELSE (t - 1) * Count + k]
                = <<history_obs_buf'[config.ids[k] + 1], t>>
        /\ Total(config, input') = config.num * Count
    BY <1>2, <1>5, <2>1, <2>4, <2>5, InputFromBuffer
  <2>7. M!InputFits'
    BY <1>1, <1>5, <2>6 DEF M!InputFits, Total, Widths
  <2>8. \A k \in 1 .. Count :
           history_obs_buf'[config.ids[k] + 1]
             = IF config.ids[k] < passes' THEN passes' - config.ids[k] ELSE 0
    <3> SUFFICES ASSUME NEW k \in 1 .. Count
                 PROVE  history_obs_buf'[config.ids[k] + 1]
                          = IF config.ids[k] < passes'
                            THEN passes' - config.ids[k] ELSE 0
      OBVIOUS
    <3>1. /\ config.ids[k] \in 0 .. M!FramesOf(config) - 1
          /\ M!FramesOf(config) \in Nat
      <4>1. k \in DOMAIN config.ids
        BY <1>3
      <4> QED
        BY <1>2, <1>5, <4>1, FramesFacts
    <3> DEFINE i == config.ids[k] + 1
    <3>2. i \in 1 .. Len(history_obs_buf')
      BY <2>5, <3>1
    <3>3. history_obs_buf'[i] = IF i <= passes' THEN passes' + 1 - i ELSE 0
      BY <2>4, <3>2 DEF Frames
    <3> QED
      BY <2>1, <3>1, <3>3
  <2>9. M!HistoryAsConfigured'
    <3> HIDE DEF Count, T
    <3>1. \A k \in 1 .. Count, t \in 1 .. T :
             input'[IF config.priority = "time" THEN (k - 1) * T + t
                                                ELSE (t - 1) * Count + k]
               = <<IF config.ids[k] < passes' THEN passes' - config.ids[k]
                   ELSE 0, t>>
      BY <2>6, <2>8
    <3> QED
      BY <1>1, <2>6, <3>1 DEF M!HistoryAsConfigured, Count, T
  <2>10. BufferInv'
    BY <1>1, <2>4 DEF BufferInv
  <2> QED
    BY <1>1, <2>1, <2>4, <2>7, <2>9, <2>10
<1> QED
  BY <1>4, <1>5

LEMMA ModelInputNext ==
    ASSUME M!ModelInputAssumption, InputInv, [M!Next]_(M!vars)
    PROVE  InputInv'
<1> USE DEF InputInv, InputTypes
<1>1. CASE M!Exit
  BY <1>1 DEF M!Exit, BufferInv, M!InputFits, M!HistoryAsConfigured
<1>2. ASSUME NEW c \in M!Policies[robot], M!InitRL(c) PROVE InputInv'
  BY <1>2 DEF M!InitRL, BufferInv, M!InputFits, M!HistoryAsConfigured
<1>3. CASE M!InitRLEnd
  <2>1. /\ input_control' = "idle" /\ passes' = 0 /\ input' = M!NoInput
        /\ input_rl_init_done' = TRUE
        /\ history_obs_buf' = M!InitHistory(config)
        /\ UNCHANGED <<robot, backend, config, input_rl>>
    BY <1>3 DEF M!InitRLEnd
  <2>2. WellFormed(config)
    BY ConfigsFit
  <2>3. /\ history_obs_buf' \in Seq(Nat)
        /\ config.ids # <<>> => Frames(history_obs_buf', config, 0)
    <3>1. CASE config.ids = <<>>
      BY <2>1, <3>1 DEF M!InitHistory
    <3>2. CASE config.ids # <<>>
      <4> DEFINE n == M!FramesOf(config)
      <4>1. n \in Nat
        BY <2>2, <3>2, FramesFacts
      <4>2. history_obs_buf' = [i \in 1 .. n |-> 0]
        BY <2>1, <3>2 DEF M!InitHistory
      <4> HIDE DEF n
      <4>3. history_obs_buf' \in Seq(Nat) /\ Len(history_obs_buf') = n
        BY <4>1, <4>2
      <4>4. \A i \in 1 .. n :
               history_obs_buf'[i] = IF i <= 0 THEN 0 + 1 - i ELSE 0
        BY <4>1, <4>2
      <4> QED
        BY <4>3, <4>4 DEF n, Frames
    <3> QED
      BY <3>1, <3>2
  <2> QED
    BY <2>1, <2>3 DEF BufferInv, M!InputFits, M!HistoryAsConfigured
<1>4. CASE M!RunModel
  BY <1>4 DEF M!RunModel, BufferInv, M!InputFits, M!HistoryAsConfigured
<1>5. CASE M!UsePreviousActions
  BY <1>5 DEF M!UsePreviousActions, BufferInv, M!InputFits, M!HistoryAsConfigured
<1>6. CASE M!Forward
  BY <1>6, ForwardFits
<1>7. CASE UNCHANGED M!vars
  BY <1>7 DEF M!vars, BufferInv, M!InputFits, M!HistoryAsConfigured
<1> QED
  BY <1>1, <1>2, <1>3, <1>4, <1>5, <1>6, <1>7 DEF M!Next

LEMMA ModelInputInit == M!Init => InputInv
<1> SUFFICES ASSUME M!Init PROVE InputInv
  OBVIOUS
<1>1. /\ robot \in Robots /\ backend \in {"real", "sim"}
      /\ config \in M!Policies[robot]
      /\ input_control = "idle" /\ input_rl_init_done = FALSE
      /\ input_rl = "idle" /\ history_obs_buf = <<>> /\ passes = 0
      /\ input = M!NoInput
  BY DEF M!Init
<1>2. <<>> \in Seq(Nat)
  OBVIOUS
<1>3. InputTypes
  BY <1>1, <1>2 DEF InputTypes
<1> QED
  BY <1>1, <1>3 DEF InputInv, BufferInv, M!InputFits, M!HistoryAsConfigured

LEMMA ModelInputSteps == Spec => M!Spec
<1>1. Init => M!Init
  BY DEF Init
<1>2. [Next]_vars => [M!Next]_(M!vars)
  <2>1. UNCHANGED input_vars => UNCHANGED M!vars
    BY DEF input_vars, M!vars
  <2>2. UNCHANGED vars => UNCHANGED input_vars
    BY DEF vars
  <2> QED
    BY <2>1, <2>2, OthersStay DEF Next
<1> QED
  BY <1>1, <1>2, PTL DEF Spec, M!Spec

\* A network is given as many numbers as it was trained with, and of its
\* history the frames that the configuration asks for, in its order, with zeros
\* for the passes that were not: for any of the robots, any number of passes
\* and any order of leaving and entering the policies.
THEOREM ModelInputSafeHolds == Spec => []ModelInputSafe
<1>1. M!ModelInputAssumption
  BY ModelInputAssumption
<1>2. M!Init => InputInv
  BY ModelInputInit
<1>3. InputInv /\ [M!Next]_(M!vars) => InputInv'
  BY <1>1, ModelInputNext
<1>4. InputInv => ModelInputSafe
  <2>1. history_obs_buf \in Seq(Nat) =>
           \A i \in DOMAIN history_obs_buf : history_obs_buf[i] \in Nat
    OBVIOUS
  <2> QED
    BY <2>1 DEF InputInv, InputTypes, ModelInputSafe, M!ModelInputSafe, M!TypeOK
<1> QED
  BY <1>2, <1>3, <1>4, ModelInputSteps, PTL DEF Spec, M!Spec
-----------------------------------------------------------------------------
(* The orientations, for any waists and any frames of quarter turns: their *)
(* products are taken apart into integers, without the common divisor that *)
(* QuaternionNormalize divides by, and their rotations into the entries of *)
(* a matrix, times the square of the norm.                                 *)

Quat == [1 .. 4 -> Int]
Triple == [1 .. 3 -> Int]
Scale(k, a) == <<k * a[1], k * a[2], k * a[3], k * a[4]>>

\* The product of two quaternions, before it is normalised.
Raw(a, b) ==
    <<a[1] * b[1] - (a[2] * b[2] + a[3] * b[3] + a[4] * b[4]),
      a[1] * b[2] + a[2] * b[1] + (a[3] * b[4] - a[4] * b[3]),
      a[1] * b[3] + a[3] * b[1] + (a[4] * b[2] - a[2] * b[4]),
      a[1] * b[4] + a[4] * b[1] + (a[2] * b[3] - a[3] * b[2])>>

LEMMA RawIsQuat ==
    ASSUME NEW a \in Quat, NEW b \in Quat
    PROVE  /\ Raw(a, b) \in Quat
           /\ \A k \in Int : Scale(k, a) \in Quat
           /\ A!QuaternionConjugate(a) \in Quat
           /\ A!Norm2(a) \in Int
  BY DEF Quat, Raw, Scale, A!QuaternionConjugate, A!Norm2

LEMMA FourIntegers ==
    ASSUME NEW a \in Quat
    PROVE  \E w, x, y, z \in Int : a = <<w, x, y, z>>
<1>1. a = <<a[1], a[2], a[3], a[4]>>
  BY DEF Quat
<1>2. a[1] \in Int /\ a[2] \in Int /\ a[3] \in Int /\ a[4] \in Int
  BY DEF Quat
<1> QED
  BY <1>1, <1>2

LEMMA ScaleOfScale ==
    ASSUME NEW a \in Quat, NEW k \in Int, NEW l \in Int
    PROVE  Scale(k, Scale(l, a)) = Scale(k * l, a)
<1>1. PICK w, x, y, z \in Int : a = <<w, x, y, z>>
  BY FourIntegers
<1> QED
  BY <1>1 DEF Scale

LEMMA ConjugateOfScale ==
    ASSUME NEW a \in Quat, NEW k \in Int
    PROVE  A!QuaternionConjugate(Scale(k, a))
             = Scale(k, A!QuaternionConjugate(a))
<1>1. PICK w, x, y, z \in Int : a = <<w, x, y, z>>
  BY FourIntegers
<1> QED
  BY <1>1 DEF Scale, A!QuaternionConjugate

LEMMA ImagIs ==
    ASSUME NEW a \in Quat
    PROVE  A!Imag(a) = <<a[2], a[3], a[4]>>
<1>1. a = <<a[1], a[2], a[3], a[4]>> /\ {a[1], a[2], a[3], a[4]} \subseteq Int
  BY DEF Quat
<1>2. Tail(<<a[1], a[2], a[3], a[4]>>) = <<a[2], a[3], a[4]>>
  BY <1>1
<1> QED
  BY <1>1, <1>2 DEF A!Imag

LEMMA FourInARow ==
    ASSUME NEW w \in Int, NEW x \in Int, NEW y \in Int, NEW z \in Int
    PROVE  <<w>> \o <<x, y, z>> = <<w, x, y, z>>
<1> DEFINE s == <<w>>  t == <<x, y, z>>  c == s \o t
<1>1. s \in Seq(Int) /\ Len(s) = 1 /\ t \in Seq(Int) /\ Len(t) = 3
  OBVIOUS
<1>2. /\ c \in Seq(Int) /\ Len(c) = 4
      /\ \A i \in 1 .. 4 : c[i] = IF i <= 1 THEN s[i] ELSE t[i - 1]
  BY <1>1, ConcatProperties
<1> HIDE DEF c
<1>3. c \in [1 .. 4 -> Int]
  BY <1>2, LenProperties
<1>4. c = <<c[1], c[2], c[3], c[4]>>
  BY <1>3
<1>5. c[1] = w /\ c[2] = x /\ c[3] = y /\ c[4] = z
  BY <1>2
<1> QED
  BY <1>4, <1>5 DEF c

LEMMA MultiplyIs ==
    ASSUME NEW a \in Quat, NEW b \in Quat
    PROVE  A!QuaternionMultiply(a, b) = A!QuaternionNormalize(Raw(a, b))
<1> DEFINE v == A!Cross(A!Imag(a), A!Imag(b))
           first == a[1] * b[1] - A!Dot(A!Imag(a), A!Imag(b))
           rest == [i \in 1 .. 3 |-> a[1] * b[i + 1] + a[i + 1] * b[1] + v[i]]
<1>1. v = <<a[3] * b[4] - a[4] * b[3], a[4] * b[2] - a[2] * b[4],
            a[2] * b[3] - a[3] * b[2]>>
  BY ImagIs DEF A!Cross
<1>2. first = Raw(a, b)[1]
  BY ImagIs DEF A!Dot, Raw
<1>3. rest = <<Raw(a, b)[2], Raw(a, b)[3], Raw(a, b)[4]>>
  BY <1>1 DEF Raw
<1>4. {Raw(a, b)[1], Raw(a, b)[2], Raw(a, b)[3], Raw(a, b)[4]} \subseteq Int
  BY DEF Raw, Quat
<1>5. <<Raw(a, b)[1]>> \o <<Raw(a, b)[2], Raw(a, b)[3], Raw(a, b)[4]>>
        = <<Raw(a, b)[1], Raw(a, b)[2], Raw(a, b)[3], Raw(a, b)[4]>>
  BY <1>4, FourInARow
<1>6. <<first>> \o rest = Raw(a, b)
  BY <1>2, <1>3, <1>5 DEF Raw
<1> QED
  BY <1>6 DEF A!QuaternionMultiply

\* The divisor is the largest of 1, 2 and 4 that divides all four.
LEMMA NormalizeIs ==
    ASSUME NEW r \in Quat
    PROVE  \E g \in {1, 2, 4} :
               /\ A!QuaternionNormalize(r) \in Quat
               /\ r = Scale(g, A!QuaternionNormalize(r))
               /\ \A h \in {1, 2, 4} : (\A i \in 1 .. 4 : r[i] % h = 0) => h <= g
<1> DEFINE Divides(h) == \A i \in 1 .. 4 : r[i] % h = 0
           Largest(h) == Divides(h) /\ \A k \in {4, 2, 1} : Divides(k) => k <= h
           g == CHOOSE h \in {4, 2, 1} : Largest(h)
<1>1. \A i \in 1 .. 4 : r[i] \in Int
  BY DEF Quat
<1>2. \E h \in {4, 2, 1} : Largest(h)
  <2>1. Divides(1)
    BY <1>1
  <2> HIDE DEF Divides
  <2> QED
    BY <2>1
<1>3. g \in {4, 2, 1} /\ Largest(g)
  BY <1>2
<1>4. A!QuaternionNormalize(r) = [i \in 1 .. 4 |-> r[i] \div g]
  BY DEF A!QuaternionNormalize
<1> HIDE DEF g
<1>5. \A i \in 1 .. 4 : r[i] \div g \in Int /\ r[i] = g * (r[i] \div g)
  BY <1>1, <1>3
<1>6. r = <<r[1], r[2], r[3], r[4]>>
  BY DEF Quat
<1> QED
  BY <1>3, <1>4, <1>5, <1>6 DEF Quat, Scale

\* Four squares that add up to 8 or 16 are even, and even ones do not add up to 1.
LEMMA EvenSquares ==
    ASSUME NEW w \in -4 .. 4, NEW x \in -4 .. 4, NEW y \in -4 .. 4,
           NEW z \in -4 .. 4
    PROVE  LET even == w % 2 = 0 /\ x % 2 = 0 /\ y % 2 = 0 /\ z % 2 = 0
               sum == w * w + (x * x + y * y + z * z)
           IN  /\ sum \in {8, 16} => even
               /\ even => sum # 1
  OBVIOUS

\* Four squares that add up to 4 are even, or all of them are 1.
LEMMA FourSquares ==
    ASSUME NEW w \in -4 .. 4, NEW x \in -4 .. 4, NEW y \in -4 .. 4,
           NEW z \in -4 .. 4, w * w + (x * x + y * y + z * z) = 4
    PROVE  \/ w % 2 = 0 /\ x % 2 = 0 /\ y % 2 = 0 /\ z % 2 = 0
           \/ {w, x, y, z} \subseteq {-1, 1}
  OBVIOUS

LEMMA SquareBounds ==
    ASSUME NEW w \in Int, NEW x \in Int, NEW y \in Int, NEW z \in Int,
           w * w + (x * x + y * y + z * z) \in 0 .. 16
    PROVE  w \in -4 .. 4 /\ x \in -4 .. 4 /\ y \in -4 .. 4 /\ z \in -4 .. 4
  OBVIOUS

LEMMA NormOfRaw ==
    ASSUME NEW a \in Quat, NEW b \in Quat
    PROVE  A!Norm2(Raw(a, b)) = A!Norm2(a) * A!Norm2(b)
<1>1. \A i \in 1 .. 4 : a[i] \in Int /\ b[i] \in Int
  BY DEF Quat
<1>2. ASSUME NEW w \in Int, NEW x \in Int, NEW y \in Int, NEW z \in Int,
             NEW s \in Int, NEW t \in Int, NEW u \in Int, NEW v \in Int
      PROVE  LET f == w * s - (x * t + y * u + z * v)
                 g == w * t + x * s + (y * v - z * u)
                 h == w * u + y * s + (z * t - x * v)
                 k == w * v + z * s + (x * u - y * t)
             IN  f * f + (g * g + h * h + k * k)
                   = (w * w + (x * x + y * y + z * z))
                       * (s * s + (t * t + u * u + v * v))
  OBVIOUS
<1> QED
  BY <1>1, <1>2 DEF Raw, A!Norm2

LEMMA NormOfScale ==
    ASSUME NEW k \in Int, NEW a \in Quat
    PROVE  A!Norm2(Scale(k, a)) = k * k * A!Norm2(a)
<1>1. \A i \in 1 .. 4 : a[i] \in Int
  BY DEF Quat
<1> QED
  BY <1>1 DEF Scale, A!Norm2

\* What is left when the divisor is taken out is a quaternion of quarter turns.
LEMMA UnitNormalized ==
    ASSUME NEW r \in Quat, A!Norm2(r) \in {1, 2, 4, 8, 16}
    PROVE  A!Unit(A!QuaternionNormalize(r))
<1> DEFINE n == A!QuaternionNormalize(r)
<1>1. PICK g \in {1, 2, 4} :
          /\ n \in Quat /\ r = Scale(g, n)
          /\ \A h \in {1, 2, 4} : (\A i \in 1 .. 4 : r[i] % h = 0) => h <= g
  BY NormalizeIs
<1> HIDE DEF n
<1>2. /\ \A i \in 1 .. 4 : n[i] \in Int /\ r[i] = g * n[i]
      /\ n \in [1 .. 4 -> Int]
  BY <1>1 DEF Quat, Scale
<1>3. g * g * A!Norm2(n) \in {1, 2, 4, 8, 16} /\ A!Norm2(n) \in Int
  BY <1>1, NormOfScale, RawIsQuat
<1>4. A!Norm2(n) \in {1, 2, 4, 8, 16}
  BY <1>3
<1>5. n[1] \in -4 .. 4 /\ n[2] \in -4 .. 4 /\ n[3] \in -4 .. 4 /\ n[4] \in -4 .. 4
  <2>1. n[1] * n[1] + (n[2] * n[2] + n[3] * n[3] + n[4] * n[4]) \in 0 .. 16
    BY <1>4 DEF A!Norm2
  <2>2. n[1] \in Int /\ n[2] \in Int /\ n[3] \in Int /\ n[4] \in Int
    BY <1>2
  <2> QED
    BY <2>1, <2>2, SquareBounds
<1>6. ~ \A i \in 1 .. 4 : n[i] % 2 = 0
  <2> SUFFICES ASSUME \A i \in 1 .. 4 : n[i] % 2 = 0 PROVE FALSE
    OBVIOUS
  <2>1. CASE g = 4
    <3>1. A!Norm2(n) = 1
      BY <1>3, <1>4, <2>1
    <3> QED
      BY <1>5, <3>1, EvenSquares DEF A!Norm2
  <2>2. CASE g # 4
    <3>1. \A i \in 1 .. 4 : r[i] % (2 * g) = 0
      BY <1>1, <1>2, <2>2
    <3> QED
      BY <1>1, <2>2, <3>1
  <2> QED
    BY <2>1, <2>2
<1>7. A!Norm2(n) \in {1, 2, 4}
  BY <1>4, <1>5, <1>6, EvenSquares DEF A!Norm2
<1>8. \A i \in 1 .. 4 : n[i] \in -1 .. 1
  <2>1. CASE A!Norm2(n) = 4
    BY <1>5, <1>6, <2>1, FourSquares DEF A!Norm2
  <2>2. CASE A!Norm2(n) # 4
    BY <1>5, <1>7, <2>2 DEF A!Norm2
  <2> QED
    BY <2>1, <2>2
<1> QED
  BY <1>2, <1>7, <1>8 DEF A!Unit, n

LEMMA UnitIsQuat ==
    ASSUME NEW a, A!Unit(a)
    PROVE  a \in Quat /\ \E i \in 1 .. 4 : a[i] \in {-1, 1}
  BY DEF A!Unit, A!Norm2, Quat

LEMMA UnitConjugate ==
    ASSUME NEW a, A!Unit(a)
    PROVE  A!Unit(A!QuaternionConjugate(a))
  BY DEF A!Unit, A!Norm2, A!QuaternionConjugate

LEMMA UnitScale ==
    ASSUME NEW a \in Quat
    PROVE  Scale(1, a) = a
  BY DEF Scale, Quat

\* Quaternions of quarter turns with the same direction are the same.
LEMMA SameDirection ==
    ASSUME NEW a, NEW b, A!Unit(a), A!Unit(b), NEW k \in Nat \ {0},
           NEW l \in Nat \ {0}, Scale(k, a) = Scale(l, b)
    PROVE  a = b
<1>1. /\ a \in [1 .. 4 -> -1 .. 1] /\ b \in [1 .. 4 -> -1 .. 1]
      /\ \A i \in 1 .. 4 : k * a[i] = l * b[i]
  BY DEF A!Unit, Scale
<1>2. PICK i \in 1 .. 4 : a[i] \in {-1, 1}
  BY UnitIsQuat
<1>3. b[i] \in {-1, 0, 1} /\ k * a[i] = l * b[i]
  BY <1>1
<1>4. k = l
  BY <1>2, <1>3
<1>5. \A j \in 1 .. 4 : a[j] = b[j]
  <2> SUFFICES ASSUME NEW j \in 1 .. 4 PROVE a[j] = b[j]
    OBVIOUS
  <2>1. k * a[j] = k * b[j] /\ a[j] \in -1 .. 1 /\ b[j] \in -1 .. 1
    BY <1>1, <1>4
  <2> QED
    BY <2>1
<1> QED
  BY <1>1, <1>5

LEMMA ProductFacts ==
    ASSUME NEW a, NEW b, A!Unit(a), A!Unit(b)
    PROVE  /\ A!Unit(A!QuaternionMultiply(a, b))
           /\ \E g \in {1, 2, 4} : Raw(a, b) = Scale(g, A!QuaternionMultiply(a, b))
<1>1. a \in Quat /\ b \in Quat /\ Raw(a, b) \in Quat
  BY UnitIsQuat, RawIsQuat
<1>2. A!Norm2(a) \in {1, 2, 4} /\ A!Norm2(b) \in {1, 2, 4}
  BY DEF A!Unit
<1>3. A!Norm2(Raw(a, b)) \in {1, 2, 4, 8, 16}
  BY <1>1, <1>2, NormOfRaw
<1>4. A!QuaternionMultiply(a, b) = A!QuaternionNormalize(Raw(a, b))
  BY <1>1, MultiplyIs
<1> QED
  BY <1>1, <1>3, <1>4, NormalizeIs, UnitNormalized

\* The product is the only quaternion of quarter turns in its direction.
LEMMA ProductIs ==
    ASSUME NEW a, NEW b, NEW c, A!Unit(a), A!Unit(b), A!Unit(c),
           NEW k \in Nat \ {0}, NEW l \in Nat \ {0},
           Scale(k, c) = Scale(l, Raw(a, b))
    PROVE  c = A!QuaternionMultiply(a, b)
<1> DEFINE m == A!QuaternionMultiply(a, b)
<1>1. PICK g \in {1, 2, 4} : Raw(a, b) = Scale(g, m)
  BY ProductFacts
<1>2. A!Unit(m) /\ m \in Quat
  BY ProductFacts, UnitIsQuat
<1> HIDE DEF m
<1>3. Scale(l, Scale(g, m)) = Scale(l * g, m)
  BY <1>2, ScaleOfScale
<1>4. l * g \in Nat \ {0}
  OBVIOUS
<1> QED
  BY <1>1, <1>2, <1>3, <1>4, SameDirection DEF m

LEMMA RawOfScales ==
    ASSUME NEW a \in Quat, NEW b \in Quat, NEW k \in Int, NEW l \in Int
    PROVE  Raw(Scale(k, a), Scale(l, b)) = Scale(k * l, Raw(a, b))
<1>1. PICK w, x, y, z \in Int : a = <<w, x, y, z>>
  BY FourIntegers
<1>2. PICK s, t, u, v \in Int : b = <<s, t, u, v>>
  BY FourIntegers
<1> QED
  BY <1>1, <1>2 DEF Raw, Scale

LEMMA RawAssociates ==
    ASSUME NEW a \in Quat, NEW b \in Quat, NEW c \in Quat
    PROVE  Raw(Raw(a, b), c) = Raw(a, Raw(b, c))
<1>1. \A i \in 1 .. 4 : a[i] \in Int /\ b[i] \in Int /\ c[i] \in Int
  BY DEF Quat
<1> QED
  BY <1>1 DEF Raw

\* What two have in common on the left is undone between them.
LEMMA RawCancels ==
    ASSUME NEW h \in Quat, NEW a \in Quat, NEW b \in Quat
    PROVE  Raw(A!QuaternionConjugate(Raw(h, a)), Raw(h, b))
             = Scale(A!Norm2(h), Raw(A!QuaternionConjugate(a), b))
<1> DEFINE c == A!QuaternionConjugate(a)
           n == A!Norm2(h)
<1>1. PICK d, e, f, g \in Int : h = <<d, e, f, g>>
  BY FourIntegers
<1>2. PICK w, x, y, z \in Int : a = <<w, x, y, z>>
  BY FourIntegers
<1>3. PICK s, t, u, v \in Int : b = <<s, t, u, v>>
  BY FourIntegers
<1>4. A!QuaternionConjugate(Raw(h, a)) = Raw(c, A!QuaternionConjugate(h))
  BY <1>1, <1>2 DEF Raw, A!QuaternionConjugate
<1>5. Raw(A!QuaternionConjugate(h), Raw(h, b)) = Scale(n, b)
  BY <1>1, <1>3 DEF Raw, Scale, A!QuaternionConjugate, A!Norm2
<1>6. /\ A!QuaternionConjugate(h) \in Quat /\ Raw(h, b) \in Quat
      /\ n \in Int /\ c \in Quat
  BY RawIsQuat
<1>7. Raw(Raw(c, A!QuaternionConjugate(h)), Raw(h, b)) = Raw(c, Scale(n, b))
  BY <1>5, <1>6, RawAssociates
<1> HIDE DEF c, n
<1>8. Raw(c, Scale(n, b)) = Scale(n, Raw(c, b))
  <2>1. Scale(1, c) = c
    BY <1>6, UnitScale
  <2>2. 1 * n = n /\ 1 \in Int
    BY <1>6
  <2>3. Raw(Scale(1, c), Scale(n, b)) = Scale(1 * n, Raw(c, b))
    BY <1>6, <2>2, RawOfScales
  <2> QED
    BY <2>1, <2>2, <2>3
<1> QED
  BY <1>4, <1>7, <1>8 DEF c, n

\* The same of products that are normalised.
LEMMA MultiplyAssociates ==
    ASSUME NEW a, NEW b, NEW c, A!Unit(a), A!Unit(b), A!Unit(c)
    PROVE  A!QuaternionMultiply(A!QuaternionMultiply(a, b), c)
             = A!QuaternionMultiply(a, A!QuaternionMultiply(b, c))
<1> DEFINE p == A!QuaternionMultiply(a, b)
           r == A!QuaternionMultiply(b, c)
           m == A!QuaternionMultiply(p, c)
<1>1. PICK g \in {1, 2, 4} : Raw(a, b) = Scale(g, p)
  BY ProductFacts
<1>2. PICK h \in {1, 2, 4} : Raw(b, c) = Scale(h, r)
  BY ProductFacts
<1>3. A!Unit(p) /\ A!Unit(r)
  BY ProductFacts
<1>4. A!Unit(m) /\ \E k \in {1, 2, 4} : Raw(p, c) = Scale(k, m)
  BY <1>3, ProductFacts
<1>5. PICK k \in {1, 2, 4} : Raw(p, c) = Scale(k, m)
  BY <1>4
<1>6. a \in Quat /\ b \in Quat /\ c \in Quat /\ p \in Quat /\ r \in Quat /\ m \in Quat
  BY <1>3, <1>4, UnitIsQuat
<1> HIDE DEF p, r, m
<1>7. Scale(g * k, m) = Raw(Raw(a, b), c)
  <2>1. Scale(1, c) = c
    BY <1>6, UnitScale
  <2>2. Raw(Scale(g, p), Scale(1, c)) = Scale(g * 1, Raw(p, c))
    BY <1>6, RawOfScales
  <2>3. Scale(g, Scale(k, m)) = Scale(g * k, m)
    BY <1>6, ScaleOfScale
  <2> QED
    BY <1>1, <1>5, <2>1, <2>2, <2>3
<1>8. Scale(h, Raw(a, r)) = Raw(a, Raw(b, c))
  <2>1. Scale(1, a) = a
    BY <1>6, UnitScale
  <2>2. Raw(Scale(1, a), Scale(h, r)) = Scale(1 * h, Raw(a, r))
    BY <1>6, RawOfScales
  <2> QED
    BY <1>2, <2>1, <2>2
<1>9. Scale(g * k, m) = Scale(h, Raw(a, r)) /\ g * k \in Nat \ {0}
  BY <1>6, <1>7, <1>8, RawAssociates
<1>10. m = A!QuaternionMultiply(a, r)
  BY <1>3, <1>4, <1>9, ProductIs DEF m
<1> QED
  BY <1>10 DEF m, p, r

LEMMA MultiplyCancels ==
    ASSUME NEW h, NEW a, NEW b, A!Unit(h), A!Unit(a), A!Unit(b)
    PROVE  A!QuaternionMultiply(
               A!QuaternionConjugate(A!QuaternionMultiply(h, a)),
               A!QuaternionMultiply(h, b))
             = A!QuaternionMultiply(A!QuaternionConjugate(a), b)
<1> DEFINE p == A!QuaternionMultiply(h, a)
           r == A!QuaternionMultiply(h, b)
           cp == A!QuaternionConjugate(p)
           ca == A!QuaternionConjugate(a)
           m == A!QuaternionMultiply(cp, r)
<1>1. PICK g \in {1, 2, 4} : Raw(h, a) = Scale(g, p)
  BY ProductFacts
<1>2. PICK k \in {1, 2, 4} : Raw(h, b) = Scale(k, r)
  BY ProductFacts
<1>3. A!Unit(p) /\ A!Unit(r)
  BY ProductFacts
<1>4. A!Unit(cp) /\ A!Unit(ca)
  BY <1>3, UnitConjugate
<1>5. A!Unit(m) /\ \E l \in {1, 2, 4} : Raw(cp, r) = Scale(l, m)
  BY <1>3, <1>4, ProductFacts
<1>6. PICK l \in {1, 2, 4} : Raw(cp, r) = Scale(l, m)
  BY <1>5
<1>7. /\ h \in Quat /\ a \in Quat /\ b \in Quat /\ p \in Quat
      /\ r \in Quat /\ m \in Quat /\ cp \in Quat
  BY <1>3, <1>4, <1>5, UnitIsQuat
<1>8. A!Norm2(h) \in Nat \ {0}
  BY DEF A!Unit
<1>9. A!QuaternionConjugate(Scale(g, p)) = Scale(g, cp)
  BY <1>7, ConjugateOfScale
<1> HIDE DEF p, r, cp, ca, m
<1>10. Raw(Scale(g, cp), Scale(k, r)) = Scale(g * k, Raw(cp, r))
  BY <1>7, RawOfScales
<1>11. Scale(g * k, Scale(l, m)) = Scale(g * k * l, m)
  BY <1>7, ScaleOfScale
<1>12. Raw(A!QuaternionConjugate(Raw(h, a)), Raw(h, b))
         = Scale(A!Norm2(h), Raw(ca, b))
  BY <1>7, RawCancels DEF ca
<1>13. Scale(g * k * l, m) = Scale(A!Norm2(h), Raw(ca, b))
  BY <1>1, <1>2, <1>6, <1>9, <1>10, <1>11, <1>12
<1>14. g * k * l \in Nat \ {0}
  OBVIOUS
<1>15. m = A!QuaternionMultiply(ca, b)
  BY <1>4, <1>5, <1>8, <1>13, <1>14, ProductIs
<1> QED
  BY <1>15 DEF p, r, cp, ca, m

\* The matrix of a quaternion, times the square of its norm.
Rot(a) ==
    LET w == a[1]  x == a[2]  y == a[3]  z == a[4]
    IN  <<w*w + x*x - y*y - z*z, 2 * (x*y - w*z), 2 * (x*z + w*y),
          2 * (x*y + w*z), w*w - x*x + y*y - z*z, 2 * (y*z - w*x),
          2 * (x*z - w*y), 2 * (y*z + w*x), w*w - x*x - y*y + z*z>>
Mat(a) == A!QuaternionToRotationMatrix(a)

\* Every division of QuaternionToRotationMatrix is without a remainder.
LEMMA DivisionsAreExact ==
    ASSUME NEW w \in -1 .. 1, NEW x \in -1 .. 1, NEW y \in -1 .. 1,
           NEW z \in -1 .. 1, NEW n \in {1, 2, 4},
           n = w*w + (x*x + y*y + z*z)
    PROVE  /\ (2 * (y*y + z*z)) % n = 0 /\ (2 * (x*x + z*z)) % n = 0
           /\ (2 * (x*x + y*y)) % n = 0
           /\ (2 * (x*y - w*z)) % n = 0 /\ (2 * (x*y + w*z)) % n = 0
           /\ (2 * (x*z + w*y)) % n = 0 /\ (2 * (x*z - w*y)) % n = 0
           /\ (2 * (y*z - w*x)) % n = 0 /\ (2 * (y*z + w*x)) % n = 0
<1>1. CASE n = 1
  BY <1>1
<1>2. CASE n = 2
  BY <1>2
<1>3. CASE n = 4
  BY <1>3
<1> QED
  BY <1>1, <1>2, <1>3

LEMMA UnitIntegers ==
    ASSUME NEW a, A!Unit(a)
    PROVE  \E w, x, y, z \in -1 .. 1 :
               /\ a = <<w, x, y, z>>
               /\ A!Norm2(a) = w*w + (x*x + y*y + z*z)
<1>1. a = <<a[1], a[2], a[3], a[4]>>
  BY DEF A!Unit
<1>2. a[1] \in -1 .. 1 /\ a[2] \in -1 .. 1 /\ a[3] \in -1 .. 1 /\ a[4] \in -1 .. 1
  BY DEF A!Unit
<1> QED
  BY <1>1, <1>2 DEF A!Norm2

LEMMA MatIs ==
    ASSUME NEW a, A!Unit(a)
    PROVE  /\ Mat(a) \in [1 .. 9 -> Int]
           /\ \A i \in 1 .. 9 : A!Norm2(a) * Mat(a)[i] = Rot(a)[i]
<1> DEFINE n == A!Norm2(a)
<1>1. PICK w, x, y, z \in -1 .. 1 :
          a = <<w, x, y, z>> /\ n = w*w + (x*x + y*y + z*z)
  BY UnitIntegers
<1>2. n \in {1, 2, 4}
  BY DEF A!Unit
<1> HIDE DEF n
<1>3. \A k \in Int : /\ (2 * k) \div n \in Int
                     /\ (2 * k) % n = 0 => n * ((2 * k) \div n) = 2 * k
  BY <1>2
<1> DEFINE Two(k) == (2 * k) \div n
<1>4. Mat(a) = <<1 - Two(y*y + z*z), Two(x*y - w*z), Two(x*z + w*y),
                 Two(x*y + w*z), 1 - Two(x*x + z*z), Two(y*z - w*x),
                 Two(x*z - w*y), Two(y*z + w*x), 1 - Two(x*x + y*y)>>
  BY <1>1 DEF Mat, A!QuaternionToRotationMatrix, n
<1>5. /\ n * Two(y*y + z*z) = 2 * (y*y + z*z)
      /\ n * Two(x*x + z*z) = 2 * (x*x + z*z)
      /\ n * Two(x*x + y*y) = 2 * (x*x + y*y)
      /\ n * Two(x*y - w*z) = 2 * (x*y - w*z)
      /\ n * Two(x*y + w*z) = 2 * (x*y + w*z)
      /\ n * Two(x*z + w*y) = 2 * (x*z + w*y)
      /\ n * Two(x*z - w*y) = 2 * (x*z - w*y)
      /\ n * Two(y*z - w*x) = 2 * (y*z - w*x)
      /\ n * Two(y*z + w*x) = 2 * (y*z + w*x)
  <2>1. {y*y + z*z, x*x + z*z, x*x + y*y, x*y - w*z, x*y + w*z, x*z + w*y,
         x*z - w*y, y*z - w*x, y*z + w*x} \subseteq Int
    OBVIOUS
  <2>2. /\ (2 * (y*y + z*z)) % n = 0 /\ (2 * (x*x + z*z)) % n = 0
        /\ (2 * (x*x + y*y)) % n = 0
        /\ (2 * (x*y - w*z)) % n = 0 /\ (2 * (x*y + w*z)) % n = 0
        /\ (2 * (x*z + w*y)) % n = 0 /\ (2 * (x*z - w*y)) % n = 0
        /\ (2 * (y*z - w*x)) % n = 0 /\ (2 * (y*z + w*x)) % n = 0
    BY <1>1, <1>2, DivisionsAreExact
  <2>3. \A k \in Int : (2 * k) % n = 0 => n * Two(k) = 2 * k
    BY <1>3
  <2> HIDE DEF Two
  <2> QED
    BY <2>1, <2>2, <2>3
<1>6. \A k \in Int : Two(k) \in Int /\ n * (1 - Two(k)) = n - n * Two(k)
  BY <1>2, <1>3
<1> HIDE DEF Two
<1>7. Mat(a) \in [1 .. 9 -> Int]
  BY <1>4, <1>6
<1>8. Rot(a) = <<w*w + x*x - y*y - z*z, 2 * (x*y - w*z), 2 * (x*z + w*y),
                 2 * (x*y + w*z), w*w - x*x + y*y - z*z, 2 * (y*z - w*x),
                 2 * (x*z - w*y), 2 * (y*z + w*x), w*w - x*x - y*y + z*z>>
  BY <1>1 DEF Rot
<1>9. \A i \in 1 .. 9 : n * Mat(a)[i] = Rot(a)[i]
  BY <1>1, <1>4, <1>5, <1>6, <1>8
<1> QED
  BY <1>7, <1>9 DEF n

\* The rows and the columns of a rotation are orthonormal, in this order.
LEMMA RotIsRotation ==
    ASSUME NEW a \in Quat
    PROVE  LET r == Rot(a)  n == A!Norm2(a)
           IN  /\ n \in Int /\ \A i \in 1 .. 9 : r[i] \in Int
               /\ r[7] * r[7] + r[8] * r[8] + r[9] * r[9] = n * n
               /\ r[1] * r[7] + r[2] * r[8] + r[3] * r[9] = 0
               /\ r[4] * r[7] + r[5] * r[8] + r[6] * r[9] = 0
               /\ r[1] * r[1] + r[4] * r[4] + r[7] * r[7] = n * n
               /\ r[6] * r[7] - r[9] * r[4] = n * r[2]
               /\ r[9] * r[1] - r[3] * r[7] = n * r[5]
               /\ r[3] * r[4] - r[6] * r[1] = n * r[8]
<1>1. PICK w, x, y, z \in Int : a = <<w, x, y, z>>
  BY FourIntegers
<1>2. Rot(a) = <<w*w + x*x - y*y - z*z, 2 * (x*y - w*z), 2 * (x*z + w*y),
                 2 * (x*y + w*z), w*w - x*x + y*y - z*z, 2 * (y*z - w*x),
                 2 * (x*z - w*y), 2 * (y*z + w*x), w*w - x*x - y*y + z*z>>
  BY <1>1 DEF Rot
<1>3. A!Norm2(a) = w*w + (x*x + y*y + z*z)
  BY <1>1 DEF A!Norm2
<1> QED
  BY <1>2, <1>3

LEMMA MatIsRotation ==
    ASSUME NEW a, A!Unit(a)
    PROVE  LET m == Mat(a)
           IN  /\ m[7] * m[7] + m[8] * m[8] + m[9] * m[9] = 1
               /\ m[1] * m[7] + m[2] * m[8] + m[3] * m[9] = 0
               /\ m[4] * m[7] + m[5] * m[8] + m[6] * m[9] = 0
               /\ m[1] * m[1] + m[4] * m[4] + m[7] * m[7] = 1
               /\ m[6] * m[7] - m[9] * m[4] = m[2]
               /\ m[9] * m[1] - m[3] * m[7] = m[5]
               /\ m[3] * m[4] - m[6] * m[1] = m[8]
<1> DEFINE m == Mat(a)  r == Rot(a)  n == A!Norm2(a)
<1>1. n \in {1, 2, 4} /\ a \in Quat
  BY UnitIsQuat DEF A!Unit
<1>2. \A i \in 1 .. 9 : m[i] \in Int /\ n * m[i] = r[i]
  BY MatIs
<1>3. /\ \A i \in 1 .. 9 : r[i] \in Int
      /\ r[7] * r[7] + r[8] * r[8] + r[9] * r[9] = n * n
      /\ r[1] * r[7] + r[2] * r[8] + r[3] * r[9] = 0
      /\ r[4] * r[7] + r[5] * r[8] + r[6] * r[9] = 0
      /\ r[1] * r[1] + r[4] * r[4] + r[7] * r[7] = n * n
      /\ r[6] * r[7] - r[9] * r[4] = n * r[2]
      /\ r[9] * r[1] - r[3] * r[7] = n * r[5]
      /\ r[3] * r[4] - r[6] * r[1] = n * r[8]
  BY <1>1, RotIsRotation
<1>4. PICK b, c, d, e, f, g, h, i, j \in Int : m = <<b, c, d, e, f, g, h, i, j>>
  <2>1. Mat(a) \in [1 .. 9 -> Int]
    BY MatIs
  <2>2. m = <<m[1], m[2], m[3], m[4], m[5], m[6], m[7], m[8], m[9]>>
    BY <2>1
  <2> HIDE DEF m
  <2> QED
    BY <1>2, <2>2
<1> HIDE DEF m, r, n
<1>5. /\ r[1] = n * b /\ r[2] = n * c /\ r[3] = n * d
      /\ r[4] = n * e /\ r[5] = n * f /\ r[6] = n * g
      /\ r[7] = n * h /\ r[8] = n * i /\ r[9] = n * j
  BY <1>2, <1>4
<1>6. /\ (n * h) * (n * h) + (n * i) * (n * i) + (n * j) * (n * j) = n * n
      /\ (n * b) * (n * h) + (n * c) * (n * i) + (n * d) * (n * j) = 0
      /\ (n * e) * (n * h) + (n * f) * (n * i) + (n * g) * (n * j) = 0
      /\ (n * b) * (n * b) + (n * e) * (n * e) + (n * h) * (n * h) = n * n
      /\ (n * g) * (n * h) - (n * j) * (n * e) = n * (n * c)
      /\ (n * j) * (n * b) - (n * d) * (n * h) = n * (n * f)
      /\ (n * d) * (n * e) - (n * g) * (n * b) = n * (n * i)
  BY <1>3, <1>5
<1>7. /\ h * h + i * i + j * j = 1
      /\ b * h + c * i + d * j = 0
      /\ e * h + f * i + g * j = 0
      /\ b * b + e * e + h * h = 1
      /\ g * h - j * e = c
      /\ j * b - d * h = f
      /\ d * e - g * b = i
  <2>1. CASE n = 1
    BY <1>6, <2>1
  <2>2. CASE n = 2
    BY <1>6, <2>2
  <2>3. CASE n = 4
    BY <1>6, <2>3
  <2> QED
    BY <1>1, <2>1, <2>2, <2>3
<1> QED
  BY <1>4, <1>7 DEF m

\* QuatApply is the matrix applied to a vector, QuatRotateInverse its transpose.
LEMMA ApplyIs ==
    ASSUME NEW a, A!Unit(a), NEW v \in Triple
    PROVE  LET m == Mat(a)
           IN  A!QuatApply(a, v)
                 = <<m[1] * v[1] + m[2] * v[2] + m[3] * v[3],
                     m[4] * v[1] + m[5] * v[2] + m[6] * v[3],
                     m[7] * v[1] + m[8] * v[2] + m[9] * v[3]>>
<1> DEFINE m == Mat(a)  n == A!Norm2(a)
           t == A!Cross(A!Imag(a), v)
           u == A!Cross(A!Imag(a), t)
<1>1. n \in {1, 2, 4} /\ a \in Quat
  BY UnitIsQuat DEF A!Unit
<1>2. PICK w, x, y, z \in Int : a = <<w, x, y, z>>
  BY <1>1, FourIntegers
<1>3. PICK e, f, g \in Int : v = <<e, f, g>>
  <2>1. v = <<v[1], v[2], v[3]>> /\ v[1] \in Int /\ v[2] \in Int /\ v[3] \in Int
    BY DEF Triple
  <2> QED
    BY <2>1
<1>4. t = <<y * g - z * f, z * e - x * g, x * f - y * e>>
  BY <1>1, <1>2, <1>3, ImagIs DEF A!Cross
<1>5. u = <<y * (x * f - y * e) - z * (z * e - x * g),
            z * (y * g - z * f) - x * (x * f - y * e),
            x * (z * e - x * g) - y * (y * g - z * f)>>
  BY <1>1, <1>2, <1>4, ImagIs DEF A!Cross
<1>6. \A i \in 1 .. 9 : m[i] \in Int /\ n * m[i] = Rot(a)[i]
  BY MatIs
<1>7. Rot(a) = <<w*w + x*x - y*y - z*z, 2 * (x*y - w*z), 2 * (x*z + w*y),
                 2 * (x*y + w*z), w*w - x*x + y*y - z*z, 2 * (y*z - w*x),
                 2 * (x*z - w*y), 2 * (y*z + w*x), w*w - x*x - y*y + z*z>>
  BY <1>2 DEF Rot
<1>8. n = w*w + (x*x + y*y + z*z)
  BY <1>2 DEF A!Norm2
<1>9. A!QuatApply(a, v)
        = [i \in 1 .. 3 |-> v[i] + (2 * (a[1] * t[i] + u[i])) \div n]
  BY DEF A!QuatApply
<1> HIDE DEF m, n, t, u
<1>10. /\ n * (m[1] * e + m[2] * f + m[3] * g)
            = (w*w + x*x - y*y - z*z) * e + (2 * (x*y - w*z)) * f
                + (2 * (x*z + w*y)) * g
       /\ n * (m[4] * e + m[5] * f + m[6] * g)
            = (2 * (x*y + w*z)) * e + (w*w - x*x + y*y - z*z) * f
                + (2 * (y*z - w*x)) * g
       /\ n * (m[7] * e + m[8] * f + m[9] * g)
            = (2 * (x*z - w*y)) * e + (2 * (y*z + w*x)) * f
                + (w*w - x*x - y*y + z*z) * g
  <2>1. /\ n * (m[1] * e + m[2] * f + m[3] * g)
             = (n * m[1]) * e + (n * m[2]) * f + (n * m[3]) * g
        /\ n * (m[4] * e + m[5] * f + m[6] * g)
             = (n * m[4]) * e + (n * m[5]) * f + (n * m[6]) * g
        /\ n * (m[7] * e + m[8] * f + m[9] * g)
             = (n * m[7]) * e + (n * m[8]) * f + (n * m[9]) * g
    <3>1. ASSUME NEW i \in 1 .. 9, NEW j \in 1 .. 9, NEW k \in 1 .. 9
          PROVE  n * (m[i] * e + m[j] * f + m[k] * g)
                   = (n * m[i]) * e + (n * m[j]) * f + (n * m[k]) * g
      <4>1. m[i] \in Int /\ m[j] \in Int /\ m[k] \in Int
        BY <1>6
      <4> QED
        BY <1>1, <4>1
    <3> QED
      BY <3>1
  <2>2. /\ n * m[1] = w*w + x*x - y*y - z*z /\ n * m[2] = 2 * (x*y - w*z)
        /\ n * m[3] = 2 * (x*z + w*y) /\ n * m[4] = 2 * (x*y + w*z)
        /\ n * m[5] = w*w - x*x + y*y - z*z /\ n * m[6] = 2 * (y*z - w*x)
        /\ n * m[7] = 2 * (x*z - w*y) /\ n * m[8] = 2 * (y*z + w*x)
        /\ n * m[9] = w*w - x*x - y*y + z*z
    BY <1>6, <1>7
  <2> QED
    BY <2>1, <2>2
<1>11. /\ 2 * (w * t[1] + u[1])
            = (w*w + x*x - y*y - z*z) * e + (2 * (x*y - w*z)) * f
                + (2 * (x*z + w*y)) * g - (w*w + (x*x + y*y + z*z)) * e
       /\ 2 * (w * t[2] + u[2])
            = (2 * (x*y + w*z)) * e + (w*w - x*x + y*y - z*z) * f
                + (2 * (y*z - w*x)) * g - (w*w + (x*x + y*y + z*z)) * f
       /\ 2 * (w * t[3] + u[3])
            = (2 * (x*z - w*y)) * e + (2 * (y*z + w*x)) * f
                + (w*w - x*x - y*y + z*z) * g - (w*w + (x*x + y*y + z*z)) * g
  BY <1>4, <1>5
<1>12. /\ 2 * (w * t[1] + u[1]) = n * (m[1] * e + m[2] * f + m[3] * g) - n * e
       /\ 2 * (w * t[2] + u[2]) = n * (m[4] * e + m[5] * f + m[6] * g) - n * f
       /\ 2 * (w * t[3] + u[3]) = n * (m[7] * e + m[8] * f + m[9] * g) - n * g
  BY <1>8, <1>10, <1>11
<1>13. \A i, j, k \in Int : i = n * j - n * k => k + i \div n = j
  BY <1>1
<1>14. /\ {m[1] * e + m[2] * f + m[3] * g, m[4] * e + m[5] * f + m[6] * g,
           m[7] * e + m[8] * f + m[9] * g} \subseteq Int
       /\ {2 * (w * t[1] + u[1]), 2 * (w * t[2] + u[2]),
           2 * (w * t[3] + u[3])} \subseteq Int
  BY <1>4, <1>5, <1>6
<1>15. /\ e + (2 * (w * t[1] + u[1])) \div n = m[1] * e + m[2] * f + m[3] * g
       /\ f + (2 * (w * t[2] + u[2])) \div n = m[4] * e + m[5] * f + m[6] * g
       /\ g + (2 * (w * t[3] + u[3])) \div n = m[7] * e + m[8] * f + m[9] * g
  BY <1>12, <1>13, <1>14
<1> QED
  BY <1>2, <1>3, <1>9, <1>15 DEF m

LEMMA FirstColumn ==
    ASSUME NEW a, A!Unit(a)
    PROVE  /\ A!QuatApply(a, <<1, 0, 0>>) = <<Mat(a)[1], Mat(a)[4], Mat(a)[7]>>
           /\ A!QuatApply(a, <<0, 0, 1>>) = <<Mat(a)[3], Mat(a)[6], Mat(a)[9]>>
<1> DEFINE m == Mat(a)
<1>1. \A i \in 1 .. 9 : m[i] \in Int
  BY MatIs
<1>2. <<1, 0, 0>> \in Triple /\ <<0, 0, 1>> \in Triple
  BY DEF Triple
<1>3. /\ A!QuatApply(a, <<1, 0, 0>>)
           = <<m[1] * 1 + m[2] * 0 + m[3] * 0, m[4] * 1 + m[5] * 0 + m[6] * 0,
               m[7] * 1 + m[8] * 0 + m[9] * 0>>
      /\ A!QuatApply(a, <<0, 0, 1>>)
           = <<m[1] * 0 + m[2] * 0 + m[3] * 1, m[4] * 0 + m[5] * 0 + m[6] * 1,
               m[7] * 0 + m[8] * 0 + m[9] * 1>>
  BY <1>2, ApplyIs
<1> HIDE DEF m
<1>4. \A i \in 1 .. 9 : m[i] * 1 = m[i] /\ m[i] * 0 = 0
  BY <1>1
<1> QED
  BY <1>1, <1>3, <1>4 DEF m

\* Gravity in the frame of the body is the last row of the matrix, downwards.
LEMMA GravityIs ==
    ASSUME NEW a, A!Unit(a)
    PROVE  A!gravity_vec(a) = <<-Mat(a)[7], -Mat(a)[8], -Mat(a)[9]>>
<1> DEFINE m == Mat(a)  n == A!Norm2(a)  v == <<0, 0, -1>>
           c == A!Cross(A!Imag(a), v)
<1>1. n \in {1, 2, 4} /\ a \in Quat
  BY UnitIsQuat DEF A!Unit
<1>2. PICK w, x, y, z \in Int : a = <<w, x, y, z>>
  BY <1>1, FourIntegers
<1>3. \A i \in 1 .. 9 : m[i] \in Int /\ n * m[i] = Rot(a)[i]
  BY MatIs
<1>4. n * m[7] = 2 * (x*z - w*y) /\ n * m[8] = 2 * (y*z + w*x)
      /\ n * m[9] = w*w - x*x - y*y + z*z
  BY <1>2, <1>3 DEF Rot
<1>5. n = w*w + (x*x + y*y + z*z)
  BY <1>2 DEF A!Norm2
<1>6. c = <<-y, x, 0>> /\ A!Dot(A!Imag(a), v) = -z
  BY <1>1, <1>2, ImagIs DEF A!Cross, A!Dot
<1>7. A!gravity_vec(a)
        = [i \in 1 .. 3 |->
             (v[i] * (2 * a[1] * a[1] - n) - 2 * c[i] * a[1]
                + 2 * a[i + 1] * A!Dot(A!Imag(a), v)) \div n]
  BY DEF A!gravity_vec, A!QuatRotateInverse
<1> DEFINE e(i) == v[i] * (2 * a[1] * a[1] - n) - 2 * c[i] * a[1]
                     + 2 * a[i + 1] * A!Dot(A!Imag(a), v)
<1>8. e(1) = n * (-m[7]) /\ e(2) = n * (-m[8]) /\ e(3) = n * (-m[9])
  <2>1. /\ e(1) = 0 * (2 * w * w - n) - 2 * (-y) * w + 2 * x * (-z)
        /\ e(2) = 0 * (2 * w * w - n) - 2 * x * w + 2 * y * (-z)
        /\ e(3) = (-1) * (2 * w * w - n) - 2 * 0 * w + 2 * z * (-z)
    BY <1>2, <1>6
  <2> HIDE DEF e, m, n
  <2>2. /\ e(1) = -(2 * (x*z - w*y)) /\ e(2) = -(2 * (y*z + w*x))
        /\ e(3) = -(w*w - x*x - y*y + z*z)
    BY <1>1, <1>5, <2>1
  <2>3. n * (-m[7]) = -(n * m[7]) /\ n * (-m[8]) = -(n * m[8])
        /\ n * (-m[9]) = -(n * m[9])
    BY <1>1, <1>3
  <2> QED
    BY <1>4, <2>2, <2>3
<1> HIDE DEF e, m, n
<1>9. \A j \in Int : (n * j) \div n = j
  BY <1>1
<1>10. e(1) \div n = -m[7] /\ e(2) \div n = -m[8] /\ e(3) \div n = -m[9]
  BY <1>3, <1>8, <1>9
<1>11. A!gravity_vec(a) = [i \in 1 .. 3 |-> e(i) \div n]
  BY <1>7 DEF e
<1> QED
  BY <1>10, <1>11 DEF m

LEMMA GravityIsDown ==
    ASSUME NEW a, A!Unit(a)
    PROVE  A!QuatApply(a, A!gravity_vec(a)) = <<0, 0, -1>>
<1> DEFINE m == Mat(a)
<1>1. \A i \in 1 .. 9 : m[i] \in Int
  BY MatIs
<1>2. /\ m[7] * m[7] + m[8] * m[8] + m[9] * m[9] = 1
      /\ m[1] * m[7] + m[2] * m[8] + m[3] * m[9] = 0
      /\ m[4] * m[7] + m[5] * m[8] + m[6] * m[9] = 0
  BY MatIsRotation
<1>3. <<-m[7], -m[8], -m[9]>> \in Triple
  BY <1>1 DEF Triple
<1>4. A!QuatApply(a, <<-m[7], -m[8], -m[9]>>)
        = <<m[1] * (-m[7]) + m[2] * (-m[8]) + m[3] * (-m[9]),
            m[4] * (-m[7]) + m[5] * (-m[8]) + m[6] * (-m[9]),
            m[7] * (-m[7]) + m[8] * (-m[8]) + m[9] * (-m[9])>>
  BY <1>3, ApplyIs
<1> HIDE DEF m
<1>5. /\ m[1] * (-m[7]) + m[2] * (-m[8]) + m[3] * (-m[9]) = 0
      /\ m[4] * (-m[7]) + m[5] * (-m[8]) + m[6] * (-m[9]) = 0
      /\ m[7] * (-m[7]) + m[8] * (-m[8]) + m[9] * (-m[9]) = -1
  <2>1. ASSUME NEW i \in 1 .. 9, NEW j \in 1 .. 9
        PROVE  m[i] * (-m[j]) = -(m[i] * m[j]) /\ m[i] * m[j] \in Int
    <3>1. m[i] \in Int /\ m[j] \in Int
      BY <1>1
    <3> QED
      BY <3>1
  <2> QED
    BY <1>2, <2>1
<1> QED
  BY <1>4, <1>5, GravityIs DEF m

LEMMA RotOfScale ==
    ASSUME NEW a \in Quat, NEW k \in Int
    PROVE  \A i \in 1 .. 9 : Rot(Scale(k, a))[i] = k * k * Rot(a)[i]
<1>1. PICK w, x, y, z \in Int : a = <<w, x, y, z>>
  BY FourIntegers
<1> QED
  BY <1>1 DEF Rot, Scale

\* The opposite quaternion is the same rotation.
Opposite(a) == Scale(-1, a)

LEMMA OppositeTwice ==
    ASSUME NEW a \in Quat
    PROVE  Opposite(Opposite(a)) = a
<1>1. Scale(-1, Scale(-1, a)) = Scale((-1) * (-1), a)
  BY ScaleOfScale
<1> QED
  BY <1>1, UnitScale DEF Opposite

LEMMA OppositeIsSame ==
    ASSUME NEW a, A!Unit(a)
    PROVE  A!Unit(Opposite(a)) /\ Mat(Opposite(a)) = Mat(a)
<1>1. a \in Quat
  BY UnitIsQuat
<1>2. A!Norm2(Opposite(a)) = A!Norm2(a) /\ A!Unit(Opposite(a))
  BY DEF A!Unit, A!Norm2, Opposite, Scale
<1>3. \A i \in 1 .. 9 : Rot(Opposite(a))[i] = Rot(a)[i]
  <2>1. \A i \in 1 .. 9 : Rot(Opposite(a))[i] = (-1) * (-1) * Rot(a)[i]
    BY <1>1, RotOfScale DEF Opposite
  <2>2. \A i \in 1 .. 9 : Rot(a)[i] \in Int
    BY <1>1, RotIsRotation
  <2> QED
    BY <2>1, <2>2
<1>4. \A i \in 1 .. 9 : A!Norm2(a) * Mat(Opposite(a))[i] = A!Norm2(a) * Mat(a)[i]
  BY <1>2, <1>3, MatIs
<1>5. /\ Mat(a) \in [1 .. 9 -> Int] /\ Mat(Opposite(a)) \in [1 .. 9 -> Int]
      /\ A!Norm2(a) \in {1, 2, 4}
  BY <1>2, MatIs DEF A!Unit
<1>6. \A i \in 1 .. 9 : Mat(Opposite(a))[i] = Mat(a)[i]
  BY <1>4, <1>5
<1> QED
  BY <1>2, <1>5, <1>6

LEMMA OppositeProduct ==
    ASSUME NEW a, NEW b, A!Unit(a), A!Unit(b)
    PROVE  A!QuaternionMultiply(Opposite(a), b)
             = Opposite(A!QuaternionMultiply(a, b))
<1> DEFINE m == A!QuaternionMultiply(a, b)
<1>1. PICK g \in {1, 2, 4} : Raw(a, b) = Scale(g, m)
  BY ProductFacts
<1>2. A!Unit(m) /\ A!Unit(Opposite(a)) /\ A!Unit(Opposite(m))
  BY ProductFacts, OppositeIsSame
<1>3. a \in Quat /\ b \in Quat /\ m \in Quat /\ Opposite(a) \in Quat
  BY <1>2, UnitIsQuat
<1> HIDE DEF m
<1>4. Raw(Scale(-1, a), Scale(1, b)) = Scale((-1) * 1, Raw(a, b))
  BY <1>3, RawOfScales
<1>5. Raw(Opposite(a), b) = Scale(-1, Scale(g, m))
  BY <1>1, <1>3, <1>4, UnitScale DEF Opposite
<1>6. Scale(-1, Scale(g, m)) = Scale((-1) * g, m)
  BY <1>3, ScaleOfScale
<1>7. Scale(g, Opposite(m)) = Scale(g * (-1), m)
  BY <1>3, ScaleOfScale DEF Opposite
<1>8. Raw(Opposite(a), b) = Scale(g, Opposite(m))
  BY <1>5, <1>6, <1>7
<1>9. Scale(1, Raw(Opposite(a), b)) = Raw(Opposite(a), b)
  BY <1>3, RawIsQuat, UnitScale
<1>10. Opposite(m) = A!QuaternionMultiply(Opposite(a), b)
  BY <1>2, <1>8, <1>9, ProductIs
<1> QED
  BY <1>10 DEF m

\* A turn about the vertical axis.
Upright(h) == A!Unit(h) /\ h[2] = 0 /\ h[3] = 0

\* It leaves the last row of a rotation alone, and turns its first column.
LEMMA RawTurned ==
    ASSUME NEW h \in Quat, h[2] = 0, h[3] = 0, NEW a \in Quat
    PROVE  LET r == Rot(Raw(h, a))
               cosine == h[1] * h[1] - h[4] * h[4]
               sine == 2 * h[1] * h[4]
           IN  /\ \A i \in 7 .. 9 : r[i] = A!Norm2(h) * Rot(a)[i]
               /\ r[4] = cosine * Rot(a)[4] + sine * Rot(a)[1]
               /\ r[1] = cosine * Rot(a)[1] - sine * Rot(a)[4]
<1>1. PICK w, x, y, z \in Int : a = <<w, x, y, z>>
  BY FourIntegers
<1>2. PICK c, k \in Int : h = <<c, 0, 0, k>>
  <2>1. h = <<h[1], h[2], h[3], h[4]>> /\ h[1] \in Int /\ h[4] \in Int
    BY DEF Quat
  <2> QED
    BY <2>1
<1>3. Raw(h, a) = <<c*w - k*z, c*x - k*y, c*y + k*x, c*z + k*w>>
  BY <1>1, <1>2 DEF Raw
<1>4. Rot(a) = <<w*w + x*x - y*y - z*z, 2 * (x*y - w*z), 2 * (x*z + w*y),
                 2 * (x*y + w*z), w*w - x*x + y*y - z*z, 2 * (y*z - w*x),
                 2 * (x*z - w*y), 2 * (y*z + w*x), w*w - x*x - y*y + z*z>>
  BY <1>1 DEF Rot
<1> DEFINE e == c*w - k*z  f == c*x - k*y  g == c*y + k*x  i == c*z + k*w
<1>5. LET r == Rot(Raw(h, a))
      IN  /\ r[1] = e*e + f*f - g*g - i*i /\ r[4] = 2 * (f*g + e*i)
          /\ r[7] = 2 * (f*i - e*g) /\ r[8] = 2 * (g*i + e*f)
          /\ r[9] = e*e - f*f - g*g + i*i
  BY <1>3 DEF Rot
<1>6. A!Norm2(h) = c*c + k*k
  BY <1>2 DEF A!Norm2
<1>7. /\ 2 * (f*i - e*g) = (c*c + k*k) * (2 * (x*z - w*y))
      /\ 2 * (g*i + e*f) = (c*c + k*k) * (2 * (y*z + w*x))
      /\ e*e - f*f - g*g + i*i = (c*c + k*k) * (w*w - x*x - y*y + z*z)
      /\ 2 * (f*g + e*i) = (c*c - k*k) * (2 * (x*y + w*z))
                             + (2 * c * k) * (w*w + x*x - y*y - z*z)
      /\ e*e + f*f - g*g - i*i = (c*c - k*k) * (w*w + x*x - y*y - z*z)
                                   - (2 * c * k) * (2 * (x*y + w*z))
  OBVIOUS
<1> HIDE DEF e, f, g, i
<1>8. \A j \in 7 .. 9 : Rot(Raw(h, a))[j] = A!Norm2(h) * Rot(a)[j]
  BY <1>4, <1>5, <1>6, <1>7
<1> QED
  BY <1>2, <1>4, <1>5, <1>7, <1>8

LEMMA Turned ==
    ASSUME NEW h, NEW a, Upright(h), A!Unit(a)
    PROVE  LET m == Mat(A!QuaternionMultiply(h, a))
               cosine == h[1] * h[1] - h[4] * h[4]
               sine == 2 * h[1] * h[4]
           IN  /\ \A i \in 7 .. 9 : m[i] = Mat(a)[i]
               /\ A!Norm2(h) * m[4] = cosine * Mat(a)[4] + sine * Mat(a)[1]
               /\ A!Norm2(h) * m[1] = cosine * Mat(a)[1] - sine * Mat(a)[4]
<1> DEFINE p == A!QuaternionMultiply(h, a)
           m == Mat(p)  o == Mat(a)
           n == A!Norm2(a)  np == A!Norm2(p)  nh == A!Norm2(h)
           cosine == h[1] * h[1] - h[4] * h[4]
           sine == 2 * h[1] * h[4]
<1>1. PICK g \in {1, 2, 4} : Raw(h, a) = Scale(g, p)
  BY ProductFacts DEF Upright
<1>2. A!Unit(p) /\ A!Unit(h)
  BY ProductFacts DEF Upright
<1>3. h \in Quat /\ a \in Quat /\ p \in Quat
  BY <1>2, UnitIsQuat
<1>4. n \in {1, 2, 4} /\ np \in {1, 2, 4} /\ nh \in {1, 2, 4}
  BY <1>2 DEF A!Unit
<1>5. cosine \in Int /\ sine \in Int
  <2>1. h[1] \in Int /\ h[4] \in Int
    BY <1>3 DEF Quat
  <2> QED
    BY <2>1
<1>6. \A i \in 1 .. 9 : /\ m[i] \in Int /\ np * m[i] = Rot(p)[i]
                        /\ o[i] \in Int /\ n * o[i] = Rot(a)[i]
  BY <1>2, MatIs
<1>7. \A i \in 1 .. 9 : Rot(Raw(h, a))[i] = g * g * Rot(p)[i]
  BY <1>1, <1>3, RotOfScale
<1>8. g * g * np = nh * n
  BY <1>1, <1>3, NormOfScale, NormOfRaw
<1>9. /\ \A i \in 7 .. 9 : Rot(Raw(h, a))[i] = nh * Rot(a)[i]
      /\ Rot(Raw(h, a))[4] = cosine * Rot(a)[4] + sine * Rot(a)[1]
      /\ Rot(Raw(h, a))[1] = cosine * Rot(a)[1] - sine * Rot(a)[4]
  BY <1>3, RawTurned DEF Upright
<1> HIDE DEF p, m, o, n, np, nh, cosine, sine
<1>10. \A i \in 1 .. 9 : Rot(Raw(h, a))[i] = nh * n * m[i]
  <2> SUFFICES ASSUME NEW i \in 1 .. 9
               PROVE  Rot(Raw(h, a))[i] = nh * n * m[i]
    OBVIOUS
  <2>1. m[i] \in Int
    BY <1>6
  <2>2. g * g * np * m[i] = g * g * (np * m[i])
    BY <1>4, <2>1
  <2> QED
    BY <1>6, <1>7, <1>8, <2>2
<1>11. \A i \in 7 .. 9 : m[i] = o[i]
  <2> SUFFICES ASSUME NEW i \in 7 .. 9 PROVE m[i] = o[i]
    OBVIOUS
  <2>1. nh * n * m[i] = nh * (n * o[i]) /\ m[i] \in Int /\ o[i] \in Int
    BY <1>6, <1>9, <1>10
  <2> QED
    BY <1>4, <2>1
<1>12. /\ nh * n * m[4] = cosine * (n * o[4]) + sine * (n * o[1])
       /\ nh * n * m[1] = cosine * (n * o[1]) - sine * (n * o[4])
  BY <1>6, <1>9, <1>10
<1>13. m[1] \in Int /\ m[4] \in Int /\ o[1] \in Int /\ o[4] \in Int
  BY <1>6
<1>14. /\ nh * m[4] = cosine * o[4] + sine * o[1]
       /\ nh * m[1] = cosine * o[1] - sine * o[4]
  <2>1. /\ cosine * (n * o[4]) = n * (cosine * o[4])
        /\ cosine * (n * o[1]) = n * (cosine * o[1])
        /\ sine * (n * o[4]) = n * (sine * o[4])
        /\ sine * (n * o[1]) = n * (sine * o[1])
        /\ nh * n * m[4] = n * (nh * m[4])
        /\ nh * n * m[1] = n * (nh * m[1])
    BY <1>4, <1>5, <1>13
  <2> DEFINE m4 == nh * m[4]        m1 == nh * m[1]
             c4 == cosine * o[4]    c1 == cosine * o[1]
             s4 == sine * o[4]      s1 == sine * o[1]
  <2>2. /\ m4 \in Int /\ m1 \in Int /\ c4 \in Int /\ c1 \in Int
        /\ s4 \in Int /\ s1 \in Int
    BY <1>4, <1>5, <1>13
  <2>3. n * m4 = n * c4 + n * s1 /\ n * m1 = n * c1 - n * s4
    BY <1>12, <2>1
  <2> HIDE DEF m4, m1, c4, c1, s4, s1
  <2>4. m4 = c4 + s1 /\ m1 = c1 - s4
    BY <1>4, <2>2, <2>3
  <2> QED
    BY <2>4 DEF m4, m1, c4, c1, s4, s1
<1> QED
  BY <1>11, <1>14 DEF p, m, o, nh, cosine, sine

LEMMA GravityTurned ==
    ASSUME NEW h, NEW a, Upright(h), A!Unit(a)
    PROVE  A!gravity_vec(A!QuaternionMultiply(h, a)) = A!gravity_vec(a)
<1>1. A!Unit(A!QuaternionMultiply(h, a))
  BY ProductFacts DEF Upright
<1>2. \A i \in 7 .. 9 : Mat(A!QuaternionMultiply(h, a))[i] = Mat(a)[i]
  BY Turned
<1> QED
  BY <1>1, <1>2, GravityIs

LEMMA HeadingsFacts ==
    /\ A!Headings = {<<1, 0, 0, 0>>, <<1, 0, 0, 1>>, <<0, 0, 0, 1>>, <<1, 0, 0, -1>>}
    /\ \A h \in A!Headings : Upright(h) /\ Upright(A!QuaternionConjugate(h))
<1>1. A!Headings = {<<1, 0, 0, 0>>, <<1, 0, 0, 1>>, <<0, 0, 0, 1>>, <<1, 0, 0, -1>>}
  BY DEF A!Headings, A!One
<1>2. Upright(<<1, 0, 0, 0>>) /\ Upright(<<1, 0, 0, 1>>) /\ Upright(<<0, 0, 0, 1>>)
      /\ Upright(<<1, 0, 0, -1>>)
  BY DEF Upright, A!Unit, A!Norm2
<1>3. ASSUME NEW h, Upright(h) PROVE Upright(A!QuaternionConjugate(h))
  <2>1. A!Unit(h) /\ h[2] = 0 /\ h[3] = 0
    BY <1>3 DEF Upright
  <2>2. /\ A!QuaternionConjugate(h)[2] = -h[2]
        /\ A!QuaternionConjugate(h)[3] = -h[3]
    BY DEF A!QuaternionConjugate
  <2>3. \A x \in Int : -x = 0 - x
    OBVIOUS
  <2>4. h[2] \in Int /\ h[3] \in Int
    BY <2>1
  <2>5. -h[2] = 0 - h[2] /\ -h[3] = 0 - h[3]
    BY <2>3, <2>4
  <2>6. 0 - h[2] = 0 /\ 0 - h[3] = 0
    BY <2>1
  <2> QED
    BY <2>1, <2>2, <2>5, <2>6, UnitConjugate DEF Upright
<1> QED
  BY <1>1, <1>2, <1>3

\* The heading, by the first column of the matrix.
LEMMA YawIs ==
    ASSUME NEW a, A!Unit(a)
    PROVE  LET m == Mat(a)
           IN  A!QuaternionYawOnly(a) =
                 IF m[4] > 0 THEN <<1, 0, 0, 1>>
                 ELSE IF m[4] < 0 THEN <<1, 0, 0, -1>>
                 ELSE IF m[1] < 0 THEN <<0, 0, 0, 1>>
                 ELSE <<1, 0, 0, 0>>
<1> DEFINE m == Mat(a)  n == A!Norm2(a)
           siny_cosp == 2 * (a[1] * a[4] + a[2] * a[3])
           cosy_cosp == n - 2 * (a[3] * a[3] + a[4] * a[4])
<1>1. n \in {1, 2, 4} /\ a \in Quat
  BY UnitIsQuat DEF A!Unit
<1>2. m[1] \in Int /\ m[4] \in Int /\ n * m[1] = Rot(a)[1] /\ n * m[4] = Rot(a)[4]
  BY MatIs
<1>3. Rot(a)[4] = siny_cosp /\ Rot(a)[1] = cosy_cosp
  <2>1. PICK w, x, y, z \in Int : a = <<w, x, y, z>>
    BY <1>1, FourIntegers
  <2> QED
    BY <2>1 DEF Rot, A!Norm2
<1>4. A!QuaternionYawOnly(a) =
        IF siny_cosp > 0 THEN <<1, 0, 0, 1>>
        ELSE IF siny_cosp < 0 THEN <<1, 0, 0, -1>>
        ELSE IF cosy_cosp < 0 THEN <<0, 0, 0, 1>>
        ELSE <<1, 0, 0, 0>>
  BY DEF A!QuaternionYawOnly, A!One
<1> HIDE DEF m, n, siny_cosp, cosy_cosp
<1>5. /\ siny_cosp > 0 <=> m[4] > 0
      /\ siny_cosp < 0 <=> m[4] < 0
      /\ cosy_cosp < 0 <=> m[1] < 0
  BY <1>1, <1>2, <1>3
<1> QED
  BY <1>4, <1>5 DEF m

\* Where the x axis is not vertical, it faces one of four ways.
LEMMA FacesOneWay ==
    ASSUME NEW a, A!Unit(a), ~A!Vertical(a)
    PROVE  LET m == Mat(a)
           IN  \/ m[4] = 0 /\ m[1] \in {-1, 1}
               \/ m[1] = 0 /\ m[4] \in {-1, 1}
<1> DEFINE m == Mat(a)
<1>1. m[1] \in Int /\ m[4] \in Int /\ m[7] \in Int
  BY MatIs
<1>2. m[1] * m[1] + m[4] * m[4] + m[7] * m[7] = 1
  BY MatIsRotation
<1>3. A!QuatApply(a, <<1, 0, 0>>) = <<m[1], m[4], m[7]>>
  BY FirstColumn
<1> HIDE DEF m
<1>4. m[1] \in -1 .. 1 /\ m[4] \in -1 .. 1 /\ m[7] \in -1 .. 1
  <2>1. ASSUME NEW x \in Int, NEW y \in Int, NEW z \in Int,
               x * x + y * y + z * z = 1
        PROVE  x \in -1 .. 1 /\ y \in -1 .. 1 /\ z \in -1 .. 1
    BY <2>1
  <2> QED
    BY <1>1, <1>2, <2>1
<1>5. ~(m[1] = 0 /\ m[4] = 0)
  <2> SUFFICES ASSUME m[1] = 0, m[4] = 0 PROVE FALSE
    OBVIOUS
  <2>1. m[7] \in {-1, 1}
    BY <1>2, <1>4
  <2> QED
    BY <1>3, <2>1 DEF A!Vertical, A!AxisX, A!AxisZ
<1>6. \/ m[4] = 0 /\ m[1] \in {-1, 1}
      \/ m[1] = 0 /\ m[4] \in {-1, 1}
  BY <1>2, <1>4, <1>5
<1> QED
  BY <1>6 DEF m

LEMMA YawIsHeading ==
    ASSUME NEW a, A!Unit(a)
    PROVE  /\ A!QuaternionYawOnly(a) \in A!Headings
           /\ Upright(A!QuaternionYawOnly(a))
           /\ Upright(A!QuaternionConjugate(A!QuaternionYawOnly(a)))
<1>1. A!QuaternionYawOnly(a)
        \in {<<1, 0, 0, 0>>, <<1, 0, 0, 1>>, <<0, 0, 0, 1>>, <<1, 0, 0, -1>>}
  BY YawIs
<1> QED
  BY <1>1, HeadingsFacts

\* The heading turns with the robot, but for the sign of its quaternion.
LEMMA HeadingTurned ==
    ASSUME NEW h \in A!Headings, NEW a, A!Unit(a), ~A!Vertical(a)
    PROVE  LET y == A!QuaternionMultiply(h, A!QuaternionYawOnly(a))
               turned == A!QuaternionYawOnly(A!QuaternionMultiply(h, a))
           IN  turned = y \/ turned = Opposite(y)
<1> DEFINE y == A!QuaternionYawOnly(a)
           c == A!QuaternionMultiply(h, a)
           yc == A!QuaternionYawOnly(c)
           o == Mat(a)  m == Mat(c)
<1>1. Upright(h) /\ A!Unit(h) /\ A!Unit(c)
  BY HeadingsFacts, ProductFacts DEF Upright
<1>2. A!Unit(y) /\ A!Unit(yc) /\ y \in Quat /\ yc \in Quat /\ h \in Quat
  BY <1>1, YawIsHeading, UnitIsQuat DEF Upright
<1>3. /\ A!Norm2(h) * m[4] = (h[1] * h[1] - h[4] * h[4]) * o[4] + (2 * h[1] * h[4]) * o[1]
      /\ A!Norm2(h) * m[1] = (h[1] * h[1] - h[4] * h[4]) * o[1] - (2 * h[1] * h[4]) * o[4]
  BY <1>1, Turned
<1>4. /\ m[4] \in Int /\ m[1] \in Int
      /\ o[4] \in Int /\ o[1] \in Int
  BY <1>1, MatIs
<1>5. \/ o[4] = 0 /\ o[1] \in {-1, 1}
      \/ o[1] = 0 /\ o[4] \in {-1, 1}
  BY FacesOneWay
<1>6. /\ y = IF o[4] > 0 THEN <<1, 0, 0, 1>>
             ELSE IF o[4] < 0 THEN <<1, 0, 0, -1>>
             ELSE IF o[1] < 0 THEN <<0, 0, 0, 1>> ELSE <<1, 0, 0, 0>>
      /\ yc = IF m[4] > 0 THEN <<1, 0, 0, 1>>
              ELSE IF m[4] < 0 THEN <<1, 0, 0, -1>>
              ELSE IF m[1] < 0 THEN <<0, 0, 0, 1>> ELSE <<1, 0, 0, 0>>
  BY <1>1, YawIs
<1> HIDE DEF y, c, yc, o, m
<1>7. \E k \in {1, 2} : \/ Raw(h, y) = Scale(k, yc)
                        \/ Raw(h, y) = Scale(k, Opposite(yc))
  <2> USE DEF Raw, Scale, Opposite
  <2>1. CASE h = <<1, 0, 0, 0>>
    <3>1. A!Norm2(h) = 1
      BY <2>1 DEF A!Norm2
    <3>2. m[4] = o[4] /\ m[1] = o[1]
      <4>1. /\ 1 * m[4] = (1 * 1 - 0 * 0) * o[4] + (2 * 1 * 0) * o[1]
            /\ 1 * m[1] = (1 * 1 - 0 * 0) * o[1] - (2 * 1 * 0) * o[4]
        BY <1>3, <2>1, <3>1
      <4> QED
        BY <1>4, <4>1
    <3> QED
      BY <1>5, <1>6, <2>1, <3>2
  <2>2. CASE h = <<1, 0, 0, 1>>
    <3>1. A!Norm2(h) = 2
      BY <2>2 DEF A!Norm2
    <3>2. m[4] = o[1] /\ m[1] = 0 - o[4]
      <4>1. /\ 2 * m[4] = (1 * 1 - 1 * 1) * o[4] + (2 * 1 * 1) * o[1]
            /\ 2 * m[1] = (1 * 1 - 1 * 1) * o[1] - (2 * 1 * 1) * o[4]
        BY <1>3, <2>2, <3>1
      <4>2. \A j \in Int : /\ (1 * 1 - 1 * 1) * j = 0
                            /\ (2 * 1 * 1) * j = 2 * j
        OBVIOUS
      <4>3. 2 * m[4] = 0 + 2 * o[1] /\ 2 * m[1] = 0 - 2 * o[4]
        BY <1>4, <4>1, <4>2
      <4>4. \A i, j \in Int :
                /\ 2 * i = 0 + 2 * j => i = j
                /\ 2 * i = 0 - 2 * j => i = 0 - j
        OBVIOUS
      <4> QED
        BY <1>4, <4>3, <4>4
    <3> QED
      BY <1>5, <1>6, <2>2, <3>2
  <2>3. CASE h = <<0, 0, 0, 1>>
    <3>1. A!Norm2(h) = 1
      BY <2>3 DEF A!Norm2
    <3>2. m[4] = 0 - o[4] /\ m[1] = 0 - o[1]
      <4>1. /\ 1 * m[4] = (0 * 0 - 1 * 1) * o[4] + (2 * 0 * 1) * o[1]
            /\ 1 * m[1] = (0 * 0 - 1 * 1) * o[1] - (2 * 0 * 1) * o[4]
        BY <1>3, <2>3, <3>1
      <4> QED
        BY <1>4, <4>1
    <3> QED
      BY <1>5, <1>6, <2>3, <3>2
  <2>4. CASE h = <<1, 0, 0, -1>>
    <3>1. A!Norm2(h) = 2
      BY <2>4 DEF A!Norm2
    <3>2. m[4] = 0 - o[1] /\ m[1] = o[4]
      <4>1. /\ 2 * m[4] = (1 * 1 - (-1) * (-1)) * o[4] + (2 * 1 * (-1)) * o[1]
            /\ 2 * m[1] = (1 * 1 - (-1) * (-1)) * o[1] - (2 * 1 * (-1)) * o[4]
        BY <1>3, <2>4, <3>1
      <4>2. \A j \in Int : /\ (1 * 1 - (-1) * (-1)) * j = 0
                            /\ (2 * 1 * (-1)) * j = 0 - 2 * j
        OBVIOUS
      <4>3. 2 * m[4] = 0 - 2 * o[1] /\ 2 * m[1] = 0 + 2 * o[4]
        BY <1>4, <4>1, <4>2
      <4>4. \A i, j \in Int :
                /\ 2 * i = 0 + 2 * j => i = j
                /\ 2 * i = 0 - 2 * j => i = 0 - j
        OBVIOUS
      <4> QED
        BY <1>4, <4>3, <4>4
    <3> QED
      BY <1>5, <1>6, <2>4, <3>2
  <2> QED
    BY <2>1, <2>2, <2>3, <2>4, HeadingsFacts
<1>8. PICK k \in {1, 2} : \/ Raw(h, y) = Scale(k, yc)
                          \/ Raw(h, y) = Scale(k, Opposite(yc))
  BY <1>7
<1>9. Scale(1, Raw(h, y)) = Raw(h, y)
  BY <1>2, RawIsQuat, UnitScale
<1>10. A!Unit(Opposite(yc))
  BY <1>2, OppositeIsSame
<1>11. CASE Raw(h, y) = Scale(k, yc)
  BY <1>1, <1>2, <1>9, <1>11, ProductIs DEF y, yc, c
<1>12. CASE Raw(h, y) = Scale(k, Opposite(yc))
  <2>1. Opposite(yc) = A!QuaternionMultiply(h, y)
    BY <1>1, <1>2, <1>9, <1>10, <1>12, ProductIs
  <2>2. Opposite(Opposite(yc)) = yc
    BY <1>2, OppositeTwice
  <2> QED
    BY <2>1, <2>2 DEF y, yc, c
<1> QED
  BY <1>8, <1>11, <1>12

\* A rotation without its heading.
Tilt(a) ==
    A!QuaternionMultiply(A!QuaternionConjugate(A!QuaternionYawOnly(a)), a)

LEMMA TiltIs ==
    ASSUME NEW a, A!Unit(a)
    PROVE  LET m == Mat(Tilt(a))
           IN  /\ A!Unit(Tilt(a))
               /\ A!ComputeHeadinglessRootRot6D(a)
                    = <<m[1], m[4], m[7]>> \o <<m[3], m[6], m[9]>>
<1>1. A!Unit(Tilt(a))
  BY YawIsHeading, ProductFacts DEF Tilt, Upright
<1> QED
  BY <1>1, FirstColumn DEF A!ComputeHeadinglessRootRot6D, Tilt, A!AxisX, A!AxisZ

LEMMA TiltTurned ==
    ASSUME NEW h \in A!Headings, NEW a, A!Unit(a), ~A!Vertical(a)
    PROVE  A!ComputeHeadinglessRootRot6D(A!QuaternionMultiply(h, a))
             = A!ComputeHeadinglessRootRot6D(a)
<1> DEFINE y == A!QuaternionYawOnly(a)
           p == A!QuaternionMultiply(h, y)
           c == A!QuaternionMultiply(h, a)
           yc == A!QuaternionYawOnly(c)
<1>1. A!Unit(h) /\ A!Unit(c) /\ A!Unit(y) /\ A!Unit(p)
  BY HeadingsFacts, YawIsHeading, ProductFacts DEF Upright
<1>2. A!QuaternionMultiply(A!QuaternionConjugate(p), c) = Tilt(a)
  BY <1>1, MultiplyCancels DEF Tilt
<1>3. Mat(Tilt(c)) = Mat(Tilt(a))
  <2>1. CASE yc = p
    BY <1>2, <2>1 DEF Tilt
  <2>2. CASE yc = Opposite(p)
    <3>1. p \in Quat /\ A!Unit(A!QuaternionConjugate(p)) /\ A!Unit(Tilt(a))
      BY <1>1, UnitIsQuat, UnitConjugate, TiltIs
    <3>2. A!QuaternionConjugate(Opposite(p)) = Opposite(A!QuaternionConjugate(p))
      BY <3>1, ConjugateOfScale DEF Opposite
    <3>3. Tilt(c) = Opposite(Tilt(a))
      BY <1>1, <1>2, <2>2, <3>1, <3>2, OppositeProduct DEF Tilt
    <3> QED
      BY <3>1, <3>3, OppositeIsSame
  <2> QED
    BY <2>1, <2>2, HeadingTurned
<1> QED
  BY <1>1, <1>3, TiltIs

\* Without its heading, a rotation faces forward.
LEMMA TiltFacesForward ==
    ASSUME NEW a, A!Unit(a), ~A!Vertical(a)
    PROVE  Mat(Tilt(a))[1] = 1 /\ Mat(Tilt(a))[4] = 0
<1> DEFINE h == A!QuaternionConjugate(A!QuaternionYawOnly(a))
           o == Mat(a)  m == Mat(Tilt(a))
<1>1. Upright(h)
  BY YawIsHeading
<1>2. m[4] \in Int /\ m[1] \in Int
  <2>1. A!Unit(Tilt(a))
    BY TiltIs
  <2> QED
    BY <2>1, MatIs
<1>3. /\ A!Norm2(h) * m[4] = (h[1] * h[1] - h[4] * h[4]) * o[4] + (2 * h[1] * h[4]) * o[1]
      /\ A!Norm2(h) * m[1] = (h[1] * h[1] - h[4] * h[4]) * o[1] - (2 * h[1] * h[4]) * o[4]
  BY <1>1, Turned DEF Tilt
<1>4. \/ o[4] = 0 /\ o[1] = 1 /\ h[1] = 1 /\ h[4] = 0 /\ A!Norm2(h) = 1
      \/ o[4] = 0 /\ o[1] = -1 /\ h[1] = 0 /\ h[4] = -1 /\ A!Norm2(h) = 1
      \/ o[1] = 0 /\ o[4] = 1 /\ h[1] = 1 /\ h[4] = -1 /\ A!Norm2(h) = 2
      \/ o[1] = 0 /\ o[4] = -1 /\ h[1] = 1 /\ h[4] = 1 /\ A!Norm2(h) = 2
  BY FacesOneWay, YawIs DEF A!QuaternionConjugate, A!Norm2
<1> HIDE DEF h, o, m
<1>5. CASE o[4] = 0 /\ o[1] = 1 /\ h[1] = 1 /\ h[4] = 0 /\ A!Norm2(h) = 1
  <2>1. /\ 1 * m[4] = (1 * 1 - 0 * 0) * 0 + (2 * 1 * 0) * 1
        /\ 1 * m[1] = (1 * 1 - 0 * 0) * 1 - (2 * 1 * 0) * 0
    BY <1>3, <1>5
  <2> QED
    BY <1>2, <2>1 DEF m
<1>6. CASE o[4] = 0 /\ o[1] = -1 /\ h[1] = 0 /\ h[4] = -1 /\ A!Norm2(h) = 1
  <2>1. /\ 1 * m[4] = (0 * 0 - (-1) * (-1)) * 0 + (2 * 0 * (-1)) * (-1)
        /\ 1 * m[1] = (0 * 0 - (-1) * (-1)) * (-1) - (2 * 0 * (-1)) * 0
    BY <1>3, <1>6
  <2> QED
    BY <1>2, <2>1 DEF m
<1>7. CASE o[1] = 0 /\ o[4] = 1 /\ h[1] = 1 /\ h[4] = -1 /\ A!Norm2(h) = 2
  <2>1. /\ 2 * m[4] = (1 * 1 - (-1) * (-1)) * 1 + (2 * 1 * (-1)) * 0
        /\ 2 * m[1] = (1 * 1 - (-1) * (-1)) * 0 - (2 * 1 * (-1)) * 1
    BY <1>3, <1>7
  <2> QED
    BY <1>2, <2>1 DEF m
<1>8. CASE o[1] = 0 /\ o[4] = -1 /\ h[1] = 1 /\ h[4] = 1 /\ A!Norm2(h) = 2
  <2>1. /\ 2 * m[4] = (1 * 1 - 1 * 1) * (-1) + (2 * 1 * 1) * 0
        /\ 2 * m[1] = (1 * 1 - 1 * 1) * 0 - (2 * 1 * 1) * (-1)
    BY <1>3, <1>8
  <2> QED
    BY <1>2, <2>1 DEF m
<1> QED
  BY <1>4, <1>5, <1>6, <1>7, <1>8

LEMMA AlignedHeading ==
    ASSUME NEW t, NEW a, A!Unit(t), A!Unit(a), ~A!Vertical(a)
    PROVE  A!QuaternionYawOnly(
               A!QuaternionMultiply(A!ComputeYawAlignment(t, a), a))
             = A!QuaternionYawOnly(t)
<1> DEFINE y == A!QuaternionYawOnly(t)
           c == A!QuaternionMultiply(y, Tilt(a))
           m == Mat(c)  u == Mat(Tilt(a))
<1>1. Upright(y) /\ A!Unit(y)
  BY YawIsHeading DEF Upright
<1>2. A!Unit(A!QuaternionConjugate(A!QuaternionYawOnly(a))) /\ A!Unit(Tilt(a))
  BY YawIsHeading, TiltIs DEF Upright
<1>3. A!QuaternionMultiply(A!ComputeYawAlignment(t, a), a) = c
  BY <1>1, <1>2, MultiplyAssociates DEF A!ComputeYawAlignment, Tilt
<1>4. A!Unit(c)
  BY <1>1, <1>2, ProductFacts
<1>5. m[4] \in Int /\ m[1] \in Int
  BY <1>4, MatIs
<1>6. /\ A!Norm2(y) * m[4] = (y[1] * y[1] - y[4] * y[4]) * 0 + (2 * y[1] * y[4]) * 1
      /\ A!Norm2(y) * m[1] = (y[1] * y[1] - y[4] * y[4]) * 1 - (2 * y[1] * y[4]) * 0
  BY <1>1, <1>2, Turned, TiltFacesForward
<1>7. A!QuaternionYawOnly(c) =
        IF m[4] > 0 THEN <<1, 0, 0, 1>>
        ELSE IF m[4] < 0 THEN <<1, 0, 0, -1>>
        ELSE IF m[1] < 0 THEN <<0, 0, 0, 1>> ELSE <<1, 0, 0, 0>>
  BY <1>4, YawIs
<1>8. y \in {<<1, 0, 0, 0>>, <<1, 0, 0, 1>>, <<0, 0, 0, 1>>, <<1, 0, 0, -1>>}
  BY YawIsHeading, HeadingsFacts
<1>9. A!QuaternionYawOnly(c) = y
  <2> HIDE DEF y, c, m
  <2>1. CASE y = <<1, 0, 0, 0>>
    <3>1. A!Norm2(y) = 1
      BY <2>1 DEF A!Norm2
    <3>2. m[4] = 0 /\ m[1] = 1
      BY <1>5, <1>6, <2>1, <3>1
    <3> QED
      BY <1>7, <2>1, <3>2
  <2>2. CASE y = <<1, 0, 0, 1>>
    <3>1. A!Norm2(y) = 2
      BY <2>2 DEF A!Norm2
    <3>2. m[4] = 1
      BY <1>5, <1>6, <2>2, <3>1
    <3> QED
      BY <1>7, <2>2, <3>2
  <2>3. CASE y = <<0, 0, 0, 1>>
    <3>1. A!Norm2(y) = 1
      BY <2>3 DEF A!Norm2
    <3>2. m[4] = 0 /\ m[1] = -1
      BY <1>5, <1>6, <2>3, <3>1
    <3> QED
      BY <1>7, <2>3, <3>2
  <2>4. CASE y = <<1, 0, 0, -1>>
    <3>1. A!Norm2(y) = 2
      BY <2>4 DEF A!Norm2
    <3>2. m[4] = -1
      BY <1>5, <1>6, <2>4, <3>1
    <3> QED
      BY <1>7, <2>4, <3>2
  <2> QED
    BY <1>8, <2>1, <2>2, <2>3, <2>4
<1> QED
  BY <1>3, <1>9

\* The largest component of a quaternion, times the quaternion, is what
\* RotationMatrixToQuaternion normalises.
LEMMA MultipleOfUnit ==
    ASSUME NEW a, A!Unit(a), NEW k \in {-1, 1}, NEW r \in Quat,
           Scale(A!Norm2(a), r) = Scale(4 * k, a)
    PROVE  A!QuaternionNormalize(r) \in {a, Opposite(a)}
<1> DEFINE n == A!Norm2(a)  c == A!QuaternionNormalize(r)
<1>1. n \in {1, 2, 4} /\ a \in Quat /\ A!Norm2(r) \in Int
  BY UnitIsQuat, RawIsQuat DEF A!Unit
<1>2. n * n * A!Norm2(r) = (4 * k) * (4 * k) * n
  BY <1>1, NormOfScale
<1>3. A!Norm2(r) \in {1, 2, 4, 8, 16}
  <2> HIDE DEF n
  <2>1. CASE k = 1
    BY <1>1, <1>2, <2>1
  <2>2. CASE k = -1
    BY <1>1, <1>2, <2>2
  <2> QED
    BY <2>1, <2>2
<1>4. A!Unit(c)
  BY <1>3, UnitNormalized
<1>5. PICK g \in {1, 2, 4} : r = Scale(g, c)
  BY NormalizeIs
<1>6. c \in Quat /\ A!Unit(Opposite(a)) /\ Opposite(a) \in Quat
  BY <1>4, OppositeIsSame, UnitIsQuat
<1> HIDE DEF n, c
<1>7. Scale(n * g, c) = Scale(4 * k, a)
  <2>1. Scale(n, Scale(g, c)) = Scale(n * g, c)
    BY <1>1, <1>6, ScaleOfScale
  <2> QED
    BY <1>5, <2>1 DEF n
<1>8. n * g \in Nat \ {0}
  BY <1>1
<1>9. CASE k = 1
  <2>1. 4 * k = 4
    BY <1>9
  <2>2. c = a
    BY <1>4, <1>7, <1>8, <2>1, SameDirection
  <2> QED
    BY <2>2 DEF c
<1>10. CASE k = -1
  <2>1. Scale(4, Scale(-1, a)) = Scale(4 * (-1), a)
    BY <1>1, ScaleOfScale
  <2>2. Scale(n * g, c) = Scale(4, Opposite(a))
    BY <1>7, <1>10, <2>1 DEF Opposite
  <2>3. c = Opposite(a)
    BY <1>4, <1>6, <1>8, <2>2, SameDirection
  <2> QED
    BY <2>3 DEF c
<1> QED
  BY <1>9, <1>10

\* Whichever of the four formulas is taken, the rotation is the one of the matrix.
LEMMA MatrixToQuaternion ==
    ASSUME NEW a, A!Unit(a)
    PROVE  A!RotationMatrixToQuaternion(Mat(a)) \in {a, Opposite(a)}
<1> DEFINE m == Mat(a)  n == A!Norm2(a)
<1>1. PICK w, x, y, z \in -1 .. 1 : a = <<w, x, y, z>> /\ n = w*w + (x*x + y*y + z*z)
  BY UnitIntegers
<1>2. n \in {1, 2, 4}
  BY DEF A!Unit
<1>3. \A i \in 1 .. 9 : m[i] \in Int /\ n * m[i] = Rot(a)[i]
  BY MatIs
<1>4. /\ n * m[1] = w*w + x*x - y*y - z*z /\ n * m[2] = 2 * (x*y - w*z)
      /\ n * m[3] = 2 * (x*z + w*y) /\ n * m[4] = 2 * (x*y + w*z)
      /\ n * m[5] = w*w - x*x + y*y - z*z /\ n * m[6] = 2 * (y*z - w*x)
      /\ n * m[7] = 2 * (x*z - w*y) /\ n * m[8] = 2 * (y*z + w*x)
      /\ n * m[9] = w*w - x*x - y*y + z*z
  BY <1>1, <1>3 DEF Rot
<1> DEFINE t == m[1] + m[5] + m[9]
           rw == <<1 + m[1] + m[5] + m[9], m[8] - m[6], m[3] - m[7], m[4] - m[2]>>
           rx == <<m[8] - m[6], 1 + m[1] - m[5] - m[9], m[2] + m[4], m[3] + m[7]>>
           ry == <<m[3] - m[7], m[2] + m[4], 1 + m[5] - m[1] - m[9], m[6] + m[8]>>
           rz == <<m[4] - m[2], m[3] + m[7], m[6] + m[8], 1 + m[9] - m[1] - m[5]>>
<1>5. A!RotationMatrixToQuaternion(m) =
        A!QuaternionNormalize(IF t > 0 THEN rw
                              ELSE IF m[1] > m[5] /\ m[1] > m[9] THEN rx
                              ELSE IF m[5] > m[9] THEN ry ELSE rz)
  BY DEF A!RotationMatrixToQuaternion
<1> HIDE DEF m, n
<1>6. PICK b, c, d, e, f, g, h, i, j \in Int :
          /\ m[1] = b /\ m[2] = c /\ m[3] = d /\ m[4] = e /\ m[5] = f
          /\ m[6] = g /\ m[7] = h /\ m[8] = i /\ m[9] = j
  <2>1. /\ m[1] \in Int /\ m[2] \in Int /\ m[3] \in Int /\ m[4] \in Int
        /\ m[5] \in Int /\ m[6] \in Int /\ m[7] \in Int /\ m[8] \in Int
        /\ m[9] \in Int
    BY <1>3
  <2> USE <2>1
  <2> WITNESS m[1] \in Int, m[2] \in Int, m[3] \in Int, m[4] \in Int,
              m[5] \in Int, m[6] \in Int, m[7] \in Int, m[8] \in Int,
              m[9] \in Int
  <2> QED
    OBVIOUS
<1>7. rw \in Quat /\ rx \in Quat /\ ry \in Quat /\ rz \in Quat
  BY <1>6 DEF Quat
<1>8. Scale(n, rw) = Scale(4 * w, a) /\ Scale(n, rx) = Scale(4 * x, a)
      /\ Scale(n, ry) = Scale(4 * y, a) /\ Scale(n, rz) = Scale(4 * z, a)
  <2>1. /\ n * b = w*w + x*x - y*y - z*z /\ n * c = 2 * (x*y - w*z)
        /\ n * d = 2 * (x*z + w*y) /\ n * e = 2 * (x*y + w*z)
        /\ n * f = w*w - x*x + y*y - z*z /\ n * g = 2 * (y*z - w*x)
        /\ n * h = 2 * (x*z - w*y) /\ n * i = 2 * (y*z + w*x)
        /\ n * j = w*w - x*x - y*y + z*z
    BY <1>4, <1>6
  <2>2. /\ n * (1 + b + f + j) = 4 * w * w /\ n * (1 + b - f - j) = 4 * x * x
        /\ n * (1 + f - b - j) = 4 * y * y /\ n * (1 + j - b - f) = 4 * z * z
        /\ n * (i - g) = 4 * w * x /\ n * (d - h) = 4 * w * y
        /\ n * (e - c) = 4 * w * z /\ n * (c + e) = 4 * x * y
        /\ n * (d + h) = 4 * x * z /\ n * (g + i) = 4 * y * z
    BY <1>1, <1>2, <2>1
  <2>3. /\ 4 * x * w = 4 * w * x /\ 4 * y * w = 4 * w * y /\ 4 * z * w = 4 * w * z
        /\ 4 * y * x = 4 * x * y /\ 4 * z * x = 4 * x * z /\ 4 * z * y = 4 * y * z
    OBVIOUS
  <2>4. Scale(n, rw) = <<4 * w * w, 4 * w * x, 4 * w * y, 4 * w * z>>
    BY <1>6, <2>2 DEF Scale
  <2>5. Scale(n, rx) = <<4 * w * x, 4 * x * x, 4 * x * y, 4 * x * z>>
    BY <1>6, <2>2 DEF Scale
  <2>6. Scale(n, ry) = <<4 * w * y, 4 * x * y, 4 * y * y, 4 * y * z>>
    BY <1>6, <2>2 DEF Scale
  <2>7. Scale(n, rz) = <<4 * w * z, 4 * x * z, 4 * y * z, 4 * z * z>>
    BY <1>6, <2>2 DEF Scale
  <2> QED
    BY <1>1, <2>3, <2>4, <2>5, <2>6, <2>7 DEF Scale
<1>9. /\ t > 0 => w # 0
      /\ m[1] > m[5] => x # 0
      /\ m[5] > m[9] => y # 0
      /\ ~(t > 0) /\ ~(m[1] > m[5] /\ m[1] > m[9]) /\ ~(m[5] > m[9]) => z # 0
  <2>1. /\ n * b = w*w + x*x - y*y - z*z
        /\ n * f = w*w - x*x + y*y - z*z
        /\ n * j = w*w - x*x - y*y + z*z
    BY <1>4, <1>6
  <2>2. /\ b + f + j > 0 => w # 0
        /\ b > f => x # 0
        /\ f > j => y # 0
        /\ ~(b + f + j > 0) /\ ~(b > f /\ b > j) /\ ~(f > j) => z # 0
    BY <1>1, <1>2, <2>1
  <2> QED
    BY <1>6, <2>2
<1> HIDE DEF t, rw, rx, ry, rz
<1>10. /\ w # 0 => A!QuaternionNormalize(rw) \in {a, Opposite(a)}
       /\ x # 0 => A!QuaternionNormalize(rx) \in {a, Opposite(a)}
       /\ y # 0 => A!QuaternionNormalize(ry) \in {a, Opposite(a)}
       /\ z # 0 => A!QuaternionNormalize(rz) \in {a, Opposite(a)}
  <2>1. \A k \in -1 .. 1 : k # 0 => k \in {-1, 1}
    OBVIOUS
  <2> QED
    BY <1>1, <1>7, <1>8, <2>1, MultipleOfUnit DEF n
<1>11. A!RotationMatrixToQuaternion(m) \in {a, Opposite(a)}
  BY <1>5, <1>9, <1>10
<1> QED
  BY <1>11 DEF m

LEMMA SixInARow ==
    ASSUME NEW s \in Triple, NEW t \in Triple
    PROVE  /\ SubSeq(s \o t, 1, 3) = s
           /\ SubSeq(s \o t, 4, 6) = t
<1>1. s \in Seq(Int) /\ t \in Seq(Int) /\ Len(s) = 3 /\ Len(t) = 3
  <2>1. s = <<s[1], s[2], s[3]>> /\ t = <<t[1], t[2], t[3]>>
    BY DEF Triple
  <2>2. /\ s[1] \in Int /\ s[2] \in Int /\ s[3] \in Int
        /\ t[1] \in Int /\ t[2] \in Int /\ t[3] \in Int
    BY DEF Triple
  <2>3. \A x, y, z \in Int : <<x, y, z>> \in Seq(Int) /\ Len(<<x, y, z>>) = 3
    OBVIOUS
  <2> QED
    BY <2>1, <2>2, <2>3
<1> DEFINE c == s \o t
<1>2. /\ c \in Seq(Int) /\ Len(c) = 6
      /\ \A i \in 1 .. 6 : c[i] = IF i <= 3 THEN s[i] ELSE t[i - 3]
  <2>1. /\ c \in Seq(Int) /\ Len(c) = Len(s) + Len(t)
        /\ \A i \in 1 .. Len(s) + Len(t) :
              c[i] = IF i <= Len(s) THEN s[i] ELSE t[i - Len(s)]
    BY <1>1, ConcatProperties
  <2> QED
    BY <1>1, <2>1
<1> HIDE DEF c
<1>3. /\ SubSeq(c, 1, 3) \in Seq(Int) /\ Len(SubSeq(c, 1, 3)) = 3
      /\ \A i \in 1 .. 3 : SubSeq(c, 1, 3)[i] = c[i]
  BY <1>2, SubSeqProperties
<1>4. /\ SubSeq(c, 4, 6) \in Seq(Int) /\ Len(SubSeq(c, 4, 6)) = 3
      /\ \A i \in 1 .. 3 : SubSeq(c, 4, 6)[i] = c[i + 3]
  BY <1>2, SubSeqProperties
<1>5. SubSeq(c, 1, 3) \in Triple /\ SubSeq(c, 4, 6) \in Triple
  BY <1>3, <1>4, LenProperties DEF Triple
<1>6. \A i \in 1 .. 3 : SubSeq(c, 1, 3)[i] = s[i] /\ SubSeq(c, 4, 6)[i] = t[i]
  BY <1>2, <1>3, <1>4
<1>7. SubSeq(c, 1, 3) = s /\ SubSeq(c, 4, 6) = t
  BY <1>5, <1>6 DEF Triple
<1> QED
  BY <1>7 DEF c

\* From the six numbers of a row, the attitude without its heading.
LEMMA SixToQuaternion ==
    ASSUME NEW a, A!Unit(a)
    PROVE  A!TangentNormal6DToQuaternion(A!ComputeHeadinglessRootRot6D(a))
             \in {Tilt(a), Opposite(Tilt(a))}
<1> DEFINE m == Mat(Tilt(a))
           t == <<m[1], m[4], m[7]>>  n == <<m[3], m[6], m[9]>>
           b == A!Cross(n, t)
<1>1. A!Unit(Tilt(a)) /\ A!ComputeHeadinglessRootRot6D(a) = t \o n
  BY TiltIs
<1>2. m \in [1 .. 9 -> Int]
  BY <1>1, MatIs
<1>3. b = <<m[2], m[5], m[8]>>
  <2>1. /\ m[6] * m[7] - m[9] * m[4] = m[2]
        /\ m[9] * m[1] - m[3] * m[7] = m[5]
        /\ m[3] * m[4] - m[6] * m[1] = m[8]
    BY <1>1, MatIsRotation
  <2> QED
    BY <2>1 DEF A!Cross
<1>4. <<t[1], b[1], n[1], t[2], b[2], n[2], t[3], b[3], n[3]>> = m
  <2>1. m = <<m[1], m[2], m[3], m[4], m[5], m[6], m[7], m[8], m[9]>>
    BY <1>2
  <2> QED
    BY <1>3, <2>1
<1>5. t \in Triple /\ n \in Triple
  BY <1>2 DEF Triple
<1>6. SubSeq(t \o n, 1, 3) = t /\ SubSeq(t \o n, 4, 6) = n
  BY <1>5, SixInARow
<1>7. A!TangentNormal6DToQuaternion(t \o n) = A!RotationMatrixToQuaternion(m)
  BY <1>4, <1>6 DEF A!TangentNormal6DToQuaternion
<1> QED
  BY <1>1, <1>7, MatrixToQuaternion

LEMMA TiltRecoveredHolds ==
    ASSUME A!Unit(base_quat)
    PROVE  A!TiltRecovered
<1> DEFINE six == A!ComputeHeadinglessRootRot6D(base_quat)
           p == A!TangentNormal6DToQuaternion(six)
           t == Tilt(base_quat)
<1>1. p \in {t, Opposite(t)}
  BY SixToQuaternion
<1>2. A!Unit(t) /\ six = <<Mat(t)[1], Mat(t)[4], Mat(t)[7]>>
                           \o <<Mat(t)[3], Mat(t)[6], Mat(t)[9]>>
  BY TiltIs
<1>3. A!Unit(p) /\ Mat(p) = Mat(t)
  BY <1>1, <1>2, OppositeIsSame
<1>4. A!QuatApply(p, A!AxisX) \o A!QuatApply(p, A!AxisZ) = six
  BY <1>2, <1>3, FirstColumn DEF A!AxisX, A!AxisZ
<1>5. A!gravity_vec(p) = A!gravity_vec(base_quat)
  <2>1. A!gravity_vec(p) = A!gravity_vec(t)
    BY <1>2, <1>3, GravityIs
  <2>2. A!gravity_vec(t) = A!gravity_vec(base_quat)
    BY YawIsHeading, GravityTurned DEF Tilt
  <2> QED
    BY <2>1, <2>2
<1> QED
  BY <1>4, <1>5 DEF A!TiltRecovered

\* The torso, for waists of quarter turns.
LEMMA AxisIsUnit ==
    ASSUME NEW axis \in {A!AxisX, A!AxisY, A!AxisZ}, NEW k \in -1 .. 1
    PROVE  A!Unit(A!QuaternionFromAxisAngle(axis, k))
<1>1. axis \in {<<1, 0, 0>>, <<0, 1, 0>>, <<0, 0, 1>>}
  BY DEF A!AxisX, A!AxisY, A!AxisZ
<1>2. CASE k = 0
  BY <1>2 DEF A!QuaternionFromAxisAngle, A!One, A!Unit, A!Norm2
<1>3. CASE k # 0
  <2>1. A!QuaternionFromAxisAngle(axis, k)
          = <<1>> \o [i \in 1 .. 3 |-> k * axis[i]]
    BY <1>3 DEF A!QuaternionFromAxisAngle
  <2>2. [i \in 1 .. 3 |-> k * axis[i]] = <<k * axis[1], k * axis[2], k * axis[3]>>
    OBVIOUS
  <2>3. k * axis[1] \in Int /\ k * axis[2] \in Int /\ k * axis[3] \in Int
    BY <1>1
  <2>4. A!QuaternionFromAxisAngle(axis, k)
          = <<1, k * axis[1], k * axis[2], k * axis[3]>>
    BY <2>1, <2>2, <2>3, FourInARow
  <2>5. k \in {-1, 1}
    BY <1>3
  <2>6. \/ A!QuaternionFromAxisAngle(axis, k) = <<1, k, 0, 0>>
        \/ A!QuaternionFromAxisAngle(axis, k) = <<1, 0, k, 0>>
        \/ A!QuaternionFromAxisAngle(axis, k) = <<1, 0, 0, k>>
    BY <1>1, <2>4, <2>5
  <2> QED
    BY <2>5, <2>6 DEF A!Unit, A!Norm2
<1> QED
  BY <1>2, <1>3

LEMMA TorsoFacts ==
    ASSUME NEW a, A!Unit(a), NEW angles \in [1 .. 3 -> -1 .. 1]
    PROVE  /\ A!Unit(A!ComputeTorsoQuat(a, angles))
           /\ \A h : A!Unit(h) =>
                 A!ComputeTorsoQuat(A!QuaternionMultiply(h, a), angles)
                   = A!QuaternionMultiply(h, A!ComputeTorsoQuat(a, angles))
<1> DEFINE z == A!QuaternionFromAxisAngle(A!AxisZ, angles[1])
           x == A!QuaternionFromAxisAngle(A!AxisX, angles[2])
           y == A!QuaternionFromAxisAngle(A!AxisY, angles[3])
           Mul(p, r) == A!QuaternionMultiply(p, r)
<1>1. A!Unit(z) /\ A!Unit(x) /\ A!Unit(y)
  BY AxisIsUnit
<1>2. \A p : A!ComputeTorsoQuat(p, angles) = Mul(Mul(Mul(p, z), x), y)
  BY DEF A!ComputeTorsoQuat
<1> HIDE DEF z, x, y
<1>3. A!Unit(Mul(a, z)) /\ A!Unit(Mul(Mul(a, z), x))
      /\ A!Unit(Mul(Mul(Mul(a, z), x), y))
  BY <1>1, ProductFacts
<1>4. ASSUME NEW h, A!Unit(h)
      PROVE  Mul(Mul(Mul(Mul(h, a), z), x), y) = Mul(h, Mul(Mul(Mul(a, z), x), y))
  <2>1. Mul(Mul(h, a), z) = Mul(h, Mul(a, z))
    BY <1>1, <1>4, MultiplyAssociates
  <2>2. Mul(Mul(h, Mul(a, z)), x) = Mul(h, Mul(Mul(a, z), x))
    BY <1>1, <1>3, <1>4, MultiplyAssociates
  <2>3. Mul(Mul(h, Mul(Mul(a, z), x)), y) = Mul(h, Mul(Mul(Mul(a, z), x), y))
    BY <1>1, <1>3, <1>4, MultiplyAssociates
  <2> QED
    BY <2>1, <2>2, <2>3
<1> QED
  BY <1>2, <1>3, <1>4

LEMMA NoTurn ==
    ASSUME NEW a, A!Unit(a)
    PROVE  A!AnchorOri(a, a) = <<1, 0, 0, 1, 0, 0>>
<1> DEFINE c == A!QuaternionConjugate(a)  n == A!Norm2(a)  one == <<1, 0, 0, 0>>
<1>1. A!Unit(c) /\ A!Unit(one)
  BY UnitConjugate DEF A!Unit, A!Norm2
<1>2. n \in Nat \ {0}
  BY DEF A!Unit
<1>3. Raw(c, a) = Scale(n, one)
  <2>1. PICK w, x, y, z \in Int : a = <<w, x, y, z>>
    BY UnitIsQuat, FourIntegers
  <2> QED
    BY <2>1 DEF Raw, Scale, A!QuaternionConjugate, A!Norm2
<1>4. Scale(1, Raw(c, a)) = Raw(c, a)
  BY <1>1, UnitIsQuat, RawIsQuat, UnitScale
<1>5. one = A!QuaternionMultiply(c, a)
  BY <1>1, <1>2, <1>3, <1>4, ProductIs
<1>6. /\ Mat(one)[1] = 1 /\ Mat(one)[2] = 0 /\ Mat(one)[4] = 0
      /\ Mat(one)[5] = 1 /\ Mat(one)[7] = 0 /\ Mat(one)[8] = 0
  <2>1. A!Norm2(one) = 1
    BY DEF A!Norm2
  <2>2. \A i \in 1 .. 9 : Mat(one)[i] \in Int /\ 1 * Mat(one)[i] = Rot(one)[i]
    BY <1>1, <2>1, MatIs
  <2>3. /\ Rot(one)[1] = 1 /\ Rot(one)[2] = 0 /\ Rot(one)[4] = 0
        /\ Rot(one)[5] = 1 /\ Rot(one)[7] = 0 /\ Rot(one)[8] = 0
    BY DEF Rot
  <2> HIDE DEF one
  <2>4. \A i \in 1 .. 9 : Mat(one)[i] = Rot(one)[i]
    BY <2>2
  <2> QED
    BY <2>3, <2>4
<1> QED
  BY <1>5, <1>6 DEF A!AnchorOri, A!MatrixFirstTwoColumns, Mat

\* What the proof needs of a state: the world is turned as Reset turned it, as
\* long as nothing has moved since.
OrientationInv ==
    /\ A!TypeOK
    /\ aligned =>
          world_to_init_ = A!ComputeYawAlignment(
              A!ComputeTorsoQuat(base_quat, waist), A!GetAnchorQuat(frame))

LEMMA FrameFacts ==
    ASSUME A!OrientationAssumption, NEW f \in MotionFrames
    PROVE  A!Unit(A!GetAnchorQuat(f))
  BY TorsoFacts DEF A!OrientationAssumption, A!GetAnchorQuat

LEMMA AlignmentIsUnit ==
    ASSUME NEW t, NEW a, A!Unit(t), A!Unit(a)
    PROVE  A!Unit(A!ComputeYawAlignment(t, a))
  BY YawIsHeading, ProductFacts DEF A!ComputeYawAlignment, Upright

LEMMA OrientationInit ==
    ASSUME A!OrientationAssumption, A!Init
    PROVE  OrientationInv
<1>1. A!Unit(<<1, 0, 0, 0>>)
  BY DEF A!Unit, A!Norm2
<1> QED
  BY <1>1 DEF A!OrientationAssumption, A!Init, A!One, OrientationInv, A!TypeOK

LEMMA OrientationNext ==
    ASSUME A!OrientationAssumption, OrientationInv, [A!Next]_(A!vars)
    PROVE  OrientationInv'
<1> USE DEF OrientationInv, A!TypeOK
<1>1. ASSUME NEW axis \in {A!AxisX, A!AxisY, A!AxisZ}, NEW quarters \in {-1, 1},
             A!Turn(axis, quarters)
      PROVE  OrientationInv'
  <2>1. A!Unit(A!QuaternionFromAxisAngle(axis, quarters))
    BY AxisIsUnit
  <2>2. A!Unit(base_quat')
    BY <1>1, <2>1, ProductFacts DEF A!Turn
  <2> QED
    BY <1>1, <2>2 DEF A!Turn
<1>2. ASSUME NEW angles \in Waists, A!MoveWaist(angles) PROVE OrientationInv'
  BY <1>2 DEF A!MoveWaist
<1>3. ASSUME NEW f \in MotionFrames, A!Reset(f) PROVE OrientationInv'
  <2>1. waist \in [1 .. 3 -> -1 .. 1]
    BY DEF A!OrientationAssumption
  <2>2. A!Unit(A!ComputeTorsoQuat(base_quat, waist)) /\ A!Unit(A!GetAnchorQuat(f))
    BY <2>1, TorsoFacts, FrameFacts
  <2>3. A!Unit(world_to_init_')
    BY <1>3, <2>2, AlignmentIsUnit DEF A!Reset
  <2> QED
    BY <1>3, <2>3 DEF A!Reset
<1>4. ASSUME NEW f \in MotionFrames, A!Update(f) PROVE OrientationInv'
  BY <1>4 DEF A!Update
<1>5. CASE UNCHANGED A!vars
  BY <1>5 DEF A!vars
<1> QED
  BY <1>1, <1>2, <1>3, <1>4, <1>5 DEF A!Next

LEMMA OrientationSteps == Spec => A!Spec
<1>1. Init => A!Init
  BY DEF Init
<1>2. [Next]_vars => [A!Next]_(A!vars)
  <2>1. UNCHANGED turn_vars => UNCHANGED A!vars
    BY DEF turn_vars, A!vars
  <2>2. UNCHANGED vars => UNCHANGED turn_vars
    BY DEF vars
  <2> QED
    BY <2>1, <2>2, OthersStay DEF Next
<1> QED
  BY <1>1, <1>2, PTL DEF Spec, A!Spec

\* Gravity is observed where it is in the body; the heading is gone from the
\* root, and the attitude without it comes back from the six numbers; a motion
\* starts facing as the robot does, and what is observed of it is where it is
\* from the robot: for every attitude, every waist and every motion of quarter
\* turns.
THEOREM OrientationSafeHolds == Spec => []OrientationSafe
<1>1. A!OrientationAssumption
  BY OrientationAssumption
<1>2. A!Init => OrientationInv
  BY <1>1, OrientationInit
<1>3. OrientationInv /\ [A!Next]_(A!vars) => OrientationInv'
  BY <1>1, OrientationNext
<1>4. OrientationInv => OrientationSafe
  <2> SUFFICES ASSUME OrientationInv PROVE A!OrientationSafe
    BY DEF OrientationSafe
  <2> DEFINE torso == A!ComputeTorsoQuat(base_quat, waist)
             reference == A!GetAnchorQuat(frame)
  <2>1. /\ A!Unit(base_quat) /\ A!Unit(world_to_init_)
        /\ waist \in [1 .. 3 -> -1 .. 1] /\ frame \in MotionFrames
    BY <1>1 DEF OrientationInv, A!TypeOK, A!OrientationAssumption
  <2>2. A!Unit(torso) /\ A!Unit(reference)
    BY <1>1, <2>1, TorsoFacts, FrameFacts
  <2>3. A!GravityInBody
    BY <2>1, GravityIsDown, GravityTurned, HeadingsFacts DEF A!GravityInBody
  <2>4. A!HeadingRemoved
    BY <2>1, TiltTurned DEF A!HeadingRemoved
  <2>5. A!TiltRecovered
    BY <2>1, TiltRecoveredHolds
  <2>6. A!StartsAligned
    BY <2>2, AlignedHeading DEF OrientationInv, A!StartsAligned
  <2>7. A!AnchorIsRelative
    <3>1. ASSUME NEW h \in A!Headings
          PROVE  A!motion_anchor_ori_b(
                     A!QuaternionMultiply(h, base_quat), waist,
                     A!QuaternionMultiply(h, world_to_init_), frame)
                   = A!motion_anchor_ori_b(base_quat, waist, world_to_init_, frame)
      <4> DEFINE place == A!QuaternionMultiply(world_to_init_, reference)
      <4>1. A!Unit(h) /\ A!Unit(place)
        BY <2>1, <2>2, HeadingsFacts, ProductFacts DEF Upright
      <4>2. A!ComputeTorsoQuat(A!QuaternionMultiply(h, base_quat), waist)
              = A!QuaternionMultiply(h, torso)
        BY <2>1, <4>1, TorsoFacts
      <4>3. A!QuaternionMultiply(A!QuaternionMultiply(h, world_to_init_), reference)
              = A!QuaternionMultiply(h, place)
        BY <2>1, <2>2, <4>1, MultiplyAssociates
      <4>4. A!AnchorOri(A!QuaternionMultiply(h, torso),
                        A!QuaternionMultiply(h, place))
              = A!AnchorOri(torso, place)
        BY <2>2, <4>1, MultiplyCancels DEF A!AnchorOri
      <4> QED
        BY <4>2, <4>3, <4>4 DEF A!motion_anchor_ori_b
    <3> QED
      BY <2>1, <3>1, NoTurn DEF A!AnchorIsRelative
  <2> QED
    BY <2>3, <2>4, <2>5, <2>6, <2>7 DEF OrientationInv, A!OrientationSafe
<1> QED
  BY <1>2, <1>3, <1>4, OrientationSteps, PTL DEF Spec, A!Spec
-----------------------------------------------------------------------------
(* The gamepad, for every number of events that wait.                      *)

Event == [button : G!Buttons, down : BOOLEAN]

\* In the programs of the real robots the reader runs inside a control period.
TurnInv ==
    program \in G!RealRobots =>
        /\ reader # "idle" => pad_control = "get"
        /\ pad_control = "idle" => pad_current_gamepad # <<"X">>

\* That of A1 and G1 looks at each button once.
LookInv ==
    program = "a1" =>
        /\ reader \in {"idle", "single", "combination"}
        /\ reader # "idle" => pressed = on_press
        /\ reader = "single" => pad_current_gamepad # <<"X">>
        /\ pad_current_gamepad = <<"X">> =>
              /\ reader = "combination" => "X" \in on_press
              /\ pad_control # "clear" /\ reader = "idle" =>
                    pressed \cap G!Shift = {}

\* That of Go2 has come to asked: behind a combination, X is the input only if
\* the combination was not held down all along.
AskInv ==
    /\ reader = "asking" => program = "go2" /\ kept \subseteq held
    /\ program = "go2" =>
        /\ reader \in {"idle", "asking"}
        /\ pad_current_gamepad = <<"X">> /\ "X" \in kept =>
              /\ reader = "asking" =>
                    /\ asked[1] > 4 => "LB" \notin kept
                    /\ asked[1] > 5 => "RB" \notin kept
              /\ reader = "idle" /\ pad_control # "clear" =>
                    kept \cap G!Shift = {}

\* A velocity of a stick, in control.x or in an increment under way.
VelocityInv ==
    program = "mujoco" /\ (control_x = "stick" \/ x_read = "stick")
        => sys_js_active \/ pad_overlapped

\* In MuJoCo a press of X is in on_press until SetSingle, and then in the input
\* until the control thread carries it out.
InReading ==
    IF reader \in {"sample", "single"} /\ "X" \in on_press THEN 1 ELSE 0
InInput ==
    IF pad_control # "clear" /\ pad_current_gamepad = <<"X">> THEN 1 ELSE 0
PressInv == program = "mujoco" => InReading + InInput <= unanswered

PadInv ==
    /\ G!TypeOK /\ events \in Seq(Event)
    /\ TurnInv /\ LookInv /\ AskInv /\ PressInv /\ VelocityInv

LEMMA InputFacts ==
    /\ Len(G!Inputs) = 6
    /\ Len(G!Inputs[4]) = 2 /\ Len(G!Inputs[5]) = 2
    /\ G!Inputs[4] = <<"LB", "X">> /\ G!Inputs[5] = <<"RB", "X">>
    /\ G!Inputs[6] = <<"LB", "RB">>
    /\ \A a, b : <<a, b>> # <<"X">>
    /\ \A b : <<b>> = <<"X">> => b = "X"
BY DEF G!Inputs

LEMMA PadInit ==
    ASSUME G!GamepadAssumption, G!Init
    PROVE  PadInv
<1>1. /\ program \in Programs /\ held = {} /\ events = <<>> /\ stick = FALSE
      /\ reader = "idle" /\ asked = <<1, 1>> /\ pressed = {} /\ on_press = {}
      /\ sys_js_active = FALSE /\ control_x = "none" /\ x_read = "none"
      /\ pad_current_gamepad = <<>> /\ pad_navigation_mode = FALSE
      /\ pad_control = "idle" /\ unanswered = 0 /\ kept = {}
      /\ pad_overlapped = FALSE
  BY DEF G!Init
<1>2. <<>> # <<"X">>
  OBVIOUS
<1>3. /\ Len(events) <= MaxEvents /\ events \in Seq(Event)
      /\ unanswered \in 0 .. 2
      /\ asked \in (1 .. Len(G!Inputs) + 1) \X {1, 2}
  BY <1>1, InputFacts DEF G!GamepadAssumption
<1>4. G!TypeOK
  BY <1>1, <1>3, Zenon DEF G!TypeOK
<1>5. TurnInv /\ LookInv /\ AskInv
  BY <1>1, <1>2, Zenon DEF TurnInv, LookInv, AskInv
<1>6. PressInv
  BY <1>1, <1>2 DEF PressInv, InReading, InInput
<1>7. VelocityInv
  BY <1>1 DEF VelocityInv
<1> QED
  BY <1>3, <1>4, <1>5, <1>6, <1>7 DEF PadInv

\* The operator.
LEMMA OperatorKeeps ==
    ASSUME G!GamepadAssumption, PadInv,
           \/ \E b \in G!Buttons, down \in BOOLEAN : G!Hold(b, down)
           \/ G!MoveStick
    PROVE  PadInv'
<1> USE DEF PadInv
<1>1. UNCHANGED <<program, reader, asked, pressed, on_press, sys_js_active,
                  control_x, x_read, pad_current_gamepad, pad_navigation_mode,
                  pad_control, unanswered, pad_overlapped>>
  BY DEF G!Hold, G!MoveStick, G!reading, G!velocity
<1>2. /\ events' \in Seq(Event) /\ Len(events') <= MaxEvents
      /\ held' \subseteq G!Buttons /\ stick' \in BOOLEAN
      /\ kept' \subseteq kept
      /\ reader = "asking" => (kept \subseteq held => kept' \subseteq held')
      /\ reader # "asking" => kept' = kept
  <2>1. CASE \E b \in G!Buttons, down \in BOOLEAN : G!Hold(b, down)
    <3>1. PICK b \in G!Buttons, down \in BOOLEAN : G!Hold(b, down)
      BY <2>1
    <3>2. held' \subseteq G!Buttons /\ stick' \in BOOLEAN
      BY <3>1 DEF G!Hold, G!TypeOK
    <3>3. [button |-> b, down |-> down] \in Event
      BY DEF Event
    <3>4. \/ UNCHANGED events
          \/ /\ Len(events) < MaxEvents
             /\ events' = Append(events, [button |-> b, down |-> down])
      BY <3>1 DEF G!Hold
    <3>5. events' \in Seq(Event) /\ Len(events') <= MaxEvents
      BY <3>3, <3>4 DEF G!TypeOK, G!GamepadAssumption
    <3>6. kept' = IF reader = "asking" THEN kept \cap held' ELSE kept
      BY <3>1 DEF G!Hold
    <3> QED
      BY <3>2, <3>5, <3>6
  <2>2. CASE G!MoveStick
    <3>1. stick' = ~stick /\ UNCHANGED <<held, events, kept>>
      BY <2>2 DEF G!MoveStick
    <3>2. stick' \in BOOLEAN
      BY <3>1, Zenon
    <3> QED
      BY <3>1, <3>2 DEF G!TypeOK
  <2> QED
    BY <2>1, <2>2
<1>3. G!TypeOK'
  BY <1>1, <1>2 DEF G!TypeOK
<1>4. TurnInv' /\ LookInv' /\ PressInv' /\ VelocityInv'
  BY <1>1 DEF TurnInv, LookInv, PressInv, InReading, InInput, VelocityInv
<1>5. AskInv'
  BY <1>1, <1>2 DEF AskInv
<1> QED
  BY <1>2, <1>3, <1>4, <1>5

\* A reading begins.
LEMMA ReadingKeeps ==
    ASSUME G!GamepadAssumption, PadInv,
           G!JoyCallback \/ G!GetState \/ G!GetSysJoystick \/ G!EndSample
    PROVE  PadInv'
<1> USE DEF PadInv
<1>1. UNCHANGED <<program, held, events, stick, asked, sys_js_active, control_x,
                  x_read, pad_current_gamepad, pad_navigation_mode, unanswered,
                  kept, pad_overlapped>>
  BY DEF G!JoyCallback, G!GetState, G!Look, G!GetSysJoystick, G!EndSample,
     G!gamepad, G!velocity
<1>2. VelocityInv'
  BY <1>1 DEF VelocityInv
<1>3. CASE G!JoyCallback
  <2>1. /\ program = "gazebo" /\ reader' = "single"
        /\ pressed' = held /\ on_press' = held /\ UNCHANGED pad_control
    BY <1>3 DEF G!JoyCallback, G!Look
  <2>2. G!TypeOK'
    BY <1>1, <2>1 DEF G!TypeOK
  <2> QED
    BY <1>1, <1>2, <2>1, <2>2
       DEF TurnInv, LookInv, AskInv, PressInv, G!RealRobots
<1>4. CASE G!GetState
  <2>1. /\ program = "a1" /\ pad_control = "idle" /\ pad_control' = "get"
        /\ reader' = "single" /\ pressed' = held /\ on_press' = held
    BY <1>4 DEF G!GetState, G!Look
  <2>2. G!TypeOK'
    BY <1>1, <2>1 DEF G!TypeOK
  <2> QED
    BY <1>1, <1>2, <2>1, <2>2
       DEF TurnInv, LookInv, AskInv, PressInv, G!RealRobots
<1>5. CASE G!GetSysJoystick
  <2>1. /\ program = "mujoco" /\ reader' = "sample" /\ on_press' = {}
        /\ UNCHANGED <<pressed, pad_control>>
    BY <1>5 DEF G!GetSysJoystick, G!ForgetPresses
  <2>2. G!TypeOK'
    BY <1>1, <2>1 DEF G!TypeOK
  <2>3. InReading' = 0 /\ InInput' = InInput /\ InReading \in {0, 1}
        /\ InInput \in {0, 1} /\ unanswered \in 0 .. 2
    BY <1>1, <2>1 DEF InReading, InInput, G!TypeOK
  <2>4. PressInv'
    BY <1>1, <2>3 DEF PressInv
  <2> QED
    BY <1>1, <1>2, <2>1, <2>2, <2>4 DEF TurnInv, LookInv, AskInv, G!RealRobots
<1>6. CASE G!EndSample
  <2>1. /\ reader = "sample" /\ reader' = "single"
        /\ UNCHANGED <<pressed, on_press, pad_control>>
    BY <1>6 DEF G!EndSample
  <2>2. program # "a1" /\ program # "go2"
    BY <2>1 DEF LookInv, AskInv
  <2>3. G!TypeOK'
    BY <1>1, <2>1 DEF G!TypeOK
  <2>4. PressInv'
    BY <1>1, <2>1 DEF PressInv, InReading, InInput
  <2> QED
    BY <1>1, <1>2, <2>1, <2>2, <2>3, <2>4
       DEF TurnInv, LookInv, AskInv, G!RealRobots
<1> QED
  BY <1>3, <1>4, <1>5, <1>6

\* Go2 reads its buttons one by one.
LEMMA AskingKeeps ==
    ASSUME G!GamepadAssumption, PadInv, G!GetStateGo2 \/ G!Ask \/ G!EndAsk
    PROVE  PadInv'
<1> USE DEF PadInv
<1>1. /\ UNCHANGED <<program, held, events, stick, pressed, on_press,
                     sys_js_active, x_read, pad_navigation_mode, unanswered,
                     pad_overlapped>>
  BY DEF G!GetStateGo2, G!Ask, G!EndAsk, G!gamepad, G!velocity
<1>2. asked \in (1 .. 7) \X {1, 2}
  BY InputFacts DEF G!TypeOK
<1>3. CASE G!GetStateGo2
  <2>1. /\ program = "go2" /\ pad_control = "idle" /\ pad_control' = "get"
        /\ reader' = "asking" /\ asked' = <<1, 1>> /\ kept' = held
        /\ UNCHANGED <<control_x, pad_current_gamepad>>
    BY <1>3 DEF G!GetStateGo2, G!velocity
  <2>2. asked' \in (1 .. Len(G!Inputs) + 1) \X {1, 2} /\ asked'[1] = 1
    BY <2>1, InputFacts
  <2>3. G!TypeOK'
    BY <1>1, <2>1, <2>2 DEF G!TypeOK
  <2>4. AskInv' /\ TurnInv'
    BY <1>1, <2>1, <2>2 DEF TurnInv, AskInv
  <2> QED
    BY <1>1, <2>1, <2>3, <2>4 DEF LookInv, PressInv, VelocityInv
<1>4. CASE G!Ask
  <2> DEFINE buttons == G!Inputs[asked[1]]
             down == buttons[asked[2]] \in held
             final == asked[2] = Len(buttons)
  <2>1. /\ reader = "asking" /\ asked[1] <= 6
        /\ asked' = IF down /\ ~final THEN <<asked[1], 2>>
                    ELSE <<asked[1] + 1, 1>>
        /\ pad_current_gamepad' = IF down /\ final THEN buttons
                                  ELSE pad_current_gamepad
        /\ UNCHANGED <<reader, control_x, pad_control, kept>>
    BY <1>4, InputFacts DEF G!Ask, G!velocity
  <2>2. program = "go2"
    BY <2>1 DEF AskInv
  <2>3. asked[1] \in 1 .. 6 /\ asked[2] \in {1, 2}
    BY <1>2, <2>1
  <2>4. /\ asked' \in (1 .. Len(G!Inputs) + 1) \X {1, 2}
        /\ asked'[1] \in {asked[1], asked[1] + 1}
        /\ asked'[1] = asked[1] + 1 => ~down \/ final
    <3>1. asked' = <<asked[1], 2>> \/ asked' = <<asked[1] + 1, 1>>
      BY <2>1
    <3>2. /\ asked[1] \in 1 .. Len(G!Inputs) + 1
          /\ asked[1] + 1 \in 1 .. Len(G!Inputs) + 1
      BY <2>3, InputFacts
    <3>3. down /\ ~final => asked' = <<asked[1], 2>>
      BY <2>1
    <3> QED
      BY <2>3, <3>1, <3>2, <3>3
  <2>5. G!TypeOK'
    BY <1>1, <2>1, <2>4 DEF G!TypeOK
  <2>6. AskInv'
    <3>1. kept \subseteq held
      BY <2>1 DEF AskInv
    <3> SUFFICES ASSUME pad_current_gamepad' = <<"X">>, "X" \in kept
                 PROVE  /\ asked'[1] > 4 => "LB" \notin kept
                        /\ asked'[1] > 5 => "RB" \notin kept
      BY <1>1, <2>1, <2>2, <3>1 DEF AskInv
    <3>2. asked[1] > 3 => ~(down /\ final) /\ pad_current_gamepad = <<"X">>
      <4>1. asked[1] > 3 => buttons # <<"X">>
        BY <2>3, InputFacts
      <4> QED
        BY <2>1, <4>1
    <3>3. CASE asked[1] < 4
      BY <2>3, <2>4, <3>3
    <3>4. CASE asked[1] = 4
      <4>1. asked'[1] = 5 => ~down
        BY <2>4, <3>2, <3>4
      <4>2. down \/ (asked[2] = 1 /\ "LB" \notin held)
        BY <2>3, <3>1, <3>4, InputFacts
      <4> QED
        BY <2>4, <3>1, <3>4, <4>1, <4>2
    <3>5. CASE asked[1] = 5
      <4>1. asked'[1] = 6 => ~down
        BY <2>4, <3>2, <3>5
      <4>2. down \/ (asked[2] = 1 /\ "RB" \notin held)
        BY <2>3, <3>1, <3>5, InputFacts
      <4>3. "LB" \notin kept
        BY <2>1, <2>2, <3>2, <3>5 DEF AskInv
      <4> QED
        BY <2>4, <3>1, <3>5, <4>1, <4>2, <4>3
    <3>6. CASE asked[1] = 6
      BY <2>1, <2>2, <3>2, <3>6 DEF AskInv
    <3> QED
      BY <2>3, <3>3, <3>4, <3>5, <3>6
  <2>7. TurnInv'
    BY <1>1, <2>1 DEF TurnInv
  <2> QED
    BY <1>1, <2>1, <2>2, <2>5, <2>6, <2>7 DEF LookInv, PressInv, VelocityInv
<1>5. CASE G!EndAsk
  <2>1. /\ reader = "asking" /\ asked[1] > 6 /\ reader' = "idle"
        /\ asked' = <<1, 1>> /\ control_x' = G!Velocity
        /\ UNCHANGED <<pad_current_gamepad, pad_control, kept>>
    BY <1>5, InputFacts DEF G!EndAsk
  <2>2. control_x' \in {"none", "stick", "keyboard"}
    BY <2>1 DEF G!Velocity, G!TypeOK
  <2>3. asked' \in (1 .. Len(G!Inputs) + 1) \X {1, 2}
    BY <2>1, InputFacts
  <2>4. G!TypeOK'
    BY <1>1, <2>1, <2>2, <2>3 DEF G!TypeOK
  <2>5. asked[1] > 4 /\ asked[1] > 5
    BY <1>2, <2>1
  <2>6. AskInv' /\ TurnInv'
    BY <1>1, <2>1, <2>5 DEF TurnInv, AskInv, G!Shift
  <2>7. program = "go2"
    BY <2>1 DEF AskInv
  <2> QED
    BY <1>1, <2>1, <2>4, <2>6, <2>7 DEF LookInv, PressInv, VelocityInv
<1> QED
  BY <1>3, <1>4, <1>5

\* An event is read: a press of X is counted when it is new.
LEMMA SampleKeeps ==
    ASSUME G!GamepadAssumption, PadInv, G!Sample
    PROVE  PadInv'
<1> USE DEF PadInv
<1> DEFINE e == Head(events)
           new == e.down /\ e.button \notin pressed
<1>1. /\ reader = "sample" /\ events # <<>> /\ events' = Tail(events)
      /\ pressed' = IF e.down THEN pressed \cup {e.button}
                    ELSE pressed \ {e.button}
      /\ on_press' = IF new THEN on_press \cup {e.button}
                     ELSE on_press \ {e.button}
      /\ unanswered' = IF new /\ e.button = "X" /\ unanswered < 2
                       THEN unanswered + 1 ELSE unanswered
      /\ UNCHANGED <<program, held, stick, reader, asked, sys_js_active,
                     control_x, x_read, pad_current_gamepad,
                     pad_navigation_mode, pad_control, kept, pad_overlapped>>
  BY DEF G!Sample, G!velocity
<1>2. e \in Event /\ events' \in Seq(Event) /\ Len(events') <= MaxEvents
  BY <1>1 DEF G!TypeOK, G!GamepadAssumption
<1>3. e.button \in G!Buttons
  BY <1>2 DEF Event
<1>4. unanswered \in 0 .. 2
  BY DEF G!TypeOK
<1> HIDE DEF e
<1>5. /\ unanswered' \in 0 .. 2 /\ unanswered' >= unanswered
      /\ new /\ e.button = "X" => unanswered' = 2 \/ unanswered' = unanswered + 1
  BY <1>1, <1>4
<1>6. "X" \in on_press' => "X" \in on_press \/ (new /\ e.button = "X")
  BY <1>1
<1>7. pressed' \subseteq G!Buttons /\ on_press' \subseteq G!Buttons
  BY <1>1, <1>3 DEF G!TypeOK
<1> HIDE DEF new
<1>8. G!TypeOK'
  BY <1>1, <1>2, <1>5, <1>7 DEF G!TypeOK
<1>9. PressInv'
  <2>1. /\ InInput' = InInput /\ InInput \in {0, 1}
        /\ InReading' \in {0, 1} /\ InReading \in {0, 1}
    BY <1>1 DEF InInput, InReading
  <2>2. InReading' = 1 => InReading = 1 \/ (new /\ e.button = "X")
    BY <1>1, <1>6 DEF InReading
  <2>3. \A r, s \in {0, 1}, t \in {0, 1}, n, m \in 0 .. 2 :
           r + t <= n /\ m >= n /\ (s = 1 => r = 1 \/ m = 2 \/ m = n + 1)
             => s + t <= m
    OBVIOUS
  <2>4. InReading' = 1 => \/ InReading = 1 \/ unanswered' = 2
                          \/ unanswered' = unanswered + 1
    BY <1>5, <2>2
  <2>5. ASSUME program = "mujoco"
        PROVE  InReading' + InInput' <= unanswered'
    <3>1. InReading + InInput <= unanswered
      BY <2>5 DEF PressInv
    <3>2. InReading' + InInput <= unanswered'
      BY <1>4, <1>5, <2>1, <2>3, <2>4, <3>1, Zenon
    <3> QED
      BY <2>1, <3>2, Zenon
  <2> QED
    BY <1>1, <2>5, Zenon DEF PressInv
<1>10. TurnInv' /\ LookInv' /\ AskInv' /\ VelocityInv'
  BY <1>1 DEF TurnInv, LookInv, AskInv, VelocityInv
<1> QED
  BY <1>2, <1>8, <1>9, <1>10

\* What was found is set, a combination last.
LEMMA SetKeeps ==
    ASSUME G!GamepadAssumption, PadInv, G!SetSingle \/ G!SetCombination
    PROVE  PadInv'
<1> USE DEF PadInv
<1>1. /\ \A a, b : <<a, b>> # <<"X">>
      /\ \A b : <<b>> = <<"X">> => b = "X"
  OBVIOUS
<1>2. unanswered \in 0 .. 2
  BY DEF G!TypeOK
<1>3. CASE G!SetSingle
  <2>1. /\ reader = "single" /\ reader' = "combination"
        /\ \/ UNCHANGED pad_current_gamepad
           \/ pad_current_gamepad' \in {<<b>> : b \in on_press}
        /\ UNCHANGED <<program, held, events, stick, asked, pressed, on_press,
                       sys_js_active, control_x, x_read, pad_navigation_mode,
                       pad_control, unanswered, kept, pad_overlapped>>
    BY <1>3 DEF G!SetSingle, G!Set, G!gamepad, G!velocity
  <2>2. pad_current_gamepad' = <<"X">> =>
           pad_current_gamepad = <<"X">> \/ "X" \in on_press
    BY <1>1, <2>1
  <2>3. G!TypeOK'
    BY <2>1 DEF G!TypeOK
  <2>4. TurnInv' /\ LookInv' /\ AskInv'
    BY <2>1, <2>2 DEF TurnInv, LookInv, AskInv, G!RealRobots
  <2>5. PressInv'
    <3>1. /\ InReading' = 0 /\ InInput' \in {0, 1} /\ InInput \in {0, 1}
          /\ InReading \in {0, 1}
          /\ InInput' = 1 => InInput = 1 \/ InReading = 1
      BY <2>1, <2>2 DEF InReading, InInput
    <3> QED
      BY <1>2, <2>1, <3>1 DEF PressInv
  <2> QED
    BY <2>1, <2>3, <2>4, <2>5 DEF VelocityInv
<1>4. CASE G!SetCombination
  <2>1. /\ reader = "combination" /\ reader' = "idle"
        /\ pad_current_gamepad' \in IF G!Combinations = {}
                                    THEN {pad_current_gamepad}
                                    ELSE G!Combinations
        /\ control_x' = G!Velocity
        /\ sys_js_active' = (program = "mujoco" /\ stick)
        /\ pad_overlapped' = (~stick /\ (pad_overlapped \/ x_read = "stick"))
        /\ UNCHANGED <<program, held, events, stick, asked, pressed, on_press,
                       x_read, pad_navigation_mode, pad_control, unanswered,
                       kept>>
    BY <1>4 DEF G!SetCombination, G!Set, G!gamepad
  <2>2. /\ sys_js_active' \in BOOLEAN /\ pad_overlapped' \in BOOLEAN
        /\ program = "mujoco" /\ stick => sys_js_active'
        /\ ~stick /\ (pad_overlapped \/ x_read = "stick") => pad_overlapped'
    BY <2>1, Zenon
  <2>3. \A c \in G!Combinations : c # <<"X">>
    BY <1>1 DEF G!Combinations
  <2>4. "X" \in on_press /\ G!Combinations = {} => pressed \cap G!Shift = {}
    <3> SUFFICES ASSUME "X" \in on_press, G!Combinations = {},
                        NEW shift \in pressed \cap G!Shift
                 PROVE  FALSE
      OBVIOUS
    <3>1. "X" \in on_press \ G!Shift /\ shift \in {"LB", "RB"}
      BY DEF G!Shift
    <3> QED
      BY <3>1 DEF G!Combinations
  <2>5. pad_current_gamepad' = <<"X">> =>
           G!Combinations = {} /\ pad_current_gamepad = <<"X">>
    BY <2>1, <2>3
  <2>6. control_x' \in {"none", "stick", "keyboard"}
        /\ (control_x' = "stick" => stick \/ (~sys_js_active
                                  /\ program = "mujoco" /\ control_x = "stick"))
    BY <2>1 DEF G!Velocity, G!TypeOK
  <2>7. G!TypeOK'
    BY <2>1, <2>2, <2>6 DEF G!TypeOK
  <2>8. TurnInv' /\ LookInv' /\ AskInv'
    BY <2>1, <2>4, <2>5 DEF TurnInv, LookInv, AskInv, G!RealRobots
  <2>9. PressInv'
    <3>1. /\ InReading' = 0 /\ InInput' \in {0, 1} /\ InInput \in {0, 1}
          /\ InReading = 0
          /\ InInput' = 1 => InInput = 1
      BY <2>1, <2>5 DEF InReading, InInput
    <3>2. InInput' <= InInput
      BY <3>1
    <3>3. program = "mujoco" => InInput <= unanswered
      BY <3>1 DEF PressInv
    <3>4. program = "mujoco" => InInput' <= unanswered
      BY <1>2, <3>1, <3>2, <3>3
    <3>5. program = "mujoco" => InReading' + InInput' <= unanswered
      BY <3>1, <3>4
    <3> QED
      BY <2>1, <3>5, Zenon DEF PressInv
  <2>10. VelocityInv'
    BY <2>1, <2>2, <2>6 DEF VelocityInv
  <2> QED
    BY <2>1, <2>7, <2>8, <2>9, <2>10
<1> QED
  BY <1>3, <1>4

\* The control thread adds to the velocity ...
LEMMA AddingKeeps ==
    ASSUME G!GamepadAssumption, PadInv, G!ReadVelocity \/ G!WriteVelocity
    PROVE  PadInv'
<1> USE DEF PadInv
<1>1. /\ UNCHANGED <<program, held, events, stick, reader, asked, pressed,
                     on_press, sys_js_active, pad_current_gamepad,
                     pad_navigation_mode, unanswered, kept, pad_overlapped>>
  BY DEF G!ReadVelocity, G!WriteVelocity, G!gamepad, G!reading
<1>2. /\ pad_control' \in {"add", "toggle"}
      /\ pad_control \in {"get", "idle", "add"}
      /\ program \in G!RealRobots => reader = "idle" /\ pad_control # "idle"
  <2>1. CASE G!ReadVelocity
    BY <2>1 DEF G!ReadVelocity, G!Begins
  <2>2. CASE G!WriteVelocity
    BY <2>2 DEF G!WriteVelocity, TurnInv
  <2> QED
    BY <2>1, <2>2
<1>3. /\ {control_x', x_read'} \subseteq {"none", "stick", "keyboard"}
      /\ control_x' = "stick" \/ x_read' = "stick" =>
            control_x = "stick" \/ x_read = "stick"
  BY DEF G!ReadVelocity, G!WriteVelocity, G!TypeOK
<1>4. G!TypeOK'
  BY <1>1, <1>2, <1>3 DEF G!TypeOK
<1>5. TurnInv' /\ LookInv' /\ AskInv'
  BY <1>1, <1>2 DEF TurnInv, LookInv, AskInv, G!RealRobots
<1>6. PressInv'
  <2>1. InReading' = InReading /\ InInput' = InInput
    BY <1>1, <1>2 DEF InReading, InInput
  <2> QED
    BY <1>1, <2>1 DEF PressInv
<1>7. VelocityInv'
  BY <1>1, <1>3 DEF VelocityInv
<1> QED
  BY <1>1, <1>4, <1>5, <1>6, <1>7

\* ... and carries out the input.
LEMMA CarryOutKeeps ==
    ASSUME G!GamepadAssumption, PadInv, G!StateController \/ G!ClearInput
    PROVE  PadInv'
<1> USE DEF PadInv
<1>1. UNCHANGED <<program, held, events, stick, reader, asked, pressed, on_press,
                  sys_js_active, control_x, x_read, kept, pad_overlapped>>
  BY DEF G!StateController, G!ClearInput, G!gamepad, G!reading, G!velocity
<1>2. unanswered \in 0 .. 2
  BY DEF G!TypeOK
<1>3. /\ InReading' = InReading /\ InReading \in {0, 1} /\ InInput \in {0, 1}
  BY <1>1 DEF InReading, InInput
<1>4. VelocityInv'
  BY <1>1 DEF VelocityInv
<1>5. CASE G!StateController
  <2>1. /\ pad_control # "clear"
        /\ program \in G!RealRobots => reader = "idle"
        /\ pad_control' = "clear" /\ UNCHANGED pad_current_gamepad
        /\ \/ /\ pad_current_gamepad = <<"X">>
              /\ pad_navigation_mode' = ~pad_navigation_mode
              /\ unanswered' =
                   IF unanswered > 0 THEN unanswered - 1 ELSE 0
           \/ /\ pad_current_gamepad # <<"X">>
              /\ UNCHANGED <<pad_navigation_mode, unanswered>>
    BY <1>5 DEF G!StateController, G!Begins, TurnInv
  <2>2. unanswered' \in 0 .. 2
    BY <1>2, <2>1
  <2>3. pad_navigation_mode' \in BOOLEAN
    <3>1. pad_navigation_mode \in BOOLEAN
      BY DEF G!TypeOK
    <3> QED
      BY <2>1, <3>1, Zenon
  <2>4. G!TypeOK'
    BY <1>1, <2>1, <2>2, <2>3 DEF G!TypeOK
  <2>5. TurnInv' /\ LookInv' /\ AskInv'
    BY <1>1, <2>1 DEF TurnInv, LookInv, AskInv, G!RealRobots
  <2>6. InInput' = 0
    BY <2>1 DEF InInput
  <2>7. program = "mujoco" /\ pad_current_gamepad = <<"X">> => InInput = 1
    BY <2>1 DEF InInput
  <2>8. PressInv'
    BY <1>1, <1>2, <1>3, <2>1, <2>6, <2>7 DEF PressInv
  <2> QED
    BY <1>1, <1>4, <2>4, <2>5, <2>8
<1>6. CASE G!ClearInput
  <2>1. /\ pad_control = "clear" /\ pad_control' = "idle"
        /\ pad_current_gamepad' = <<>>
        /\ UNCHANGED <<pad_navigation_mode, unanswered>>
    BY <1>6 DEF G!ClearInput
  <2>2. pad_current_gamepad' # <<"X">>
    BY <2>1
  <2>3. G!TypeOK'
    BY <1>1, <2>1 DEF G!TypeOK
  <2>4. TurnInv' /\ LookInv' /\ AskInv'
    BY <1>1, <2>1, <2>2 DEF TurnInv, LookInv, AskInv
  <2>5. InInput' = 0 /\ InInput = 0
    BY <2>1, <2>2 DEF InInput
  <2>6. PressInv'
    BY <1>1, <1>3, <2>1, <2>5 DEF PressInv
  <2> QED
    BY <1>1, <1>4, <2>3, <2>4, <2>6
<1> QED
  BY <1>5, <1>6

LEMMA PadNext ==
    ASSUME G!GamepadAssumption, PadInv, [G!Next]_(G!vars)
    PROVE  PadInv'
<1>1. CASE G!Next
  BY <1>1, OperatorKeeps, ReadingKeeps, AskingKeeps, SampleKeeps, SetKeeps,
     AddingKeeps, CarryOutKeeps DEF G!Next
<1>2. CASE UNCHANGED G!vars
  BY <1>2 DEF G!vars, G!gamepad, G!reading, G!velocity, PadInv, G!TypeOK,
     TurnInv, LookInv, AskInv, PressInv, InReading, InInput, VelocityInv
<1> QED
  BY <1>1, <1>2

LEMMA PadSteps == Spec => G!Spec
<1>1. Init => G!Init
  BY DEF Init
<1>2. [Next]_vars => [G!Next]_(G!vars)
  <2>1. UNCHANGED pad_vars => UNCHANGED G!vars
    BY DEF pad_vars, G!vars, G!gamepad, G!reading, G!velocity
  <2>2. UNCHANGED vars => UNCHANGED pad_vars
    BY DEF vars
  <2> QED
    BY <2>1, <2>2, OthersStay DEF Next
<1> QED
  BY <1>1, <1>2, PTL DEF Spec, G!Spec

\* Only the control thread toggles the navigation.
LEMMA TogglesWhere ==
    ASSUME PadInv, G!Next, pad_navigation_mode' # pad_navigation_mode
    PROVE  /\ pad_control # "clear"
           /\ program \in G!RealRobots =>
                 reader = "idle" /\ pad_control # "idle"
           /\ pad_current_gamepad = <<"X">>
<1>1. G!StateController
  BY DEF G!Next, G!Hold, G!MoveStick, G!JoyCallback, G!GetState, G!Look,
     G!GetStateGo2, G!Ask, G!EndAsk, G!GetSysJoystick, G!Sample, G!EndSample,
     G!SetSingle, G!SetCombination, G!ReadVelocity, G!WriteVelocity,
     G!ClearInput
<1> QED
  BY <1>1 DEF G!StateController, G!Begins, PadInv, TurnInv

\* On A1 and G1 LB with X is never carried out as X, nor on Go2 when both were
\* held down all through the reading; in MuJoCo the navigation is toggled once
\* for one press of X, and a velocity of the stick is taken back when the stick
\* is let go, unless the keyboard adds to it meanwhile: for every set of programs
\* and every number of events that may wait.
THEOREM GamepadSafeHolds == Spec => GamepadSafe
<1>1. G!GamepadAssumption
  BY GamepadAssumption
<1>2. G!Init => PadInv
  BY <1>1, PadInit
<1>3. PadInv /\ [G!Next]_(G!vars) => PadInv'
  BY <1>1, PadNext
<1>4. PadInv => G!TypeOK /\ G!NoVelocityLeft
  BY DEF PadInv, VelocityInv, G!NoVelocityLeft
<1>5. PadInv /\ [G!Next]_(G!vars)
        => [pad_navigation_mode' # pad_navigation_mode =>
              /\ program = "a1" => pressed \cap G!Shift = {}
              /\ program = "go2" /\ "X" \in kept
                    => kept \cap G!Shift = {}]_(G!vars)
  <2> SUFFICES ASSUME PadInv, G!Next,
                      pad_navigation_mode' # pad_navigation_mode
               PROVE  /\ program = "a1" => pressed \cap G!Shift = {}
                      /\ program = "go2" /\ "X" \in kept
                            => kept \cap G!Shift = {}
    OBVIOUS
  <2> QED
    BY TogglesWhere DEF PadInv, LookInv, AskInv, G!RealRobots
<1>6. PadInv /\ [G!Next]_(G!vars)
        => [pad_navigation_mode' # pad_navigation_mode /\ program = "mujoco"
              => unanswered > 0]_(G!vars)
  <2> SUFFICES ASSUME PadInv, G!Next, program = "mujoco",
                      pad_navigation_mode' # pad_navigation_mode
               PROVE  unanswered > 0
    OBVIOUS
  <2>1. InInput = 1 /\ InReading \in {0, 1} /\ unanswered \in 0 .. 2
    BY TogglesWhere DEF InInput, InReading, PadInv, G!TypeOK
  <2> QED
    BY <2>1 DEF PadInv, PressInv
<1> QED
  BY <1>2, <1>3, <1>4, <1>5, <1>6, PadSteps, PTL
     DEF G!Spec, GamepadSafe, G!GamepadSafe, G!CombinationWins,
         G!OneToggleForOnePress
=============================================================================
