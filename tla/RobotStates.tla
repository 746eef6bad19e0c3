---------------------------- MODULE RobotStates ----------------------------
(***************************************************************************)
(* The state machines of the other robots (fsm_robot/fsm_*.hpp), as data   *)
(* for RobotFSM: what each adds to the states Passive, GetUp and GetDown   *)
(* that they share.  A robot is a record: `crouches', whether GetUp passes *)
(* through pre_running_pos, `ready', the learned state GetUp offers, and   *)
(* `skills', its learned states.  A button is named by the key it doubles. *)
(***************************************************************************)
EXTENDS Sequences

On(k, s) == [key |-> k, to |-> s]

\* The keys that every learned state tests first.
Leave == <<On("P", "Passive"), On("Num9", "GetDown"), On("Num0", "GetUp")>>

\* A learned state: the directory its Enter passes to InitRL, whether that
\* exists under policy/, whether Enter needs a motion file as well, whether
\* Run ends the state with its motion, and the keys of CheckChange.
Skill(config, deployed, file, ends, rules) ==
    [config |-> config, deployed |-> deployed, file |-> file, ends |-> ends,
     rules |-> Leave \o rules]

\* A robot with one learned state, which has no end.
Walker(crouches, config, deployed) ==
    [crouches |-> crouches, ready |-> "RLLocomotion",
     skills |-> [s \in {"RLLocomotion"} |->
         Skill(config, deployed, FALSE, FALSE, <<On("Num1", "RLLocomotion")>>)]]

A1 == Walker(TRUE, "legged_gym", TRUE)
B2 == Walker(TRUE, "robot_lab", TRUE)
B2W == Walker(TRUE, "robot_lab", TRUE)
Go2 == Walker(TRUE, "himloco", TRUE)
Go2W == Walker(TRUE, "robot_lab", TRUE)
L4W4 == Walker(TRUE, "legged_gym", FALSE)
Lite3 == Walker(TRUE, "himloco", FALSE)
Tita == Walker(TRUE, "robot_lab", FALSE)
GR1T1 == Walker(FALSE, "legged_gym", TRUE)
GR1T2 == Walker(FALSE, "legged_gym", TRUE)

Home == "RLRoboMimicLocomotion"

RoboMimicLocomotion ==
    Skill("robomimic/locomotion", TRUE, FALSE, FALSE,
          <<On("Num1", Home),
            On("Num2", "RLRoboMimicCharleston"),
            On("Num3", "RLWholeBodyTrackingDance102"),
            On("Num4", "RLWholeBodyTrackingGangnamStyle")>>)

RoboMimicCharleston ==
    Skill("robomimic/charleston", TRUE, FALSE, TRUE, <<On("Num1", Home)>>)

\* The state that Num1 names is one of the other robots, not of this one.
WholeBodyTrackingDance102 ==
    Skill("whole_body_tracking/dance_102", TRUE, TRUE, TRUE,
          <<On("Num1", "RLLocomotion")>>)

WholeBodyTrackingGangnamStyle ==
    Skill("whole_body_tracking/gangnam_style", TRUE, TRUE, TRUE,
          <<On("Num1", Home)>>)

G1 == [crouches |-> FALSE, ready |-> Home,
       skills |-> [RLRoboMimicLocomotion |-> RoboMimicLocomotion,
                   RLRoboMimicCharleston |-> RoboMimicCharleston,
                   RLWholeBodyTrackingDance102 |-> WholeBodyTrackingDance102,
                   RLWholeBodyTrackingGangnamStyle |->
                       WholeBodyTrackingGangnamStyle]]

Fleet == [a1 |-> A1, b2 |-> B2, b2w |-> B2W, go2 |-> Go2, go2w |-> Go2W,
          l4w4 |-> L4W4, lite3 |-> Lite3, tita |-> Tita, gr1t1 |-> GR1T1,
          gr1t2 |-> GR1T2, g1 |-> G1]

Basic == {"Passive", "GetUp", "GetDown"}

\* GetSupportedStates of a robot, and of all of them.
StatesOf(r) == Basic \cup DOMAIN Fleet[r].skills
State == UNION {StatesOf(r) : r \in DOMAIN Fleet}

Key == {"Num0", "Num1", "Num2", "Num3", "Num4", "Num9", "P"}
=============================================================================
