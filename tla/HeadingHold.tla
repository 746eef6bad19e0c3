---------------------------- MODULE HeadingHold -----------------------------
(***************************************************************************)
(* The outer loop of RunModel that holds the heading of myrobot while it   *)
(* walks straight, in a configuration with yaw_hold_enable.  The velocity  *)
(* command is written by other threads and read several times in a pass.   *)
(*                                                                         *)
(* Angles are numbers of steps, of which HalfTurn make half a turn; the    *)
(* heading and the turning rate of a pass may be any.                      *)
(***************************************************************************)
EXTENDS Integers

CONSTANT HalfTurn

HeadingAssumption == HalfTurn \in Nat \ {0, 1}

VARIABLES
    rl_init_done, yaw_hold_enable,
    x, yaw,                     \* of control, the latter in steps
    rl,                         \* what RunModel does next
    yaw_current, wz,            \* of the pass
    user_turning, forward_moving, cmd_yaw_final,
    yaw_hold_target, yaw_hold_target_initialized,
    steady,                     \* yaw is what it was when the pass began
    origin,                     \* the target is of this entry, or one before
    unseen                      \* the policy thread saw no pause before Enter

episode == <<rl_init_done, yaw_hold_enable, unseen>>
target == <<yaw_hold_target, yaw_hold_target_initialized, origin>>
measured == <<yaw_current, wz>>
pass == <<measured, user_turning, forward_moving, cmd_yaw_final>>

vars == <<episode, target, pass, x, yaw, rl, steady>>

\* Without the gains, which only scale; a command of 2 is a turn, 1 is none.
yaw_hold_user_cmd_deadband == 1
yaw_hold_max_correction == 2
yaw_hold_cmd_limit == 3
Yaws == {-2, 0, 1}

Headings == 1 - HalfTurn .. HalfTurn

Abs(a) == IF a < 0 THEN -a ELSE a
Clamp(a, limit) == IF a > limit THEN limit ELSE IF a < -limit THEN -limit ELSE a

\* The difference of two headings is less than two turns.
WrapToPi(angle) ==
    IF angle > HalfTurn THEN angle - 2 * HalfTurn
    ELSE IF angle < -HalfTurn THEN angle + 2 * HalfTurn
    ELSE angle

Init ==
    /\ rl_init_done = FALSE /\ yaw_hold_enable \in BOOLEAN
    /\ x = 0 /\ yaw = 0
    /\ rl = "idle" /\ yaw_current = 0 /\ wz = 0
    /\ user_turning = FALSE /\ forward_moving = FALSE /\ cmd_yaw_final = 0
    /\ yaw_hold_target = 0 /\ yaw_hold_target_initialized = FALSE
    /\ steady = TRUE /\ origin = "before" /\ unseen = FALSE
-----------------------------------------------------------------------------
(* The other threads.                                                      *)

SetX(v) ==
    /\ x' = v
    /\ UNCHANGED <<episode, target, pass, yaw, rl, steady>>

SetYaw(v) ==
    /\ yaw # v
    /\ yaw' = v
    /\ steady' = (rl = "idle")
    /\ UNCHANGED <<episode, target, pass, x, rl>>

Exit ==
    /\ rl_init_done
    /\ rl_init_done' = FALSE
    /\ unseen' = TRUE
    /\ origin' = "before"
    /\ UNCHANGED <<yaw_hold_enable, yaw_hold_target,
                   yaw_hold_target_initialized, pass, x, yaw, rl, steady>>

\* Enter, which loads a configuration, and the first Run of a state.
Run(enable) ==
    /\ ~rl_init_done
    /\ rl_init_done' = TRUE
    /\ yaw_hold_enable' = enable
    /\ UNCHANGED <<unseen, target, pass, x, yaw, rl, steady>>
-----------------------------------------------------------------------------
(* A pass of the policy thread.                                            *)

\* Mutant: a pause leaves the target.
RunModelOffKeeps ==
    /\ rl = "idle" /\ ~rl_init_done
    /\ unseen' = FALSE
    /\ UNCHANGED <<rl_init_done, yaw_hold_enable, target, pass, x, yaw, rl,
                   steady>>

RunModelOff ==
    /\ rl = "idle" /\ ~rl_init_done
    /\ yaw_hold_target_initialized' = FALSE
    /\ unseen' = FALSE
    /\ UNCHANGED <<rl_init_done, yaw_hold_enable, yaw_hold_target, origin, pass,
                   x, yaw, rl, steady>>

RunModel(heading, rate) ==
    /\ rl = "idle" /\ rl_init_done
    /\ cmd_yaw_final' = yaw
    /\ steady' = TRUE
    /\ IF yaw_hold_enable
       THEN /\ rl' = "turning"
            /\ yaw_current' = heading /\ wz' = rate
            /\ UNCHANGED yaw_hold_target_initialized
       ELSE /\ rl' = "commands"
            /\ yaw_hold_target_initialized' = FALSE
            /\ UNCHANGED measured
    /\ UNCHANGED <<episode, yaw_hold_target, origin, user_turning,
                   forward_moving, x, yaw>>

ReadTurning ==
    /\ rl = "turning"
    /\ rl' = "moving"
    /\ user_turning' = (Abs(yaw) > yaw_hold_user_cmd_deadband)
    /\ UNCHANGED <<episode, target, measured, forward_moving, cmd_yaw_final, x,
                   yaw, steady>>

\* The target follows a robot that turns on command, or does not walk.
ReadMoving ==
    /\ rl = "moving"
    /\ forward_moving' = (x # 0)
    /\ IF ~yaw_hold_target_initialized \/ user_turning \/ x = 0
       THEN /\ yaw_hold_target' = yaw_current
            /\ yaw_hold_target_initialized' = TRUE
            /\ origin' = IF rl_init_done THEN "this" ELSE "before"
       ELSE UNCHANGED target
    /\ rl' = IF ~user_turning /\ x # 0 THEN "correct" ELSE "commands"
    /\ UNCHANGED <<episode, measured, user_turning, cmd_yaw_final, x, yaw,
                   steady>>

Correct ==
    /\ rl = "correct"
    /\ rl' = "commands"
    /\ LET correction == Clamp(WrapToPi(yaw_hold_target - yaw_current) - wz,
                               yaw_hold_max_correction)
       IN  cmd_yaw_final' = Clamp(yaw + correction, yaw_hold_cmd_limit)
    /\ UNCHANGED <<episode, target, measured, user_turning, forward_moving, x,
                   yaw, steady>>

\* obs.commands is set, and the network is run.
Commands ==
    /\ rl = "commands"
    /\ rl' = "idle"
    /\ yaw_current' = 0 /\ wz' = 0 /\ cmd_yaw_final' = 0
    /\ user_turning' = FALSE /\ forward_moving' = FALSE /\ steady' = TRUE
    /\ UNCHANGED <<episode, target, x, yaw>>

Next ==
    \/ \E v \in {0, 1} : SetX(v)
    \/ \E v \in Yaws : SetYaw(v)
    \/ Exit \/ \E enable \in BOOLEAN : Run(enable)
    \/ RunModelOff
    \/ \E heading \in Headings, rate \in {0, 1} : RunModel(heading, rate)
    \/ ReadTurning \/ ReadMoving \/ Correct \/ Commands

Spec == Init /\ [][Next]_vars
-----------------------------------------------------------------------------
\* The variables have values of their types.
TypeOK ==
    /\ rl \in {"idle", "turning", "moving", "correct", "commands"}
    /\ {yaw_current, yaw_hold_target} \subseteq Headings
    /\ Abs(cmd_yaw_final) <= yaw_hold_cmd_limit
    /\ yaw \in Yaws /\ x \in {0, 1} /\ wz \in {0, 1}
    /\ {rl_init_done, yaw_hold_enable, user_turning, forward_moving, steady,
        yaw_hold_target_initialized, unseen} \subseteq BOOLEAN
    /\ origin \in {"this", "before"}

\* How far two headings are apart.
Distance(a, b) ==
    LET d == (a - b) % (2 * HalfTurn)
    IN  IF d > HalfTurn THEN 2 * HalfTurn - d ELSE d

Held == rl = "commands" /\ forward_moving /\ ~user_turning

\* A robot that has come off its heading is turned back to it, the short way
\* round, also over the seam at half a turn.
ShortWay ==
    Held /\ steady /\ yaw = 0 /\ wz = 0 =>
        IF yaw_current = yaw_hold_target THEN cmd_yaw_final = 0
        ELSE \E step \in {-1, 1} :
                /\ step * cmd_yaw_final > 0
                /\ Distance(yaw_current + step, yaw_hold_target)
                     < Distance(yaw_current, yaw_hold_target)

\* The heading that is held is one that the robot had in this state of the
\* machine, and not in an earlier one, unless the policy thread never saw that
\* the state had been left.
HeadingIsOwn ==
    Held /\ rl_init_done /\ origin = "before" => unseen

\* An operator who turns the robot throughout a pass is not corrected.
OperatorWins ==
    rl = "commands" /\ steady /\ Abs(yaw) > yaw_hold_user_cmd_deadband =>
        cmd_yaw_final = yaw

\* The robot is held to a heading of its own, the short way, unless it is turned.
HeadingHoldSafe == TypeOK /\ ShortWay /\ HeadingIsOwn /\ OperatorWins
=============================================================================
