---------------------------- MODULE Orientation -----------------------------
(***************************************************************************)
(* The orientations that a policy observes: gravity in the frame of the    *)
(* body, the pose of the root without its heading, and the orientation of  *)
(* a reference motion in the frame of the robot's torso, after             *)
(* MotionLoader::Reset has turned the motion to the heading of the robot   *)
(* (vector_math.hpp, motion_loader.cpp and the terms of RL::Compute-       *)
(* Observation).                                                           *)
(*                                                                         *)
(* The robot and the motion turn by quarters about their axes.  A unit     *)
(* quaternion of such a turn is written as the shortest vector of integers *)
(* in its direction, <<1, 0, 0, 1>> for a quarter about z, so that every   *)
(* formula is exact; one of the code that is of second degree in q is      *)
(* divided by Norm2(q).  Angles are numbers of quarter turns.              *)
(***************************************************************************)
EXTENDS Integers, Sequences

CONSTANTS
    Waists,             \* the angles of the waists, in quarters
    MotionFrames        \* the frames of the motions

VARIABLES
    base_quat, waist,   \* of the robot; waist is <<yaw, roll, pitch>>
    frame,              \* of the motion: its root_quat and its waist angles
    world_to_init_,
    aligned             \* nothing has moved since Reset

vars == <<base_quat, waist, frame, world_to_init_, aligned>>

\* The quaternions of quarter turns.
Norm2(q) == q[1] * q[1] + (q[2] * q[2] + q[3] * q[3] + q[4] * q[4])
Unit(q) == q \in [1 .. 4 -> -1 .. 1] /\ Norm2(q) \in {1, 2, 4}

OrientationAssumption ==
    /\ Waists \subseteq [1 .. 3 -> -1 .. 1] /\ <<0, 0, 0>> \in Waists
    /\ \A f \in MotionFrames : Unit(f.root) /\ f.waist \in [1 .. 3 -> -1 .. 1]

One == <<1, 0, 0, 0>>
AxisX == <<1, 0, 0>>
AxisY == <<0, 1, 0>>
AxisZ == <<0, 0, 1>>
-----------------------------------------------------------------------------
(* Vectors and matrices; a matrix is a sequence of nine, row by row.       *)

Dot(a, b) == a[1] * b[1] + a[2] * b[2] + a[3] * b[3]
Cross(a, b) == <<a[2] * b[3] - a[3] * b[2], a[3] * b[1] - a[1] * b[3],
                 a[1] * b[2] - a[2] * b[1]>>
Imag(q) == Tail(q)

QuaternionNormalize(q) ==
    LET g == CHOOSE g \in {4, 2, 1} :
                 /\ \A i \in 1 .. 4 : q[i] % g = 0
                 /\ \A h \in {4, 2, 1} : (\A i \in 1 .. 4 : q[i] % h = 0) => h <= g
    IN  [i \in 1 .. 4 |-> q[i] \div g]

QuaternionMultiply(p, q) ==
    LET v == Cross(Imag(p), Imag(q))
    IN  QuaternionNormalize(
            <<p[1] * q[1] - Dot(Imag(p), Imag(q))>>
              \o [i \in 1 .. 3 |-> p[1] * q[i + 1] + p[i + 1] * q[1] + v[i]])

QuaternionConjugate(q) == <<q[1], -q[2], -q[3], -q[4]>>

QuaternionFromAxisAngle(axis, quarters) ==
    IF quarters = 0 THEN One ELSE <<1>> \o [i \in 1 .. 3 |-> quarters * axis[i]]

QuatRotateInverse(q, v) ==
    LET c == Cross(Imag(q), v)
    IN  [i \in 1 .. 3 |->
            (v[i] * (2 * q[1] * q[1] - Norm2(q)) - 2 * c[i] * q[1]
               + 2 * q[i + 1] * Dot(Imag(q), v)) \div Norm2(q)]

QuatApply(q, v) ==
    LET t == Cross(Imag(q), v)
        u == Cross(Imag(q), t)
    IN  [i \in 1 .. 3 |-> v[i] + (2 * (q[1] * t[i] + u[i])) \div Norm2(q)]

QuaternionToRotationMatrix(q) ==
    LET w == q[1]  x == q[2]  y == q[3]  z == q[4]  n == Norm2(q)
        Two(a) == (2 * a) \div n
    IN  <<1 - Two(y*y + z*z), Two(x*y - w*z), Two(x*z + w*y),
          Two(x*y + w*z), 1 - Two(x*x + z*z), Two(y*z - w*x),
          Two(x*z - w*y), Two(y*z + w*x), 1 - Two(x*x + y*y)>>

\* By the largest of w, x, y and z; each times s, the square root taken of it.
RotationMatrixToQuaternion(m) ==
    QuaternionNormalize(
        IF m[1] + m[5] + m[9] > 0
        THEN <<1 + m[1] + m[5] + m[9], m[8] - m[6], m[3] - m[7], m[4] - m[2]>>
        ELSE IF m[1] > m[5] /\ m[1] > m[9]
        THEN <<m[8] - m[6], 1 + m[1] - m[5] - m[9], m[2] + m[4], m[3] + m[7]>>
        ELSE IF m[5] > m[9]
        THEN <<m[3] - m[7], m[2] + m[4], 1 + m[5] - m[1] - m[9], m[6] + m[8]>>
        ELSE <<m[4] - m[2], m[3] + m[7], m[6] + m[8], 1 + m[9] - m[1] - m[5]>>)

TangentNormal6DToQuaternion(six) ==
    LET t == SubSeq(six, 1, 3)
        n == SubSeq(six, 4, 6)
        b == Cross(n, t)
    IN  RotationMatrixToQuaternion(<<t[1], b[1], n[1], t[2], b[2], n[2],
                                     t[3], b[3], n[3]>>)

MatrixFirstTwoColumns(m) == <<m[1], m[2], m[4], m[5], m[7], m[8]>>

\* By the sine and the cosine of the heading; 0 when the x axis is vertical,
\* where both are zero.
QuaternionYawOnly(q) ==
    LET siny_cosp == 2 * (q[1] * q[4] + q[2] * q[3])
        cosy_cosp == Norm2(q) - 2 * (q[3] * q[3] + q[4] * q[4])
    IN  IF siny_cosp > 0 THEN <<1, 0, 0, 1>>
        ELSE IF siny_cosp < 0 THEN <<1, 0, 0, -1>>
        ELSE IF cosy_cosp < 0 THEN <<0, 0, 0, 1>>
        ELSE One
-----------------------------------------------------------------------------
(* The motion and the terms of the observation.                            *)

ComputeTorsoQuat(base, angles) ==
    LET Turned(q, axis, i) ==
            QuaternionMultiply(q, QuaternionFromAxisAngle(axis, angles[i]))
    IN  Turned(Turned(Turned(base, AxisZ, 1), AxisX, 2), AxisY, 3)

GetAnchorQuat(f) == ComputeTorsoQuat(f.root, f.waist)

ComputeYawAlignment(robot, motion) ==
    QuaternionMultiply(QuaternionYawOnly(robot),
                       QuaternionConjugate(QuaternionYawOnly(motion)))

\* Without root_rot_6d_swap_xy, which no configuration turns on.
ComputeHeadinglessRootRot6D(q) ==
    LET tilt == QuaternionMultiply(QuaternionConjugate(QuaternionYawOnly(q)), q)
    IN  QuatApply(tilt, AxisX) \o QuatApply(tilt, AxisZ)

gravity_vec(base) == QuatRotateInverse(base, <<0, 0, -1>>)

\* Mutant: the factors are swapped.
AnchorOriSwapped(torso, reference) ==
    MatrixFirstTwoColumns(QuaternionToRotationMatrix(
        QuaternionMultiply(reference, QuaternionConjugate(torso))))

\* What motion_anchor_ori_b and mjlab/motion_anchor_ori_b share.
AnchorOri(torso, reference) ==
    MatrixFirstTwoColumns(QuaternionToRotationMatrix(
        QuaternionMultiply(QuaternionConjugate(torso), reference)))

motion_anchor_ori_b(base, angles, init, f) ==
    AnchorOri(ComputeTorsoQuat(base, angles),
              QuaternionMultiply(init, GetAnchorQuat(f)))
-----------------------------------------------------------------------------
Init ==
    /\ base_quat = One /\ waist = <<0, 0, 0>>
    /\ frame \in MotionFrames
    /\ world_to_init_ = One
    /\ aligned = FALSE

\* The robot turns about one of its axes, or moves its waist ...
Turn(axis, quarters) ==
    /\ base_quat' = QuaternionMultiply(base_quat,
                                       QuaternionFromAxisAngle(axis, quarters))
    /\ aligned' = FALSE
    /\ UNCHANGED <<waist, frame, world_to_init_>>

MoveWaist(angles) ==
    /\ waist' = angles
    /\ aligned' = FALSE
    /\ UNCHANGED <<base_quat, frame, world_to_init_>>

\* ... Enter loads a motion and turns it to the heading of the robot ...
Reset(first) ==
    /\ frame' = first
    /\ world_to_init_' = ComputeYawAlignment(ComputeTorsoQuat(base_quat, waist),
                                             GetAnchorQuat(first))
    /\ aligned' = TRUE
    /\ UNCHANGED <<base_quat, waist>>

\* ... and Run moves on in it.
Update(f) ==
    /\ frame' = f
    /\ aligned' = FALSE
    /\ UNCHANGED <<base_quat, waist, world_to_init_>>

Next ==
    \/ \E axis \in {AxisX, AxisY, AxisZ}, quarters \in {-1, 1} :
          Turn(axis, quarters)
    \/ \E angles \in Waists : MoveWaist(angles)
    \/ \E f \in MotionFrames : Reset(f) \/ Update(f)

Spec == Init /\ [][Next]_vars
-----------------------------------------------------------------------------
\* Every orientation is one of quarter turns.
TypeOK ==
    /\ Unit(base_quat) /\ Unit(world_to_init_)
    /\ waist \in Waists /\ frame \in MotionFrames /\ aligned \in BOOLEAN

Headings == {One, <<1, 0, 0, 1>>, <<0, 0, 0, 1>>, <<1, 0, 0, -1>>}
Vertical(q) == QuatApply(q, AxisX) \in {AxisZ, <<0, 0, -1>>}

\* The gravity that a policy observes is the one that, turned by the attitude of
\* the robot, points down: it is in the frame of the body, and no heading of the
\* robot changes it.
GravityInBody ==
    /\ QuatApply(base_quat, gravity_vec(base_quat)) = <<0, 0, -1>>
    /\ \A h \in Headings :
          gravity_vec(QuaternionMultiply(h, base_quat)) = gravity_vec(base_quat)

\* The heading of the robot is gone from the root pose that the dance observes:
\* robots of the same tilt observe the same, whatever way they face.  (Not with
\* the x axis vertical, where there is no heading and the code takes off none.)
HeadingRemoved ==
    ~Vertical(base_quat) =>
        \A h \in Headings :
            ComputeHeadinglessRootRot6D(QuaternionMultiply(h, base_quat))
              = ComputeHeadinglessRootRot6D(base_quat)

\* From the six numbers of a row of ampobs.csv that has no quaternion, the
\* simulation recovers the attitude they were computed from, up to its heading.
TiltRecovered ==
    LET six == ComputeHeadinglessRootRot6D(base_quat)
        q == TangentNormal6DToQuaternion(six)
    IN  /\ QuatApply(q, AxisX) \o QuatApply(q, AxisZ) = six
        /\ gravity_vec(q) = gravity_vec(base_quat)

\* When a motion starts, its torso faces the way the robot's does, whatever way
\* the motion was recorded and however the waists are turned.
StartsAligned ==
    LET torso == ComputeTorsoQuat(base_quat, waist)
        anchor == GetAnchorQuat(frame)
    IN  aligned /\ ~Vertical(torso) /\ ~Vertical(anchor) =>
            QuaternionYawOnly(QuaternionMultiply(world_to_init_, anchor))
              = QuaternionYawOnly(torso)

\* What is observed of the motion is where it is from the robot: a robot that
\* faces another way, in a motion that was turned with it, observes the same;
\* and with the torso of the motion it observes no turn at all.
AnchorIsRelative ==
    /\ \A h \in Headings :
          motion_anchor_ori_b(QuaternionMultiply(h, base_quat), waist,
                              QuaternionMultiply(h, world_to_init_), frame)
            = motion_anchor_ori_b(base_quat, waist, world_to_init_, frame)
    /\ AnchorOri(base_quat, base_quat) = <<1, 0, 0, 1, 0, 0>>

\* Every orientation that is observed is the physical one, whatever the attitude.
OrientationSafe ==
    /\ TypeOK
    /\ GravityInBody /\ HeadingRemoved /\ TiltRecovered
    /\ StartsAligned /\ AnchorIsRelative
=============================================================================
