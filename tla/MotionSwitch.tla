---------------------------- MODULE MotionSwitch ----------------------------
(***************************************************************************)
(* How the programs of Go2 and G1 take the motors over.  The robot comes   *)
(* up with a motion service of its own that drives the motors; the         *)
(* constructor asks for it (CheckMode) and stops it (ReleaseMode), over a  *)
(* network, until it finds none, and starts its loops.  Nothing looks      *)
(* again later, and no loop waits for a first state of the robot.          *)
(***************************************************************************)
EXTENDS Naturals

CONSTANTS
    Robots,         \* of "go2" and "g1"
    MaxFailures     \* bound: calls that fail

SwitchAssumption == MaxFailures \in Nat

VARIABLES
    robot,
    service,        \* the motion service is active
    named,          \* the program has the name of an active service
    pc,             \* "check", "release" or "loops"
    failures,       \* calls that failed
    \* history
    answered,       \* the last CheckMode was
    checks          \* up to 2

vars == <<robot, service, named, pc, failures, answered, checks>>

Init ==
    /\ robot \in Robots
    /\ service \in BOOLEAN
    /\ named = FALSE
    /\ pc = "check"
    /\ failures = 0
    /\ answered = FALSE /\ checks = 0
-----------------------------------------------------------------------------
\* Mutant: G1 forgets the name as well.
NameForgotten == FALSE

\* A call that fails leaves the name as it is: empty on Go2, where it is a local
\* of QueryMotionStatus; that of the call before on G1.
NameAfterFailure == IF robot = "go2" THEN FALSE ELSE named

Fails(call_fails) ==
    /\ call_fails => failures < MaxFailures
    /\ failures' = IF call_fails THEN failures + 1 ELSE failures

\* The failure of a call is printed, at most.
CheckMode(ok) ==
    /\ pc = "check" /\ Fails(~ok)
    /\ named' = IF ok THEN service ELSE NameAfterFailure
    /\ pc' = IF named' THEN "release" ELSE "loops"
    /\ answered' = ok
    /\ checks' = IF checks < 2 THEN checks + 1 ELSE checks
    /\ UNCHANGED <<robot, service>>

\* A call whose answer is lost may have been carried out.
ReleaseMode(done) ==
    /\ pc = "release" /\ Fails(~done)
    /\ service' = (service /\ ~done)
    /\ pc' = "check"
    /\ UNCHANGED <<robot, named, answered, checks>>

Next == \E ok \in BOOLEAN : CheckMode(ok) \/ ReleaseMode(ok)

Spec == Init /\ [][Next]_vars

\* The program does not stop by itself.
FairSpec == Spec /\ WF_vars(Next)
-----------------------------------------------------------------------------
TypeOK ==
    /\ robot \in Robots
    /\ {service, named, answered} \subseteq BOOLEAN
    /\ pc \in {"check", "release", "loops"}
    /\ failures \in 0 .. MaxFailures /\ checks \in 0 .. 2

\* The loops of the program and the motion service drive the motors together
\* only when the last CheckMode failed, and on G1 only when it was the only one.
StartsReleased ==
    pc = "loops" /\ service => ~answered /\ (robot = "g1" => checks = 1)

\* The program comes to its loops when the calls do not fail for ever.
HandoverEnds == <>(pc = "loops")

\* The motors are driven by one program.
MotionSwitchSafe == TypeOK /\ StartsReleased
=============================================================================
