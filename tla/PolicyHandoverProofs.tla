------------------------ MODULE PolicyHandoverProofs ------------------------
(***************************************************************************)
(* Proofs about PolicyHandover for every set of policies and all bounds.   *)
(***************************************************************************)
EXTENDS PolicyHandover, TLAPS

(***************************************************************************)
(* The mutex of the model.                                                 *)
(***************************************************************************)

\* The holder of the mutex is in the middle of its critical section.
MutexInv ==
    /\ rl = "infer" <=> model_mutex = "rl"
    /\ control = "init" <=> model_mutex = "control"

\* MutexInv holds in the initial states.
LEMMA MutexInit == Init => MutexInv
  BY DEF Init, MutexInv

\* MutexInv is preserved by every step of the two threads.
LEMMA MutexNext == MutexInv /\ [Next]_vars => MutexInv'
<1> SUFFICES ASSUME MutexInv, [Next]_vars PROVE MutexInv'
  OBVIOUS
<1> USE DEF MutexInv, shared, blend, policyThread, Step, RlStep
<1>1. CASE EnterReset
  BY <1>1 DEF EnterReset
<1>2. CASE DrainPos \/ DrainVel \/ DrainTau
  BY <1>2 DEF DrainPos, DrainVel, DrainTau
<1>3. ASSUME NEW p \in Policy, SetConfig(p) PROVE MutexInv'
  BY <1>3 DEF SetConfig
<1>4. CASE LockModel
  BY <1>4 DEF LockModel
<1>5. CASE InitRL \/ InitRLThrows
  BY <1>5 DEF InitRL, InitRLThrows
<1>6. CASE RunSwitches \/ Run
  BY <1>6 DEF RunSwitches, Run
<1>7. CASE PopPos
  BY <1>7 DEF PopPos
<1>8. CASE PopVelAndApply
  BY <1>8 DEF PopVelAndApply
<1>9. CASE KeepState \/ AutoExit \/ LeaveByKey \/ Exit
  BY <1>9 DEF KeepState, AutoExit, LeaveByKey, Exit
<1>10. CASE RlCheck \/ ReadCount \/ WriteCount
  BY <1>10 DEF RlCheck, ReadCount, WriteCount
<1>11. CASE TryLock \/ UsePreviousActions
  BY <1>11 DEF TryLock, UsePreviousActions
<1>12. CASE Infer \/ InferThrows
  BY <1>12 DEF Infer, InferThrows
<1>13. CASE PushPos \/ PushVel \/ PushTau
  BY <1>13 DEF PushPos, PushVel, PushTau
<1>14. CASE UNCHANGED vars
  BY <1>14 DEF vars
<1> QED
  BY <1>1, <1>2, <1>3, <1>4, <1>5, <1>6, <1>7, <1>8, <1>9, <1>10, <1>11,
     <1>12, <1>13, <1>14 DEF Next, Control, RunModel

\* Every state the two threads reach satisfies MutexInv.
LEMMA MutexHolds == Spec => []MutexInv
  BY MutexInit, MutexNext, PTL DEF Spec

\* Only InitRL replaces the model, with the mutex held.
LEMMA OnlyInitRLLoads ==
    [Next]_vars /\ model' # model => control = "init"
<1> SUFFICES ASSUME [Next]_vars, model' # model PROVE control = "init"
  OBVIOUS
<1> USE DEF shared, blend, policyThread, Step, RlStep
<1>1. CASE UNCHANGED vars
  BY <1>1 DEF vars
<1>2. CASE RunModel
  BY <1>2 DEF RunModel, RlCheck, ReadCount, WriteCount, TryLock,
     UsePreviousActions, Infer, InferThrows, PushPos, PushVel, PushTau
<1>3. CASE Control
  BY <1>3 DEF Control, EnterReset, DrainPos, DrainVel, DrainTau, SetConfig,
     LockModel, InitRL, InitRLThrows, RunSwitches, Run, PopPos,
     PopVelAndApply, KeepState, AutoExit, LeaveByKey, Exit
<1> QED
  BY <1>1, <1>2, <1>3 DEF Next

\* The model is never replaced while Forward calls it, whatever the policies
\* and however the two threads interleave.
THEOREM ModelStaysDuringInference == Spec => NoSwapDuringInference
<1>1. MutexInv /\ [Next]_vars => [rl = "infer" => model' = model]_vars
  BY OnlyInitRLLoads DEF MutexInv
<1> QED
  BY <1>1, MutexHolds, PTL DEF Spec, NoSwapDuringInference

(***************************************************************************)
(* The frames of an earlier session.                                       *)
(***************************************************************************)

AnyFrame == [age : Int, fresh : BOOLEAN, by : Policy \cup {NoModel}]

\* What the proof needs to know of the types; the ages may be any.
Types ==
    /\ config_name \in Policy
    /\ model \in Policy \cup {NoModel}
    /\ actions \in Policy \cup {NoModel}
    /\ output_dof_pos_queue \in Seq(AnyFrame)
    /\ output_dof_vel_queue \in Seq(AnyFrame)
    /\ frame \in AnyFrame
    /\ stale_pos \in Nat
    /\ stale_vel \in Nat

\* Of the frames of an earlier session at most one is left: popped (n), queued
\* (in q) or still to be pushed (flying).
Once(q, n, flying) ==
    /\ n <= 1
    /\ flying => n = 0
    /\ \A i \in DOMAIN q : ~q[i].fresh => n = 0 /\ ~flying
    /\ \A i, j \in DOMAIN q : ~q[i].fresh /\ ~q[j].fresh => i = j

\* The pass under way began in an earlier session and has not pushed yet.
PosFlying ==
    ~frame.fresh /\ rl \in {"read", "write", "forward", "infer", "push_pos"}
VelFlying == PosFlying \/ (~frame.fresh /\ rl = "push_vel")

\* Until Enter has drained a queue nothing is popped; from then on Once holds.
StaleInv ==
    /\ Types
    /\ IF control = "drain_pos" THEN stale_pos = 0
       ELSE Once(output_dof_pos_queue, stale_pos, PosFlying)
    /\ IF control \in {"drain_pos", "drain_vel"} THEN stale_vel = 0
       ELSE Once(output_dof_vel_queue, stale_vel, VelFlying)

\* The frame in flight is queued.
LEMMA OncePush ==
    ASSUME NEW q \in Seq(AnyFrame), NEW f \in AnyFrame, NEW n \in Nat,
           Once(q, n, ~f.fresh)
    PROVE  Once(Append(q, f), n, FALSE)
<1>1. /\ Append(q, f) \in Seq(AnyFrame)
      /\ DOMAIN Append(q, f) = 1 .. Len(q) + 1
      /\ \A i \in 1 .. Len(q) : i \in DOMAIN q /\ Append(q, f)[i] = q[i]
      /\ Append(q, f)[Len(q) + 1] = f
  OBVIOUS
<1>2. Len(q) \in Nat
  OBVIOUS
<1> QED
  BY <1>1, <1>2 DEF Once

\* The oldest frame is popped, and counted when it is of an earlier session.
LEMMA OncePop ==
    ASSUME NEW q \in Seq(AnyFrame), NEW n \in Nat, NEW flying \in BOOLEAN,
           Once(q, n, flying), q # <<>>
    PROVE  Once(Tail(q), IF Head(q).fresh THEN n ELSE n + 1, flying)
<1>1. /\ Tail(q) \in Seq(AnyFrame)
      /\ DOMAIN Tail(q) = 1 .. Len(q) - 1
      /\ \A i \in 1 .. Len(q) - 1 : i + 1 \in DOMAIN q /\ Tail(q)[i] = q[i + 1]
      /\ Head(q) = q[1]
      /\ 1 \in DOMAIN q
  OBVIOUS
<1>2. Len(q) \in Nat
  OBVIOUS
<1> QED
  BY <1>1, <1>2 DEF Once

\* Beginning another pass changes the age of a queued frame, not its session.
LEMMA EachAged ==
    ASSUME NEW q \in Seq(AnyFrame), NEW n \in Nat, NEW flying \in BOOLEAN
    PROVE  /\ Each(Aged, q) \in Seq(AnyFrame)
           /\ Once(q, n, flying) => Once(Each(Aged, q), n, flying)
<1>1. ASSUME NEW f \in AnyFrame
      PROVE  Aged(f) \in AnyFrame /\ Aged(f).fresh = f.fresh
  BY <1>1 DEF Aged, AnyFrame, Hold, Nothing
<1>2. /\ DOMAIN q = 1 .. Len(q)
      /\ Len(q) \in Nat
      /\ \A i \in DOMAIN q : q[i] \in AnyFrame
  OBVIOUS
<1>3. Each(Aged, q) \in [1 .. Len(q) -> AnyFrame]
  BY <1>1, <1>2 DEF Each
<1>4. Each(Aged, q) \in Seq(AnyFrame)
  BY <1>2, <1>3
<1>5. /\ DOMAIN Each(Aged, q) = DOMAIN q
      /\ \A i \in DOMAIN q : Each(Aged, q)[i].fresh = q[i].fresh
  BY <1>1, <1>2 DEF Each
<1> QED
  BY <1>4, <1>5 DEF Once

\* A session begins: every frame becomes one of an earlier session.
LEMMA EachOld ==
    ASSUME NEW q \in Seq(AnyFrame) PROVE Each(Old, q) \in Seq(AnyFrame)
<1>1. ASSUME NEW f \in AnyFrame PROVE Old(f) \in AnyFrame
  BY <1>1 DEF Old, AnyFrame
<1>2. DOMAIN q = 1 .. Len(q) /\ Len(q) \in Nat /\ \A i \in DOMAIN q : q[i] \in AnyFrame
  OBVIOUS
<1>3. Each(Old, q) \in [1 .. Len(q) -> AnyFrame]
  BY <1>1, <1>2 DEF Each
<1> QED
  BY <1>2, <1>3

\* StaleInv holds in the initial states.
LEMMA StaleInit == Init => StaleInv
<1> SUFFICES ASSUME Init PROVE StaleInv
  OBVIOUS
<1>1. Types
  BY HandoverAssumption DEF Init, Types, AnyFrame
<1>2. Once(<<>>, 0, PosFlying) /\ Once(<<>>, 0, VelFlying)
  BY DEF Once
<1> QED
  BY <1>1, <1>2 DEF Init, StaleInv

\* A step that changes no queue, no count and no phase of these is harmless.
LEMMA StaleKept ==
    ASSUME StaleInv, Types',
           UNCHANGED <<output_dof_pos_queue, output_dof_vel_queue,
                       stale_pos, stale_vel>>,
           PosFlying' = PosFlying, VelFlying' = VelFlying,
           control' = control \/ control' \notin {"drain_pos", "drain_vel"},
           control \in {"drain_pos", "drain_vel"} => control' = control
    PROVE  StaleInv'
  BY DEF StaleInv

\* The steps of the control thread preserve StaleInv.
LEMMA StaleControl == StaleInv /\ Control => StaleInv'
<1> SUFFICES ASSUME StaleInv, Control PROVE StaleInv'
  OBVIOUS
<1> USE DEF shared, blend, policyThread, history, outputs, Step
<1>1. CASE EnterReset
  <2>1. frame' \in AnyFrame
    BY <1>1 DEF EnterReset, Old, StaleInv, Types, AnyFrame
  <2>2. /\ output_dof_pos_queue' \in Seq(AnyFrame)
        /\ output_dof_vel_queue' \in Seq(AnyFrame)
    BY <1>1, EachOld DEF EnterReset, StaleInv, Types
  <2>3. /\ control' = "drain_pos" /\ stale_pos' = 0 /\ stale_vel' = 0
        /\ UNCHANGED <<config_name, model, actions>>
    BY <1>1 DEF EnterReset
  <2> QED
    BY <2>1, <2>2, <2>3 DEF StaleInv, Types
<1>2. CASE DrainPos
  <2>1. /\ UNCHANGED <<config_name, model, actions, frame, rl,
                       output_dof_vel_queue, stale_pos, stale_vel>>
        /\ output_dof_pos_queue' = <<>>
        /\ control = "drain_pos" /\ control' = "drain_vel"
    BY <1>2 DEF DrainPos
  <2>2. Types'
    <3>1. <<>> \in Seq(AnyFrame)
      OBVIOUS
    <3> QED
      BY <2>1, <3>1 DEF StaleInv, Types
  <2>3. Once(<<>>, 0, PosFlying)
    BY DEF Once
  <2>4. PosFlying' = PosFlying
    BY <2>1 DEF PosFlying
  <2> QED
    BY <2>1, <2>2, <2>3, <2>4 DEF StaleInv
<1>3. CASE DrainVel
  <2>1. /\ UNCHANGED <<config_name, model, actions, frame, rl,
                       output_dof_pos_queue, stale_pos, stale_vel>>
        /\ output_dof_vel_queue' = <<>>
        /\ control = "drain_vel" /\ control' = "drain_tau"
    BY <1>3 DEF DrainVel
  <2>2. Types'
    <3>1. <<>> \in Seq(AnyFrame)
      OBVIOUS
    <3> QED
      BY <2>1, <3>1 DEF StaleInv, Types
  <2>3. Once(<<>>, 0, VelFlying)
    BY DEF Once
  <2>4. PosFlying' = PosFlying /\ VelFlying' = VelFlying
    BY <2>1 DEF PosFlying, VelFlying
  <2> QED
    BY <2>1, <2>2, <2>3, <2>4 DEF StaleInv
<1>4. CASE DrainTau
  BY <1>4, StaleKept DEF DrainTau, StaleInv, Types, PosFlying, VelFlying
<1>5. ASSUME NEW p \in Policy, SetConfig(p) PROVE StaleInv'
  BY <1>5, StaleKept DEF SetConfig, StaleInv, Types, PosFlying, VelFlying
<1>6. CASE LockModel
  BY <1>6, StaleKept DEF LockModel, StaleInv, Types, PosFlying, VelFlying
<1>7. CASE InitRL
  BY <1>7, StaleKept DEF InitRL, StaleInv, Types, PosFlying, VelFlying
<1>8. CASE InitRLThrows
  BY <1>8, StaleKept DEF InitRLThrows, StaleInv, Types, PosFlying, VelFlying
<1>9. CASE RunSwitches
  BY <1>9, StaleKept DEF RunSwitches, StaleInv, Types, PosFlying, VelFlying
<1>10. CASE Run
  BY <1>10, StaleKept DEF Run, StaleInv, Types, PosFlying, VelFlying
<1>11. CASE PopPos
  <2> DEFINE q == output_dof_pos_queue
  <2>1. CASE q = <<>>
    BY <1>11, <2>1, StaleKept DEF PopPos, StaleInv, Types, PosFlying, VelFlying
  <2>2. CASE q # <<>>
    <3>1. /\ q \in Seq(AnyFrame) /\ stale_pos \in Nat
          /\ PosFlying \in BOOLEAN
          /\ Once(q, stale_pos, PosFlying)
      BY <1>11 DEF PopPos, StaleInv, Types, PosFlying
    <3>2. Once(Tail(q), IF Head(q).fresh THEN stale_pos ELSE stale_pos + 1,
               PosFlying)
      BY <3>1, <2>2, OncePop
    <3>3. /\ output_dof_pos_queue' = Tail(q)
          /\ stale_pos' = IF Head(q).fresh THEN stale_pos ELSE stale_pos + 1
          /\ PosFlying' = PosFlying /\ VelFlying' = VelFlying
          /\ UNCHANGED <<output_dof_vel_queue, stale_vel>>
          /\ control = "pop_pos" /\ control' = "pop_vel"
      BY <1>11, <2>2 DEF PopPos, PosFlying, VelFlying
    <3>4. Tail(q) \in Seq(AnyFrame)
      BY <3>1, <2>2
    <3>5. UNCHANGED <<config_name, model, actions, frame>>
      BY <1>11 DEF PopPos
    <3>6. stale_pos' \in Nat
      <4>1. stale_pos + 1 \in Nat
        BY <3>1
      <4> QED
        BY <4>1, <3>1, <3>3
    <3>7. Types'
      BY <3>3, <3>4, <3>5, <3>6 DEF StaleInv, Types
    <3> QED
      BY <3>2, <3>3, <3>7 DEF StaleInv
  <2> QED
    BY <2>1, <2>2
<1>12. CASE PopVelAndApply
  <2> DEFINE q == output_dof_vel_queue
  <2>1. /\ PosFlying' = PosFlying /\ VelFlying' = VelFlying
        /\ UNCHANGED <<output_dof_pos_queue, stale_pos>>
        /\ control = "pop_vel" /\ control' \in {"run", "check_change"}
    BY <1>12 DEF PopVelAndApply, PosFlying, VelFlying
  <2>2. CASE q = <<>>
    BY <1>12, <2>1, <2>2, StaleKept DEF PopVelAndApply, PopVel, StaleInv, Types
  <2>3. CASE q # <<>>
    <3>1. /\ q \in Seq(AnyFrame) /\ stale_vel \in Nat
          /\ VelFlying \in BOOLEAN
          /\ Once(q, stale_vel, VelFlying)
      BY <2>1 DEF StaleInv, Types, PosFlying, VelFlying
    <3>2. Once(Tail(q), IF Head(q).fresh THEN stale_vel ELSE stale_vel + 1,
               VelFlying)
      BY <3>1, <2>3, OncePop
    <3>3. /\ output_dof_vel_queue' = Tail(q)
          /\ stale_vel' = IF Head(q).fresh THEN stale_vel ELSE stale_vel + 1
      BY <1>12, <2>3 DEF PopVelAndApply, PopVel
    <3>4. Tail(q) \in Seq(AnyFrame)
      BY <3>1, <2>3
    <3>5. UNCHANGED <<config_name, model, actions, frame>>
      BY <1>12 DEF PopVelAndApply
    <3>6. stale_vel' \in Nat
      BY <3>1, <3>3
    <3>7. Types'
      BY <2>1, <3>3, <3>4, <3>5, <3>6 DEF StaleInv, Types
    <3> QED
      BY <2>1, <3>2, <3>3, <3>7 DEF StaleInv
  <2> QED
    BY <2>2, <2>3
<1>13. CASE KeepState \/ AutoExit \/ LeaveByKey
  BY <1>13, StaleKept DEF KeepState, AutoExit, LeaveByKey, StaleInv, Types,
     PosFlying, VelFlying
<1>14. CASE Exit
  BY <1>14, StaleKept DEF Exit, StaleInv, Types, PosFlying, VelFlying
<1> QED
  BY <1>1, <1>2, <1>3, <1>4, <1>5, <1>6, <1>7, <1>8, <1>9, <1>10, <1>11,
     <1>12, <1>13, <1>14 DEF Control

\* The steps of the policy thread preserve StaleInv.
LEMMA StaleRunModel == StaleInv /\ RunModel => StaleInv'
<1> SUFFICES ASSUME StaleInv, RunModel PROVE StaleInv'
  OBVIOUS
<1> USE DEF shared, blend, policyThread, history, outputs, RlStep
<1>0. PosFlying \in BOOLEAN /\ VelFlying \in BOOLEAN
  BY DEF PosFlying, VelFlying
<1>1. CASE RlCheck
  <2>1. /\ UNCHANGED <<config_name, model, actions, control,
                       stale_pos, stale_vel>>
        /\ output_dof_pos_queue' = Each(Aged, output_dof_pos_queue)
        /\ output_dof_vel_queue' = Each(Aged, output_dof_vel_queue)
        /\ frame' = [age |-> 0, fresh |-> TRUE, by |-> NoModel]
    BY <1>1 DEF RlCheck
  <2>2. ~PosFlying /\ ~VelFlying /\ ~PosFlying' /\ ~VelFlying'
    BY <1>1, <2>1 DEF RlCheck, PosFlying, VelFlying
  <2>3. /\ output_dof_pos_queue' \in Seq(AnyFrame)
        /\ output_dof_vel_queue' \in Seq(AnyFrame)
    BY <2>1, EachAged DEF StaleInv, Types
  <2>4. frame' \in AnyFrame
    BY <2>1 DEF AnyFrame
  <2>5. Types'
    BY <2>1, <2>3, <2>4 DEF StaleInv, Types
  <2>6. /\ Once(output_dof_pos_queue, stale_pos, FALSE)
               => Once(output_dof_pos_queue', stale_pos, FALSE)
        /\ Once(output_dof_vel_queue, stale_vel, FALSE)
               => Once(output_dof_vel_queue', stale_vel, FALSE)
    BY <2>1, EachAged DEF StaleInv, Types
  <2>7. PosFlying = FALSE /\ VelFlying = FALSE
        /\ PosFlying' = FALSE /\ VelFlying' = FALSE
    BY <2>2, <1>0
  <2> QED
    BY <2>1, <2>5, <2>6, <2>7 DEF StaleInv
<1>2. CASE ReadCount \/ WriteCount \/ TryLock
  BY <1>2, StaleKept DEF ReadCount, WriteCount, TryLock, StaleInv, Types,
     PosFlying, VelFlying
<1>3. CASE UsePreviousActions
  <2>1. frame' \in AnyFrame /\ frame'.fresh = frame.fresh
    BY <1>3 DEF UsePreviousActions, StaleInv, Types, AnyFrame
  <2> QED
    BY <1>3, <2>1, StaleKept DEF UsePreviousActions, StaleInv, Types,
       PosFlying, VelFlying
<1>4. CASE Infer
  <2>1. frame' \in AnyFrame /\ frame'.fresh = frame.fresh
    BY <1>4 DEF Infer, StaleInv, Types, AnyFrame
  <2> QED
    BY <1>4, <2>1, StaleKept DEF Infer, StaleInv, Types, PosFlying, VelFlying
<1>5. CASE InferThrows
  BY <1>5, StaleKept DEF InferThrows, StaleInv, Types, PosFlying, VelFlying
<1>6. CASE PushPos
  <2>1. /\ UNCHANGED <<config_name, model, actions, control, frame,
                       output_dof_vel_queue, stale_pos, stale_vel>>
        /\ output_dof_pos_queue' = Append(output_dof_pos_queue, frame)
        /\ rl = "push_pos" /\ rl' = "push_vel"
    BY <1>6 DEF PushPos
  <2>2. /\ output_dof_pos_queue \in Seq(AnyFrame) /\ frame \in AnyFrame
        /\ stale_pos \in Nat
    BY DEF StaleInv, Types
  <2>3. Append(output_dof_pos_queue, frame) \in Seq(AnyFrame)
    BY <2>2
  <2>4. Types'
    BY <2>1, <2>2, <2>3 DEF StaleInv, Types
  <2>5. /\ PosFlying = ~frame.fresh /\ PosFlying' = FALSE
        /\ VelFlying' = VelFlying
    BY <2>1, <2>2 DEF PosFlying, VelFlying, AnyFrame
  <2>6. Once(output_dof_pos_queue, stale_pos, PosFlying)
            => Once(output_dof_pos_queue', stale_pos, FALSE)
    BY <2>1, <2>2, <2>5, OncePush
  <2> QED
    BY <2>1, <2>4, <2>5, <2>6 DEF StaleInv
<1>7. CASE PushVel
  <2>1. /\ UNCHANGED <<config_name, model, actions, control, frame,
                       output_dof_pos_queue, stale_pos, stale_vel>>
        /\ output_dof_vel_queue' = Append(output_dof_vel_queue, frame)
        /\ rl = "push_vel" /\ rl' = "push_tau"
    BY <1>7 DEF PushVel
  <2>2. /\ output_dof_vel_queue \in Seq(AnyFrame) /\ frame \in AnyFrame
        /\ stale_vel \in Nat
    BY DEF StaleInv, Types
  <2>3. Append(output_dof_vel_queue, frame) \in Seq(AnyFrame)
    BY <2>2
  <2>4. Types'
    BY <2>1, <2>2, <2>3 DEF StaleInv, Types
  <2>5. /\ VelFlying = ~frame.fresh /\ VelFlying' = FALSE
        /\ PosFlying' = PosFlying
    BY <2>1, <2>2 DEF PosFlying, VelFlying, AnyFrame
  <2>6. Once(output_dof_vel_queue, stale_vel, VelFlying)
            => Once(output_dof_vel_queue', stale_vel, FALSE)
    BY <2>1, <2>2, <2>5, OncePush
  <2> QED
    BY <2>1, <2>4, <2>5, <2>6 DEF StaleInv
<1>8. CASE PushTau
  BY <1>8, StaleKept DEF PushTau, StaleInv, Types, PosFlying, VelFlying
<1> QED
  BY <1>1, <1>2, <1>3, <1>4, <1>5, <1>6, <1>7, <1>8 DEF RunModel

\* Every state the two threads reach satisfies StaleInv.
LEMMA StaleHolds == Spec => []StaleInv
<1>1. StaleInv /\ UNCHANGED vars => StaleInv'
  BY DEF StaleInv, Types, PosFlying, VelFlying, vars, shared, outputs, blend,
     policyThread, history
<1>2. StaleInv /\ [Next]_vars => StaleInv'
  BY <1>1, StaleControl, StaleRunModel DEF Next
<1> QED
  BY <1>2, StaleInit, PTL DEF Spec

\* At most one frame of an earlier session reaches a learned state, however
\* long the queues grew and wherever the policy thread stood when they were
\* drained.
THEOREM AtMostOneStaleReachesRun == Spec => []AtMostOneStale
<1>1. ASSUME StaleInv PROVE AtMostOneStale
  <2>1. stale_pos = 0 \/ Once(output_dof_pos_queue, stale_pos, PosFlying)
    BY <1>1 DEF StaleInv
  <2>2. stale_vel = 0 \/ Once(output_dof_vel_queue, stale_vel, VelFlying)
    BY <1>1 DEF StaleInv
  <2>3. stale_pos <= 1
    BY <2>1 DEF Once
  <2>4. stale_vel <= 1
    BY <2>2 DEF Once
  <2> QED
    BY <2>3, <2>4 DEF AtMostOneStale
<1> QED
  BY <1>1, StaleHolds, PTL

(***************************************************************************)
(* The counter of policy steps.                                            *)
(***************************************************************************)

Count == 0 .. MaxEpisodeLength

\* CountsOwnSteps is not inductive: between the read and the write of += the
\* value that is going to be written is in seen, and a pass of an earlier
\* session that has not added its step yet finds the counter exact.
CountInv ==
    /\ {episode_length_buf, seen, steps} \subseteq Count
    /\ DOMAIN frame = {"age", "fresh", "by"} /\ frame.fresh \in BOOLEAN
    /\ under_way \in {"none", "read", "write"}
    /\ CountsOwnSteps
    /\ rl = "write" =>
          /\ steps <= seen
          /\ under_way # "write" => seen = episode_length_buf
    /\ rl \in {"read", "write"} /\ ~frame.fresh =>
          /\ under_way # "none"
          /\ under_way = "read" => episode_length_buf = steps

\* The bounded counter stays in range, grows and keeps the order.
LEMMA BoundedCount ==
    ASSUME NEW m \in Count, NEW n \in Count, m <= n
    PROVE  /\ Bounded(m + 1, MaxEpisodeLength) \in Count
           /\ Bounded(n + 1, MaxEpisodeLength) \in Count
           /\ n <= Bounded(n + 1, MaxEpisodeLength)
           /\ m <= Bounded(n + 1, MaxEpisodeLength)
           /\ Bounded(m + 1, MaxEpisodeLength)
                  <= Bounded(n + 1, MaxEpisodeLength)
           /\ Bounded(m + 1, MaxEpisodeLength) \in {m, m + 1}
           /\ n = m + 1 =>
                  Bounded(n + 1, MaxEpisodeLength) - Bounded(m + 1, MaxEpisodeLength)
                      \in {0, 1}
<1>1. MaxEpisodeLength \in Nat
  BY HandoverAssumption
<1> QED
  BY <1>1 DEF Bounded, Count

\* CountInv holds in the initial states.
LEMMA CountInit == Init => CountInv
<1>1. 0 \in Count /\ 0 <= 0
  BY HandoverAssumption DEF Count
<1> SUFFICES ASSUME Init PROVE CountInv
  OBVIOUS
<1>2. /\ episode_length_buf = 0 /\ seen = 0 /\ steps = 0
      /\ under_way = "none" /\ rl = "check"
      /\ DOMAIN frame = {"age", "fresh", "by"} /\ frame.fresh = FALSE
  BY DEF Init
<1> QED
  BY <1>1, <1>2 DEF CountInv, CountsOwnSteps

\* What the other steps leave alone; a pass is fresh when it begins.
LEMMA CountFrame ==
    DOMAIN frame = {"age", "fresh", "by"} /\
    [Next]_vars /\ ~EnterReset /\ ~ReadCount /\ ~WriteCount =>
        /\ UNCHANGED <<episode_length_buf, seen, steps, under_way>>
        /\ DOMAIN frame' = DOMAIN frame
        /\ \/ rl' = rl /\ frame' = frame
           \/ rl' = "read" /\ frame'.fresh = TRUE
           \/ rl' \notin {"read", "write"} /\ frame'.fresh = frame.fresh
<1> SUFFICES ASSUME DOMAIN frame = {"age", "fresh", "by"}, [Next]_vars,
                    ~EnterReset, ~ReadCount, ~WriteCount
             PROVE  /\ UNCHANGED <<episode_length_buf, seen, steps, under_way>>
                    /\ DOMAIN frame' = DOMAIN frame
                    /\ \/ rl' = rl /\ frame' = frame
                       \/ rl' = "read" /\ frame'.fresh = TRUE
                       \/ rl' \notin {"read", "write"} /\ frame'.fresh = frame.fresh
  OBVIOUS
<1> USE DEF shared, blend, policyThread, history, Step, RlStep
<1>1. CASE UNCHANGED vars
  BY <1>1 DEF vars
<1>2. CASE RunModel
  <2>1. CASE RlCheck
    BY <2>1 DEF RlCheck
  <2>2. CASE TryLock \/ InferThrows \/ PushPos \/ PushVel \/ PushTau
    BY <2>2 DEF TryLock, InferThrows, PushPos, PushVel, PushTau
  <2>3. CASE UsePreviousActions \/ Infer
    <3>1. /\ UNCHANGED <<episode_length_buf, seen, steps, under_way>>
          /\ rl' = "push_pos"
          /\ \E by : frame' = [frame EXCEPT !.by = by]
      BY <2>3 DEF UsePreviousActions, Infer
    <3> QED
      BY <3>1
  <2> QED
    BY <1>2, <2>1, <2>2, <2>3 DEF RunModel
<1>3. CASE DrainPos \/ DrainVel \/ DrainTau \/ \E p \in Policy : SetConfig(p)
  BY <1>3 DEF DrainPos, DrainVel, DrainTau, SetConfig
<1>4. CASE LockModel \/ InitRL \/ InitRLThrows \/ RunSwitches \/ Run
  BY <1>4 DEF LockModel, InitRL, InitRLThrows, RunSwitches, Run
<1>5. CASE PopPos \/ PopVelAndApply
  BY <1>5 DEF PopPos, PopVelAndApply, Apply, PopVel
<1>6. CASE KeepState \/ AutoExit \/ LeaveByKey \/ Exit
  BY <1>6 DEF KeepState, AutoExit, LeaveByKey, Exit
<1> QED
  BY <1>1, <1>2, <1>3, <1>4, <1>5, <1>6 DEF Next, Control

\* CountInv is preserved by every step of the two threads.
LEMMA CountNext == CountInv /\ [Next]_vars => CountInv'
<1> SUFFICES ASSUME CountInv, [Next]_vars PROVE CountInv'
  OBVIOUS
<1> USE DEF CountInv, CountsOwnSteps
<1>1. CASE EnterReset
  <2>1. /\ episode_length_buf' = 0 /\ steps' = 0
        /\ under_way' = IF rl \in {"read", "write"} THEN rl ELSE "none"
        /\ UNCHANGED <<rl, seen>>
    BY <1>1 DEF EnterReset
  <2>2. 0 \in Count /\ \A n \in Count : 0 <= n
    BY HandoverAssumption DEF Count
  <2>3. DOMAIN frame' = {"age", "fresh", "by"} /\ frame'.fresh \in BOOLEAN
    BY <1>1 DEF EnterReset, Old
  <2> QED
    BY <2>1, <2>2, <2>3
<1>2. CASE ReadCount
  <2>1. /\ rl = "read" /\ rl' = "write" /\ seen' = episode_length_buf
        /\ UNCHANGED <<episode_length_buf, steps, under_way, frame>>
    BY <1>2 DEF ReadCount, RlStep, shared, history
  <2> QED
    BY <2>1
<1>3. CASE WriteCount
  <2>1. /\ episode_length_buf' = Bounded(seen + 1, MaxEpisodeLength)
        /\ steps' = IF frame.fresh THEN Bounded(steps + 1, MaxEpisodeLength)
                    ELSE steps
        /\ rl = "write" /\ rl' = "forward"
        /\ UNCHANGED <<seen, under_way, frame>>
    BY <1>3 DEF WriteCount, RlStep
  <2>2. /\ episode_length_buf' \in Count /\ steps' \in Count
        /\ steps' <= episode_length_buf'
    BY <2>1, BoundedCount
  <2>3. under_way = "none" => episode_length_buf' = steps'
    BY <2>1
  <2>4. ASSUME under_way = "read"
        PROVE  episode_length_buf' \in {steps', steps' + 1}
    <3>1. seen = episode_length_buf
      BY <2>1, <2>4
    <3>2. CASE ~frame.fresh
      BY <2>1, <2>4, <3>1, <3>2, BoundedCount
    <3>3. CASE frame.fresh /\ seen = steps
      BY <2>1, <3>3
    <3>4. CASE frame.fresh /\ seen = steps + 1
      <4>1. episode_length_buf' - steps' \in {0, 1}
        BY <2>1, <3>4, BoundedCount
      <4>2. episode_length_buf' \in Int /\ steps' \in Int
        BY <2>2, HandoverAssumption DEF Count
      <4>3. \A m, n \in Int : m - n \in {0, 1} => m \in {n, n + 1}
        OBVIOUS
      <4> QED
        BY <4>1, <4>2, <4>3
    <3> QED
      BY <2>4, <3>1, <3>2, <3>3, <3>4
  <2> QED
    BY <2>1, <2>2, <2>3, <2>4
<1>4. CASE ~EnterReset /\ ~ReadCount /\ ~WriteCount
  BY <1>4, CountFrame
<1> QED
  BY <1>1, <1>2, <1>3, <1>4

\* Every state the two threads reach satisfies CountInv.
LEMMA CountHolds == Spec => []CountInv
  BY CountInit, CountNext, PTL DEF Spec

\* A motion is never played past its end, and cut short only by an increment of
\* an earlier pass that the reset of Enter met: by one step if it had not read
\* the counter yet, by as many as it had read if it had.
THEOREM CountsOwnStepsHolds == Spec => []CountsOwnSteps
<1>1. CountInv => CountsOwnSteps
  BY DEF CountInv
<1> QED
  BY <1>1, CountHolds, PTL

(***************************************************************************)
(* The blend window.                                                       *)
(***************************************************************************)

\* In a session: before the first frame nothing is blended, then every blended
\* command is counted, and the window is closed when all of them were.
BlendInv ==
    /\ {rl_blend_time, blended} \subseteq 0 .. BlendFrames
    /\ {rl_wait_first_frame, rl_blend_active} \subseteq BOOLEAN
    /\ command \in {"other", "hold", "blend", "policy"}
    /\ control # "out" /\ rl_wait_first_frame => ~rl_blend_active /\ blended = 0
    /\ control # "out" /\ rl_blend_active =>
           blended = rl_blend_time /\ rl_blend_time < BlendFrames
    /\ control # "out" /\ ~rl_wait_first_frame /\ ~rl_blend_active =>
           blended = BlendFrames

\* BlendInv holds in the initial states.
LEMMA BlendInit == Init => BlendInv
<1>1. 0 \in 0 .. BlendFrames
  BY HandoverAssumption
<1> SUFFICES ASSUME Init PROVE BlendInv
  OBVIOUS
<1>2. /\ rl_blend_time = 0 /\ blended = 0 /\ control = "out"
      /\ rl_wait_first_frame = FALSE /\ rl_blend_active = FALSE
      /\ command = "other"
  BY DEF Init
<1> QED
  BY <1>1, <1>2 DEF BlendInv

\* What the other steps leave alone.
LEMMA BlendFrame ==
    [Next]_vars /\ ~EnterReset /\ ~PopVelAndApply =>
        /\ UNCHANGED <<rl_blend_time, blended, rl_wait_first_frame,
                       rl_blend_active, command>>
        /\ control = "out" => control' = "out"
<1> SUFFICES ASSUME [Next]_vars, ~EnterReset, ~PopVelAndApply
             PROVE  /\ UNCHANGED <<rl_blend_time, blended, rl_wait_first_frame,
                                   rl_blend_active, command>>
                    /\ control = "out" => control' = "out"
  OBVIOUS
<1> USE DEF blend, history, Step
<1>1. CASE UNCHANGED vars
  BY <1>1 DEF vars
<1>2. CASE RunModel
  BY <1>2 DEF RunModel, RlCheck, ReadCount, WriteCount, TryLock,
     UsePreviousActions, Infer, InferThrows, PushPos, PushVel, PushTau
<1>3. CASE DrainPos \/ DrainVel \/ DrainTau \/ \E p \in Policy : SetConfig(p)
  BY <1>3 DEF DrainPos, DrainVel, DrainTau, SetConfig
<1>4. CASE LockModel \/ InitRL \/ InitRLThrows \/ RunSwitches \/ Run
  BY <1>4 DEF LockModel, InitRL, InitRLThrows, RunSwitches, Run
<1>5. CASE PopPos
  BY <1>5 DEF PopPos
<1>6. CASE KeepState \/ AutoExit \/ LeaveByKey \/ Exit
  BY <1>6 DEF KeepState, AutoExit, LeaveByKey, Exit
<1> QED
  BY <1>1, <1>2, <1>3, <1>4, <1>5, <1>6 DEF Next, Control

\* The part of RLControl after the pops, whether they had a frame or not.
LEMMA BlendApply ==
    ASSUME BlendInv, control # "out", NEW new \in BOOLEAN, Apply(new)
    PROVE  /\ BlendInv'
           /\ command' = "policy" => blended = BlendFrames
<1>0. BlendFrames \in Nat \ {0}
  BY HandoverAssumption
<1> DEFINE time == (IF rl_wait_first_frame /\ new THEN 0 ELSE rl_blend_time) + 1
<1>1. rl_wait_first_frame' = (rl_wait_first_frame /\ ~new)
  BY DEF Apply
<1>2. rl_wait_first_frame' \in BOOLEAN
  BY <1>1
<1>3. CASE rl_wait_first_frame /\ ~new
  <2>1. /\ command' = "hold"
        /\ UNCHANGED <<rl_blend_active, rl_blend_time, blended>>
    BY <1>3 DEF Apply
  <2>2. rl_wait_first_frame'
    BY <1>1, <1>3
  <2> QED
    BY <1>0, <1>3, <2>1, <2>2 DEF BlendInv
<1>4. CASE (rl_wait_first_frame /\ new) \/ (~rl_wait_first_frame /\ rl_blend_active)
  <2>1. /\ command' = "blend" /\ rl_blend_time' = time
        /\ rl_blend_active' = (time < BlendFrames)
        /\ blended' = blended + 1
    BY <1>4 DEF Apply, BlendInv
  <2>2. ~rl_wait_first_frame'
    BY <1>1, <1>4
  <2>3. blended + 1 = time /\ time \in 1 .. BlendFrames
    BY <1>0, <1>4 DEF BlendInv
  <2>4. rl_blend_active' \in BOOLEAN /\ (rl_blend_active' <=> time < BlendFrames)
    <3>1. rl_blend_active' = (time < BlendFrames)
      BY <2>1
    <3>2. (time < BlendFrames) \in BOOLEAN
      OBVIOUS
    <3>3. rl_blend_active' \in BOOLEAN
      BY <3>1, <3>2, Zenon
    <3>4. rl_blend_active' <=> time < BlendFrames
      BY <3>1, Zenon
    <3> QED
      BY <3>3, <3>4
  <2> QED
    BY <1>0, <1>2, <2>1, <2>2, <2>3, <2>4 DEF BlendInv
<1>5. CASE ~rl_wait_first_frame /\ ~rl_blend_active
  <2>1. /\ command' \in {"policy", command}
        /\ UNCHANGED <<rl_blend_active, rl_blend_time, blended>>
    BY <1>5 DEF Apply
  <2>2. ~rl_wait_first_frame'
    BY <1>1, <1>5
  <2> QED
    BY <1>0, <1>2, <1>5, <2>1, <2>2 DEF BlendInv
<1> QED
  BY <1>3, <1>4, <1>5

\* BlendInv is preserved by every step of the two threads.
LEMMA BlendNext == BlendInv /\ [Next]_vars => BlendInv'
<1> SUFFICES ASSUME BlendInv, [Next]_vars PROVE BlendInv'
  OBVIOUS
<1>1. CASE EnterReset
  <2>1. /\ rl_blend_time' = 0 /\ blended' = 0
        /\ rl_wait_first_frame' = TRUE /\ rl_blend_active' = FALSE
        /\ UNCHANGED command
    BY <1>1 DEF EnterReset
  <2>2. 0 \in 0 .. BlendFrames
    BY HandoverAssumption
  <2> QED
    BY <2>1, <2>2 DEF BlendInv
<1>2. CASE PopVelAndApply
  <2>1. control # "out" /\ \E new \in BOOLEAN : Apply(new)
    BY <1>2 DEF PopVelAndApply, Step
  <2> QED
    BY <2>1, BlendApply
<1>3. CASE ~EnterReset /\ ~PopVelAndApply
  BY <1>3, BlendFrame DEF BlendInv
<1> QED
  BY <1>1, <1>2, <1>3

\* Every state the two threads reach satisfies BlendInv.
LEMMA BlendHolds == Spec => []BlendInv
  BY BlendInit, BlendNext, PTL DEF Spec

\* The raw output of a policy never reaches the motors before the whole blend
\* window of its session, wherever frames are late.
THEOREM DirectAfterBlendHolds == Spec => DirectAfterBlend
<1>1. BlendInv /\ [Next]_vars
        => [PopVelAndApply /\ command' = "policy" => blended >= BlendFrames]_vars
  <2> SUFFICES ASSUME BlendInv, PopVelAndApply, command' = "policy"
               PROVE  blended >= BlendFrames
    OBVIOUS
  <2>1. control # "out" /\ \E new \in BOOLEAN : Apply(new)
    BY DEF PopVelAndApply, Step
  <2>2. blended = BlendFrames /\ BlendFrames \in Nat
    BY <2>1, BlendApply, HandoverAssumption
  <2> QED
    BY <2>2
<1> QED
  BY <1>1, BlendHolds, PTL DEF Spec, DirectAfterBlend

(***************************************************************************)
(* The session: from Enter on, no pass begins until the model is loaded.   *)
(***************************************************************************)

Entering == {"drain_pos", "drain_vel", "drain_tau", "config", "lock", "init"}

\* No pass begins while a state is entered, nothing is in force or popped then,
\* and a pass begins only under the policy that was loaded.
SessionInv ==
    /\ rl_init_done \in BOOLEAN
    /\ {rl_blend_q_target, rl_blend_dq_target, popped} \subseteq AnyFrame
    /\ control \in Entering \cup {"out"} => ~rl_init_done
    /\ rl_init_done \/ control \in {"run", "pop_pos", "pop_vel", "check_change"}
           => model = config_name
    /\ control \in Entering =>
           rl_blend_q_target = Hold /\ rl_blend_dq_target = Hold
    /\ control # "pop_vel" => popped = Nothing

\* What is not a frame has an age that no frame has.
LEMMA NotFrames ==
    /\ Hold \in AnyFrame /\ Hold.age = -1
    /\ Nothing \in AnyFrame /\ Nothing.age = -2
    /\ Hold # Nothing
  BY DEF Hold, Nothing, AnyFrame

\* Beginning another pass changes the age of a frame, and nothing else.
LEMMA AgedFrame ==
    ASSUME NEW f \in AnyFrame
    PROVE  /\ Aged(f) \in AnyFrame
           /\ Aged(f).fresh = f.fresh /\ Aged(f).by = f.by
           /\ Aged(Hold) = Hold /\ Aged(Nothing) = Nothing
           /\ f.age >= 0 => Aged(f).age = f.age + 1
<1>1. Aged(Hold) = Hold /\ Aged(Nothing) = Nothing
  BY DEF Aged
<1>2. CASE f \in {Hold, Nothing}
  BY <1>1, <1>2, NotFrames
<1>3. CASE f \notin {Hold, Nothing}
  <2>1. Aged(f) = [f EXCEPT !.age = f.age + 1]
    BY <1>3 DEF Aged
  <2> QED
    BY <1>1, <2>1 DEF AnyFrame
<1> QED
  BY <1>2, <1>3

\* SessionInv holds in the initial states.
LEMMA SessionInit == Init => SessionInv
<1> SUFFICES ASSUME Init PROVE SessionInv
  OBVIOUS
<1>1. /\ rl_init_done = FALSE /\ control = "out"
      /\ rl_blend_q_target = Hold /\ rl_blend_dq_target = Hold
      /\ popped = Nothing
  BY DEF Init
<1> QED
  BY <1>1, NotFrames DEF SessionInv, Entering

\* SessionInv is preserved by every step of the two threads.
LEMMA SessionNext == SessionInv /\ Types /\ [Next]_vars => SessionInv'
<1> SUFFICES ASSUME SessionInv, Types, [Next]_vars PROVE SessionInv'
  OBVIOUS
<1> USE DEF SessionInv, Entering, shared, blend, policyThread, history, Step,
    RlStep
<1>1. CASE EnterReset
  BY <1>1, NotFrames DEF EnterReset
<1>2. CASE DrainPos \/ DrainVel \/ DrainTau
  BY <1>2 DEF DrainPos, DrainVel, DrainTau
<1>3. ASSUME NEW p \in Policy, SetConfig(p) PROVE SessionInv'
  BY <1>3 DEF SetConfig
<1>4. CASE LockModel
  BY <1>4 DEF LockModel
<1>5. CASE InitRL \/ InitRLThrows
  BY <1>5 DEF InitRL, InitRLThrows
<1>6. CASE RunSwitches \/ Run
  BY <1>6 DEF RunSwitches, Run
<1>7. CASE PopPos
  <2>1. popped' \in AnyFrame
    BY <1>7, NotFrames DEF PopPos, Types
  <2>2. /\ UNCHANGED <<shared, rl_blend_q_target, rl_blend_dq_target>>
        /\ control = "pop_pos" /\ control' = "pop_vel"
    BY <1>7 DEF PopPos
  <2> QED
    BY <2>1, <2>2
<1>8. CASE PopVelAndApply
  <2>1. rl_blend_dq_target' \in AnyFrame
    BY <1>8 DEF PopVelAndApply, PopVel, Types
  <2>2. rl_blend_q_target' \in AnyFrame
    BY <1>8 DEF PopVelAndApply
  <2>3. /\ UNCHANGED shared /\ popped' = Nothing
        /\ control = "pop_vel" /\ control' \in {"run", "check_change"}
    BY <1>8 DEF PopVelAndApply
  <2> QED
    BY <2>1, <2>2, <2>3, NotFrames
<1>9. CASE KeepState \/ AutoExit \/ LeaveByKey \/ Exit
  BY <1>9 DEF KeepState, AutoExit, LeaveByKey, Exit
<1>10. CASE RlCheck
  <2>1. /\ rl_blend_q_target' = Aged(rl_blend_q_target)
        /\ rl_blend_dq_target' = Aged(rl_blend_dq_target)
        /\ popped' = Aged(popped)
        /\ UNCHANGED <<shared, control>>
    BY <1>10 DEF RlCheck
  <2> QED
    BY <2>1, AgedFrame
<1>11. CASE \/ ReadCount \/ WriteCount \/ TryLock \/ UsePreviousActions
            \/ Infer \/ InferThrows
  BY <1>11 DEF ReadCount, WriteCount, TryLock, UsePreviousActions, Infer,
     InferThrows
<1>12. CASE PushPos \/ PushVel \/ PushTau
  BY <1>12 DEF PushPos, PushVel, PushTau
<1>13. CASE UNCHANGED vars
  BY <1>13 DEF vars
<1> QED
  BY <1>1, <1>2, <1>3, <1>4, <1>5, <1>6, <1>7, <1>8, <1>9, <1>10, <1>11,
     <1>12, <1>13 DEF Next, Control, RunModel

\* Every state the two threads reach satisfies SessionInv.
LEMMA SessionHolds == Spec => []SessionInv
<1>1. StaleInv => Types
  BY DEF StaleInv
<1> QED
  BY <1>1, StaleHolds, SessionInit, SessionNext, PTL DEF Spec

(***************************************************************************)
(* The frames of this session.                                             *)
(***************************************************************************)

\* Frame f, if it is of this session, was computed by model m under its name c.
Own(f, m, c) == f.fresh => f.by = m /\ m = c
AllOwn(q, m, c) == \A i \in DOMAIN q : Own(q[i], m, c)
NoneFresh(q) == \A i \in DOMAIN q : ~q[i].fresh

\* The model of a pass is known once it is to push its result; while a state is
\* entered no frame of its session exists, so that the model may be replaced.
OwnInv ==
    /\ control \in Entering =>
           /\ ~frame.fresh
           /\ NoneFresh(output_dof_pos_queue)
           /\ NoneFresh(output_dof_vel_queue)
    /\ frame.fresh => model = config_name
    /\ rl \in {"push_pos", "push_vel", "push_tau", "check"}
           => Own(frame, model, config_name)
    /\ AllOwn(output_dof_pos_queue, model, config_name)
    /\ AllOwn(output_dof_vel_queue, model, config_name)
    /\ \A f \in {rl_blend_q_target, rl_blend_dq_target} :
           f = Hold \/ Own(f, model, config_name)
    /\ popped = Nothing \/ Own(popped, model, config_name)

\* A frame is queued.
LEMMA OwnPush ==
    ASSUME NEW q \in Seq(AnyFrame), NEW f \in AnyFrame, NEW m, NEW c
    PROVE  /\ NoneFresh(q) /\ ~f.fresh => NoneFresh(Append(q, f))
           /\ AllOwn(q, m, c) /\ Own(f, m, c) => AllOwn(Append(q, f), m, c)
<1>1. /\ DOMAIN Append(q, f) = 1 .. Len(q) + 1
      /\ \A i \in 1 .. Len(q) : i \in DOMAIN q /\ Append(q, f)[i] = q[i]
      /\ Append(q, f)[Len(q) + 1] = f
      /\ Len(q) \in Nat
  OBVIOUS
<1> QED
  BY <1>1 DEF NoneFresh, AllOwn

\* The oldest frame is popped.
LEMMA OwnPop ==
    ASSUME NEW q \in Seq(AnyFrame), q # <<>>, NEW m, NEW c, AllOwn(q, m, c)
    PROVE  Own(Head(q), m, c) /\ AllOwn(Tail(q), m, c)
<1>1. /\ DOMAIN Tail(q) = 1 .. Len(q) - 1
      /\ \A i \in 1 .. Len(q) - 1 : i + 1 \in DOMAIN q /\ Tail(q)[i] = q[i + 1]
      /\ Head(q) = q[1] /\ 1 \in DOMAIN q
  OBVIOUS
<1> QED
  BY <1>1 DEF AllOwn

\* A session begins.
LEMMA OwnOld ==
    ASSUME NEW q \in Seq(AnyFrame)
    PROVE  NoneFresh(Each(Old, q))
<1>1. ASSUME NEW i \in DOMAIN q PROVE ~Each(Old, q)[i].fresh
  <2>1. q[i] \in AnyFrame
    OBVIOUS
  <2> QED
    BY <2>1 DEF Each, Old, AnyFrame
<1> QED
  BY <1>1 DEF NoneFresh, Each

\* Another pass begins.
LEMMA OwnAged ==
    ASSUME NEW q \in Seq(AnyFrame), NEW m, NEW c, AllOwn(q, m, c)
    PROVE  AllOwn(Each(Aged, q), m, c)
<1>1. ASSUME NEW i \in DOMAIN q PROVE Own(Each(Aged, q)[i], m, c)
  <2>1. q[i] \in AnyFrame /\ Own(q[i], m, c)
    BY DEF AllOwn
  <2> QED
    BY <2>1, AgedFrame DEF Each, Own
<1> QED
  BY <1>1 DEF AllOwn, Each

\* What is not of this session says nothing about the model.
LEMMA OwnNone ==
    ASSUME NEW q, NoneFresh(q), NEW m, NEW c
    PROVE  AllOwn(q, m, c)
  BY DEF NoneFresh, AllOwn, Own

\* OwnInv holds in the initial states.
LEMMA OwnInit == Init => OwnInv
<1> SUFFICES ASSUME Init PROVE OwnInv
  OBVIOUS
<1>1. /\ rl_blend_q_target = Hold /\ rl_blend_dq_target = Hold
      /\ popped = Nothing /\ control = "out"
      /\ output_dof_pos_queue = <<>> /\ output_dof_vel_queue = <<>>
  BY DEF Init
<1>2. frame.fresh = FALSE
  BY DEF Init
<1> QED
  BY <1>1, <1>2 DEF OwnInv, Entering, AllOwn, Own

\* A step that leaves frames and model alone, enters no state and brings the
\* pass no nearer to its push is harmless.
LEMMA OwnKept ==
    ASSUME OwnInv,
           UNCHANGED <<model, config_name, frame, output_dof_pos_queue,
                       output_dof_vel_queue, rl_blend_q_target,
                       rl_blend_dq_target, popped>>,
           control' \in Entering => control \in Entering,
           rl' \in {"push_pos", "push_vel", "push_tau", "check"} =>
               rl \in {"push_pos", "push_vel", "push_tau", "check"}
    PROVE  OwnInv'
  BY DEF OwnInv

\* The steps of the control thread preserve OwnInv.
LEMMA OwnControl == OwnInv /\ SessionInv /\ Types /\ Control => OwnInv'
<1> SUFFICES ASSUME OwnInv, SessionInv, Types, Control PROVE OwnInv'
  OBVIOUS
<1> USE DEF shared, blend, policyThread, history, outputs, Step
<1>1. CASE EnterReset
  <2>1. /\ output_dof_pos_queue' = Each(Old, output_dof_pos_queue)
        /\ output_dof_vel_queue' = Each(Old, output_dof_vel_queue)
        /\ frame' = Old(frame)
        /\ rl_blend_q_target' = Hold /\ rl_blend_dq_target' = Hold
        /\ popped' = Nothing
    BY <1>1 DEF EnterReset, SessionInv
  <2>2. /\ NoneFresh(output_dof_pos_queue')
        /\ NoneFresh(output_dof_vel_queue')
    BY <2>1, OwnOld DEF Types
  <2>3. ~frame'.fresh
    BY <2>1 DEF Old, Types, AnyFrame
  <2> QED
    BY <2>1, <2>2, <2>3, OwnNone DEF OwnInv, Own
<1>2. CASE DrainPos \/ DrainVel
  <2>1. /\ output_dof_pos_queue' \in {output_dof_pos_queue, <<>>}
        /\ output_dof_vel_queue' \in {output_dof_vel_queue, <<>>}
        /\ UNCHANGED <<model, config_name, frame, rl, rl_blend_q_target,
                       rl_blend_dq_target, popped>>
        /\ control \in Entering
    BY <1>2 DEF DrainPos, DrainVel, Entering
  <2>2. /\ NoneFresh(<<>>)
        /\ NoneFresh(output_dof_pos_queue) /\ NoneFresh(output_dof_vel_queue)
    BY <2>1 DEF OwnInv, NoneFresh
  <2>3. /\ NoneFresh(output_dof_pos_queue')
        /\ NoneFresh(output_dof_vel_queue')
    BY <2>1, <2>2
  <2> QED
    BY <2>1, <2>3, OwnNone DEF OwnInv
<1>3. CASE DrainTau
  BY <1>3, OwnKept DEF DrainTau, Entering
<1>4. CASE (\E p \in Policy : SetConfig(p)) \/ InitRL \/ InitRLThrows
  <2>1. /\ UNCHANGED <<frame, rl, output_dof_pos_queue, output_dof_vel_queue,
                       rl_blend_q_target, rl_blend_dq_target, popped>>
        /\ control \in Entering
    BY <1>4 DEF SetConfig, InitRL, InitRLThrows, Entering
  <2>2. /\ ~frame.fresh
        /\ NoneFresh(output_dof_pos_queue) /\ NoneFresh(output_dof_vel_queue)
        /\ rl_blend_q_target = Hold /\ rl_blend_dq_target = Hold
        /\ popped = Nothing
    BY <2>1 DEF OwnInv, SessionInv, Entering
  <2> QED
    BY <2>1, <2>2, OwnNone DEF OwnInv, Own
<1>5. CASE LockModel \/ RunSwitches \/ Run
  BY <1>5, OwnKept DEF LockModel, RunSwitches, Run, Entering
<1>6. CASE PopPos
  <2>1. /\ UNCHANGED <<model, config_name, frame, rl, output_dof_vel_queue,
                       rl_blend_q_target, rl_blend_dq_target>>
        /\ control' = "pop_vel"
    BY <1>6 DEF PopPos
  <2>2. CASE output_dof_pos_queue = <<>>
    <3>1. popped' = Nothing /\ UNCHANGED output_dof_pos_queue
      BY <1>6, <2>2 DEF PopPos
    <3> QED
      BY <2>1, <3>1 DEF OwnInv, Entering
  <2>3. CASE output_dof_pos_queue # <<>>
    <3>1. /\ popped' = Head(output_dof_pos_queue)
          /\ output_dof_pos_queue' = Tail(output_dof_pos_queue)
      BY <1>6, <2>3 DEF PopPos
    <3>2. /\ Own(popped', model, config_name)
          /\ AllOwn(output_dof_pos_queue', model, config_name)
      BY <2>3, <3>1, OwnPop DEF OwnInv, Types
    <3> QED
      BY <2>1, <3>2 DEF OwnInv, Entering
  <2> QED
    BY <2>2, <2>3
<1>7. CASE PopVelAndApply
  <2>1. /\ UNCHANGED <<model, config_name, frame, rl, output_dof_pos_queue>>
        /\ rl_blend_q_target' \in {rl_blend_q_target, popped}
        /\ popped = Nothing => UNCHANGED rl_blend_q_target
        /\ popped' = Nothing
        /\ control' \in {"run", "check_change"}
    BY <1>7 DEF PopVelAndApply
  <2>2. CASE output_dof_vel_queue = <<>>
    <3>1. UNCHANGED <<rl_blend_dq_target, output_dof_vel_queue>>
      BY <1>7, <2>2 DEF PopVelAndApply, PopVel
    <3> QED
      BY <2>1, <3>1 DEF OwnInv, Entering
  <2>3. CASE output_dof_vel_queue # <<>>
    <3>1. /\ rl_blend_dq_target' = Head(output_dof_vel_queue)
          /\ output_dof_vel_queue' = Tail(output_dof_vel_queue)
      BY <1>7, <2>3 DEF PopVelAndApply, PopVel
    <3>2. /\ Own(rl_blend_dq_target', model, config_name)
          /\ AllOwn(output_dof_vel_queue', model, config_name)
      BY <2>3, <3>1, OwnPop DEF OwnInv, Types
    <3> QED
      BY <2>1, <3>2 DEF OwnInv, Entering
  <2> QED
    BY <2>2, <2>3
<1>8. CASE KeepState \/ AutoExit \/ LeaveByKey \/ Exit
  BY <1>8, OwnKept DEF KeepState, AutoExit, LeaveByKey, Exit, Entering
<1> QED
  BY <1>1, <1>2, <1>3, <1>4, <1>5, <1>6, <1>7, <1>8 DEF Control

\* The steps of the policy thread preserve OwnInv.
LEMMA OwnRunModel ==
    OwnInv /\ SessionInv /\ MutexInv /\ Types /\ RunModel => OwnInv'
<1> SUFFICES ASSUME OwnInv, SessionInv, MutexInv, Types, RunModel PROVE OwnInv'
  OBVIOUS
<1> USE DEF shared, blend, policyThread, history, outputs, RlStep
<1>1. CASE RlCheck
  <2>1. /\ UNCHANGED <<model, config_name, control>>
        /\ output_dof_pos_queue' = Each(Aged, output_dof_pos_queue)
        /\ output_dof_vel_queue' = Each(Aged, output_dof_vel_queue)
        /\ rl_blend_q_target' = Aged(rl_blend_q_target)
        /\ rl_blend_dq_target' = Aged(rl_blend_dq_target)
        /\ popped' = Aged(popped)
        /\ rl_init_done /\ rl' = "read"
    BY <1>1 DEF RlCheck
  <2>2. model = config_name /\ control \notin Entering
    BY <2>1 DEF SessionInv
  <2>3. /\ AllOwn(output_dof_pos_queue', model, config_name)
        /\ AllOwn(output_dof_vel_queue', model, config_name)
    BY <2>1, OwnAged DEF OwnInv, Types
  <2>4. ASSUME NEW f \in AnyFrame, NEW n \in {Hold, Nothing},
               f = n \/ Own(f, model, config_name)
        PROVE  Aged(f) = n \/ Own(Aged(f), model, config_name)
    BY <2>4, AgedFrame DEF Own
  <2> QED
    BY <2>1, <2>2, <2>3, <2>4 DEF OwnInv, SessionInv
<1>2. CASE ReadCount \/ WriteCount \/ TryLock
  BY <1>2, OwnKept DEF ReadCount, WriteCount, TryLock
<1>3. CASE UsePreviousActions
  <2>1. /\ UNCHANGED <<model, config_name, control, output_dof_pos_queue,
                       output_dof_vel_queue, rl_blend_q_target,
                       rl_blend_dq_target, popped>>
        /\ frame' = [frame EXCEPT !.by = actions]
        /\ model_mutex = "control"
    BY <1>3 DEF UsePreviousActions
  <2>2. frame'.fresh = frame.fresh
    BY <2>1 DEF Types, AnyFrame
  <2>3. ~frame.fresh
    BY <2>1 DEF MutexInv, OwnInv, Entering
  <2> QED
    BY <2>1, <2>2, <2>3 DEF OwnInv, Own
<1>4. CASE Infer
  <2>1. /\ UNCHANGED <<model, config_name, control, output_dof_pos_queue,
                       output_dof_vel_queue, rl_blend_q_target,
                       rl_blend_dq_target, popped>>
        /\ frame' = [frame EXCEPT !.by = model]
    BY <1>4 DEF Infer
  <2>2. frame'.fresh = frame.fresh /\ frame'.by = model
    BY <2>1 DEF Types, AnyFrame
  <2> QED
    BY <2>1, <2>2 DEF OwnInv, Own
<1>5. CASE InferThrows
  BY <1>5, OwnKept DEF InferThrows
<1>6. CASE PushPos
  <2>1. /\ UNCHANGED <<model, config_name, control, frame, output_dof_vel_queue,
                       rl_blend_q_target, rl_blend_dq_target, popped>>
        /\ output_dof_pos_queue' = Append(output_dof_pos_queue, frame)
        /\ rl = "push_pos"
    BY <1>6 DEF PushPos
  <2>2. /\ AllOwn(output_dof_pos_queue', model, config_name)
        /\ control \in Entering => NoneFresh(output_dof_pos_queue')
    BY <2>1, OwnPush DEF OwnInv, Types
  <2> QED
    BY <2>1, <2>2 DEF OwnInv
<1>7. CASE PushVel
  <2>1. /\ UNCHANGED <<model, config_name, control, frame, output_dof_pos_queue,
                       rl_blend_q_target, rl_blend_dq_target, popped>>
        /\ output_dof_vel_queue' = Append(output_dof_vel_queue, frame)
        /\ rl = "push_vel"
    BY <1>7 DEF PushVel
  <2>2. /\ AllOwn(output_dof_vel_queue', model, config_name)
        /\ control \in Entering => NoneFresh(output_dof_vel_queue')
    BY <2>1, OwnPush DEF OwnInv, Types
  <2> QED
    BY <2>1, <2>2 DEF OwnInv
<1>8. CASE PushTau
  BY <1>8, OwnKept DEF PushTau
<1> QED
  BY <1>1, <1>2, <1>3, <1>4, <1>5, <1>6, <1>7, <1>8 DEF RunModel

\* Every state the two threads reach satisfies OwnInv.
LEMMA OwnHolds == Spec => []OwnInv
<1>1. OwnInv /\ UNCHANGED vars => OwnInv'
  BY DEF OwnInv, vars, shared, outputs, blend, policyThread, history
<1>2. OwnInv /\ SessionInv /\ MutexInv /\ Types /\ [Next]_vars => OwnInv'
  BY <1>1, OwnControl, OwnRunModel DEF Next
<1>3. StaleInv => Types
  BY DEF StaleInv
<1> QED
  BY <1>2, <1>3, OwnInit, SessionHolds, MutexHolds, StaleHolds, PTL DEF Spec

\* A frame of this session was computed by the policy this session loaded: the
\* actions kept from before the load never count as its own.
THEOREM FreshFramesAreOwnHolds == Spec => []FreshFramesAreOwn
<1>1. OwnInv /\ SessionInv => FreshFramesAreOwn
  <2> SUFFICES ASSUME OwnInv, SessionInv PROVE FreshFramesAreOwn
    OBVIOUS
  <2>1. /\ \A i \in DOMAIN output_dof_pos_queue :
               Own(output_dof_pos_queue[i], model, config_name)
        /\ \A i \in DOMAIN output_dof_vel_queue :
               Own(output_dof_vel_queue[i], model, config_name)
    BY DEF OwnInv, AllOwn
  <2>2. ASSUME NEW f \in {rl_blend_q_target, rl_blend_dq_target} \ {Hold}
        PROVE  Own(f, model, config_name)
    BY <2>2 DEF OwnInv
  <2> QED
    BY <2>1, <2>2 DEF FreshFramesAreOwn, Own
<1> QED
  BY <1>1, OwnHolds, SessionHolds, PTL

(***************************************************************************)
(* The ages of the frames.                                                 *)
(***************************************************************************)

\* The newest pass has not pushed its positions (velocities) yet.
PosDue ==
    IF rl \in {"read", "write", "forward", "infer", "push_pos"} THEN 1 ELSE 0
VelDue == IF rl = "push_vel" THEN 1 ELSE PosDue

\* Queue q holds the frames of successive passes, the newest of age d.
Chain(q, d) == \A i \in DOMAIN q : q[i].age = Len(q) - i + d

\* The passes begun since the frame popped last.
PosPasses == Len(output_dof_pos_queue) + PosDue
VelPasses == Len(output_dof_vel_queue) + VelDue

\* Ahead of the first pop by one; between the two pops the positions are one
\* frame further, unless there was none.
Offset == PosPasses - VelPasses

\* What is queued has no gap, what is in force was popped last, and the two
\* queues are never more than one pass apart: a pop finds one queue empty and
\* the other not only when the pass between is the newest one.
AgeInv ==
    /\ frame.age = 0
    /\ Chain(output_dof_pos_queue, PosDue)
    /\ Chain(output_dof_vel_queue, VelDue)
    /\ PosPasses <= MaxQueue
    /\ VelPasses <= MaxQueue
    /\ rl_blend_q_target = Hold \/
         rl_blend_q_target.age = PosPasses + (IF popped = Nothing THEN 0 ELSE 1)
    /\ rl_blend_dq_target = Hold \/ rl_blend_dq_target.age = VelPasses
    /\ popped = Nothing \/ popped.age = PosPasses
    /\ control = "drain_vel" => PosPasses <= 1
    /\ control \in {"drain_tau", "config", "lock", "init", "run", "pop_pos",
                    "check_change", "exit"} => Offset \in {-1, 0, 1}
    /\ control = "pop_vel" =>
         Offset \in IF popped = Nothing THEN {-1, 0} ELSE {-2, -1, 0}

\* The frame that is due joins its queue.
LEMMA ChainPush ==
    ASSUME NEW q \in Seq(AnyFrame), NEW f \in AnyFrame, Chain(q, 1), f.age = 0
    PROVE  Chain(Append(q, f), 0) /\ Len(Append(q, f)) = Len(q) + 1
<1>1. /\ DOMAIN Append(q, f) = 1 .. Len(q) + 1
      /\ \A i \in 1 .. Len(q) : i \in DOMAIN q /\ Append(q, f)[i] = q[i]
      /\ Append(q, f)[Len(q) + 1] = f
      /\ Len(Append(q, f)) = Len(q) + 1
      /\ Len(q) \in Nat
  OBVIOUS
<1> QED
  BY <1>1 DEF Chain

\* The oldest frame leaves its queue.
LEMMA ChainPop ==
    ASSUME NEW q \in Seq(AnyFrame), q # <<>>, NEW d \in {0, 1}, Chain(q, d)
    PROVE  /\ Chain(Tail(q), d)
           /\ Len(Tail(q)) = Len(q) - 1
           /\ Head(q).age = Len(q) - 1 + d
           /\ Len(q) \in Nat
<1>1. /\ DOMAIN Tail(q) = 1 .. Len(q) - 1
      /\ \A i \in 1 .. Len(q) - 1 : i + 1 \in DOMAIN q /\ Tail(q)[i] = q[i + 1]
      /\ Head(q) = q[1] /\ 1 \in DOMAIN q
      /\ Len(Tail(q)) = Len(q) - 1
      /\ Len(q) \in Nat
  OBVIOUS
<1> QED
  BY <1>1 DEF Chain

\* A session begins.
LEMMA ChainOld ==
    ASSUME NEW q \in Seq(AnyFrame), NEW d \in {0, 1}, Chain(q, d)
    PROVE  Chain(Each(Old, q), d) /\ Len(Each(Old, q)) = Len(q)
<1>1. DOMAIN Each(Old, q) = 1 .. Len(q) /\ Len(q) \in Nat
  BY DEF Each
<1>2. Len(Each(Old, q)) = Len(q)
  BY <1>1, EachOld
<1>3. ASSUME NEW i \in DOMAIN q PROVE Each(Old, q)[i].age = q[i].age
  <2>1. q[i] \in AnyFrame
    OBVIOUS
  <2> QED
    BY <2>1 DEF Each, Old, AnyFrame
<1> QED
  BY <1>1, <1>2, <1>3 DEF Chain

\* Another pass begins.
LEMMA ChainAged ==
    ASSUME NEW q \in Seq(AnyFrame), Chain(q, 0)
    PROVE  Chain(Each(Aged, q), 1) /\ Len(Each(Aged, q)) = Len(q)
<1>1. DOMAIN Each(Aged, q) = 1 .. Len(q) /\ Len(q) \in Nat
  BY DEF Each
<1>2. Len(Each(Aged, q)) = Len(q)
  <2>1. Each(Aged, q) \in Seq(AnyFrame)
    BY EachAged
  <2> QED
    BY <1>1, <2>1
<1>3. ASSUME NEW i \in DOMAIN q PROVE Each(Aged, q)[i].age = q[i].age + 1
  <2>1. q[i] \in AnyFrame /\ q[i].age >= 0
    BY <1>1 DEF Chain
  <2> QED
    BY <2>1, AgedFrame DEF Each
<1> QED
  BY <1>1, <1>2, <1>3 DEF Chain

\* AgeInv holds in the initial states.
LEMMA AgeInit == Init => AgeInv
<1> SUFFICES ASSUME Init PROVE AgeInv
  OBVIOUS
<1>1. /\ rl_blend_q_target = Hold /\ rl_blend_dq_target = Hold
      /\ popped = Nothing /\ control = "out" /\ rl = "check"
      /\ output_dof_pos_queue = <<>> /\ output_dof_vel_queue = <<>>
  BY DEF Init
<1>2. frame.age = 0
  BY DEF Init
<1>3. PosDue = 0 /\ VelDue = 0
  BY <1>1 DEF PosDue, VelDue
<1>4. PosPasses = 0 /\ VelPasses = 0 /\ 0 <= MaxQueue
  BY <1>1, <1>3, HandoverAssumption DEF PosPasses, VelPasses
<1> QED
  BY <1>1, <1>2, <1>4 DEF AgeInv, Chain

\* What is due is at most one frame, and positions are pushed first.
LEMMA DueBits ==
    /\ PosDue \in {0, 1} /\ VelDue \in {0, 1} /\ PosDue <= VelDue
    /\ Types => /\ PosPasses \in Nat /\ VelPasses \in Nat
                /\ Len(output_dof_pos_queue) \in Nat
                /\ Len(output_dof_vel_queue) \in Nat
<1>1. PosDue \in {0, 1} /\ VelDue \in {0, 1} /\ PosDue <= VelDue
  BY DEF PosDue, VelDue
<1>2. Types => /\ Len(output_dof_pos_queue) \in Nat
               /\ Len(output_dof_vel_queue) \in Nat
  BY DEF Types
<1> QED
  BY <1>1, <1>2 DEF PosPasses, VelPasses

\* A step that changes no queue and nothing in force, and neither begins a pass
\* nor pushes one, is harmless if the new place of the control thread asks no
\* more of the queues than the old one.
LEMMA AgeKept ==
    ASSUME AgeInv,
           UNCHANGED <<output_dof_pos_queue, output_dof_vel_queue,
                       rl_blend_q_target, rl_blend_dq_target, popped>>,
           frame'.age = frame.age, PosDue' = PosDue, VelDue' = VelDue,
           control' = "drain_vel" => control = "drain_vel",
           control' = "pop_vel" => control = "pop_vel",
           control' \in {"drain_tau", "config", "lock", "init", "run",
                         "pop_pos", "check_change", "exit"} =>
               control \in {"drain_tau", "config", "lock", "init", "run",
                            "pop_pos", "check_change", "exit"}
    PROVE  AgeInv'
<1>1. PosPasses' = PosPasses /\ VelPasses' = VelPasses /\ Offset' = Offset
  BY DEF PosPasses, VelPasses, Offset
<1>2. /\ Chain(output_dof_pos_queue, PosDue)'
      /\ Chain(output_dof_vel_queue, VelDue)'
  BY DEF AgeInv, Chain
<1> QED
  BY <1>1, <1>2 DEF AgeInv

\* The first pop of Run; the queue of the positions is empty only if that of the
\* velocities is not longer.
LEMMA AgePopPos == AgeInv /\ SessionInv /\ Types /\ PopPos => AgeInv'
<1> SUFFICES ASSUME AgeInv, SessionInv, Types, PopPos PROVE AgeInv'
  OBVIOUS
<1>1. /\ UNCHANGED <<frame, rl, output_dof_vel_queue, rl_blend_q_target,
                     rl_blend_dq_target>>
      /\ control = "pop_pos" /\ control' = "pop_vel"
  BY DEF PopPos, Step, policyThread
<1>2. PosDue' = PosDue /\ VelDue' = VelDue /\ VelPasses' = VelPasses
  BY <1>1 DEF PosDue, VelDue, VelPasses
<1>3. popped = Nothing /\ Offset \in {-1, 0, 1}
  BY <1>1 DEF SessionInv, AgeInv
<1>4. CASE output_dof_pos_queue = <<>>
  <2>1. popped' = Nothing /\ UNCHANGED output_dof_pos_queue
    BY <1>4 DEF PopPos
  <2>2. PosPasses' = PosPasses /\ Offset' = Offset
    BY <1>2, <2>1 DEF PosPasses, Offset
  <2>3. PosPasses = PosDue
    BY <1>4, DueBits DEF PosPasses
  <2>4. Offset \in {-1, 0}
    BY <1>3, <2>3, DueBits DEF Offset, VelPasses
  <2>5. /\ Chain(output_dof_pos_queue, PosDue)'
        /\ Chain(output_dof_vel_queue, VelDue)'
    BY <1>1, <1>2, <2>1 DEF AgeInv, Chain
  <2> QED
    BY <1>1, <1>2, <1>3, <2>1, <2>2, <2>4, <2>5 DEF AgeInv
<1>5. CASE output_dof_pos_queue # <<>>
  <2>1. /\ popped' = Head(output_dof_pos_queue)
        /\ output_dof_pos_queue' = Tail(output_dof_pos_queue)
    BY <1>5 DEF PopPos
  <2>2. /\ Chain(output_dof_pos_queue', PosDue)
        /\ Len(output_dof_pos_queue') = Len(output_dof_pos_queue) - 1
        /\ popped'.age = Len(output_dof_pos_queue) - 1 + PosDue
    BY <1>5, <2>1, ChainPop, DueBits DEF AgeInv, Types
  <2>3. PosPasses' = PosPasses - 1 /\ popped'.age = PosPasses'
    BY <1>2, <2>2, DueBits DEF PosPasses
  <2>4. Offset' = Offset - 1 /\ Offset' \in {-2, -1, 0}
    BY <1>2, <1>3, <2>3, DueBits DEF Offset
  <2>5. PosPasses' \in Nat
    BY <1>2, <2>1, <2>2, <2>3, DueBits DEF PosPasses, Types
  <2>6. popped' # Nothing
    BY <2>3, <2>5, NotFrames
  <2>7. rl_blend_q_target' = Hold \/ rl_blend_q_target'.age = PosPasses' + 1
    BY <1>1, <1>3, <2>3, DueBits DEF AgeInv
  <2>8. Chain(output_dof_vel_queue, VelDue)'
    BY <1>1, <1>2 DEF AgeInv, Chain
  <2>9. PosPasses' <= MaxQueue
    BY <2>3, DueBits, HandoverAssumption DEF AgeInv
  <2> QED
    BY <1>1, <1>2, <2>2, <2>3, <2>4, <2>6, <2>7, <2>8, <2>9 DEF AgeInv
<1> QED
  BY <1>4, <1>5

\* The second pop of Run brings the velocities level again.
LEMMA AgePopVel == AgeInv /\ SessionInv /\ Types /\ PopVelAndApply => AgeInv'
<1> SUFFICES ASSUME AgeInv, SessionInv, Types, PopVelAndApply PROVE AgeInv'
  OBVIOUS
<1>1. /\ UNCHANGED <<frame, rl, output_dof_pos_queue>>
      /\ rl_blend_q_target' = IF popped = Nothing THEN rl_blend_q_target
                              ELSE popped
      /\ popped' = Nothing
      /\ control = "pop_vel" /\ control' \in {"run", "check_change"}
  BY DEF PopVelAndApply, Step, policyThread
<1>2. PosDue' = PosDue /\ VelDue' = VelDue /\ PosPasses' = PosPasses
  BY <1>1 DEF PosDue, VelDue, PosPasses
<1>3. rl_blend_q_target' = Hold \/ rl_blend_q_target'.age = PosPasses
  <2>1. PosPasses + 0 = PosPasses
    BY DueBits
  <2> QED
    BY <1>1, <2>1 DEF AgeInv
<1>4. Chain(output_dof_pos_queue, PosDue)'
  BY <1>1, <1>2 DEF AgeInv, Chain
<1>5. Offset \in IF popped = Nothing THEN {-1, 0} ELSE {-2, -1, 0}
  BY <1>1 DEF AgeInv
<1>6. PosPasses + 0 = PosPasses
  BY DueBits
<1>7. CASE output_dof_vel_queue = <<>>
  <2>1. UNCHANGED <<rl_blend_dq_target, output_dof_vel_queue>>
    BY <1>7 DEF PopVelAndApply, PopVel
  <2>2. VelPasses' = VelPasses /\ VelPasses = VelDue /\ Offset' = Offset
    BY <1>2, <1>7, <2>1, DueBits DEF VelPasses, Offset
  <2>3. Offset' \in {-1, 0, 1}
    BY <1>5, <2>2, DueBits DEF Offset
  <2>4. Chain(output_dof_vel_queue, VelDue)'
    BY <1>2, <2>1 DEF AgeInv, Chain
  <2> QED
    BY <1>1, <1>2, <1>3, <1>4, <1>6, <2>1, <2>2, <2>3, <2>4 DEF AgeInv
<1>8. CASE output_dof_vel_queue # <<>>
  <2>1. /\ rl_blend_dq_target' = Head(output_dof_vel_queue)
        /\ output_dof_vel_queue' = Tail(output_dof_vel_queue)
    BY <1>8 DEF PopVelAndApply, PopVel
  <2>2. /\ Chain(output_dof_vel_queue', VelDue)
        /\ Len(output_dof_vel_queue') = Len(output_dof_vel_queue) - 1
        /\ rl_blend_dq_target'.age = Len(output_dof_vel_queue) - 1 + VelDue
    BY <1>8, <2>1, ChainPop, DueBits DEF AgeInv, Types
  <2>3. VelPasses' = VelPasses - 1 /\ rl_blend_dq_target'.age = VelPasses'
    BY <1>2, <2>2, DueBits DEF VelPasses
  <2>4. Offset' = Offset + 1 /\ Offset' \in {-1, 0, 1}
    <3>1. Offset \in {-2, -1, 0}
      BY <1>5
    <3>2. Offset' = Offset + 1
      BY <1>2, <2>3, DueBits DEF Offset
    <3> QED
      BY <3>1, <3>2
  <2>5. VelPasses' <= MaxQueue
    BY <2>3, DueBits, HandoverAssumption DEF AgeInv
  <2> QED
    BY <1>1, <1>2, <1>3, <1>4, <1>6, <2>2, <2>3, <2>4, <2>5 DEF AgeInv
<1> QED
  BY <1>7, <1>8

\* The steps of the control thread preserve AgeInv.
LEMMA AgeControl == AgeInv /\ SessionInv /\ Types /\ Control => AgeInv'
<1> SUFFICES ASSUME AgeInv, SessionInv, Types, Control PROVE AgeInv'
  OBVIOUS
<1> USE DEF shared, blend, policyThread, history, outputs, Step
<1>1. CASE EnterReset
  <2>1. /\ output_dof_pos_queue' = Each(Old, output_dof_pos_queue)
        /\ output_dof_vel_queue' = Each(Old, output_dof_vel_queue)
        /\ frame' = Old(frame)
        /\ rl_blend_q_target' = Hold /\ rl_blend_dq_target' = Hold
        /\ popped' = Nothing
        /\ control' = "drain_pos" /\ UNCHANGED rl
    BY <1>1 DEF EnterReset, SessionInv
  <2>2. frame'.age = 0
    BY <2>1 DEF Old, Types, AnyFrame, AgeInv
  <2>3. PosDue' = PosDue /\ VelDue' = VelDue
    BY <2>1 DEF PosDue, VelDue
  <2>4. /\ Chain(output_dof_pos_queue, PosDue)'
        /\ Chain(output_dof_vel_queue, VelDue)'
        /\ PosPasses' = PosPasses /\ VelPasses' = VelPasses
    BY <2>1, <2>3, ChainOld, DueBits DEF AgeInv, Types, PosPasses, VelPasses
  <2> QED
    BY <2>1, <2>2, <2>4 DEF AgeInv
<1>2. CASE DrainPos
  <2>1. /\ output_dof_pos_queue' = <<>>
        /\ UNCHANGED <<output_dof_vel_queue, frame, rl, rl_blend_q_target,
                       rl_blend_dq_target, popped>>
        /\ rl_blend_q_target = Hold
        /\ control' = "drain_vel"
    BY <1>2 DEF DrainPos, SessionInv, Entering
  <2>2. PosDue' = PosDue /\ VelDue' = VelDue
    BY <2>1 DEF PosDue, VelDue
  <2>3. PosPasses' = PosDue /\ VelPasses' = VelPasses
    BY <2>1, <2>2, DueBits DEF PosPasses, VelPasses
  <2>4. PosPasses' <= MaxQueue /\ PosPasses' <= 1
    BY <2>3, DueBits, HandoverAssumption
  <2>5. Chain(output_dof_pos_queue, PosDue)' /\ Chain(output_dof_vel_queue, VelDue)'
    BY <2>1, <2>2 DEF AgeInv, Chain
  <2>6. popped = Nothing
    BY <1>2 DEF DrainPos, SessionInv
  <2> QED
    BY <2>1, <2>3, <2>4, <2>5, <2>6 DEF AgeInv
<1>3. CASE DrainVel
  <2>1. /\ output_dof_vel_queue' = <<>>
        /\ UNCHANGED <<output_dof_pos_queue, frame, rl, rl_blend_q_target,
                       rl_blend_dq_target, popped>>
        /\ rl_blend_dq_target = Hold
        /\ control = "drain_vel" /\ control' = "drain_tau"
    BY <1>3 DEF DrainVel, SessionInv, Entering
  <2>2. PosDue' = PosDue /\ VelDue' = VelDue
    BY <2>1 DEF PosDue, VelDue
  <2>3. PosPasses' = PosPasses /\ VelPasses' = VelDue
    BY <2>1, <2>2, DueBits DEF PosPasses, VelPasses
  <2>4. VelPasses' <= MaxQueue
    BY <2>3, DueBits, HandoverAssumption
  <2>5. Chain(output_dof_pos_queue, PosDue)' /\ Chain(output_dof_vel_queue, VelDue)'
    BY <2>1, <2>2 DEF AgeInv, Chain
  <2>6. PosPasses \in {0, 1}
    BY <2>1, DueBits DEF AgeInv
  <2>7. Offset' \in {-1, 0, 1}
    BY <2>3, <2>6, DueBits DEF Offset
  <2> QED
    BY <2>1, <2>3, <2>4, <2>5, <2>7 DEF AgeInv
<1>4. CASE DrainTau \/ \E p \in Policy : SetConfig(p)
  BY <1>4, AgeKept DEF DrainTau, SetConfig, PosDue, VelDue
<1>5. CASE LockModel \/ InitRL \/ InitRLThrows
  BY <1>5, AgeKept DEF LockModel, InitRL, InitRLThrows, PosDue, VelDue
<1>6. CASE RunSwitches \/ Run
  BY <1>6, AgeKept DEF RunSwitches, Run, PosDue, VelDue
<1>7. CASE PopPos
  BY <1>7, AgePopPos
<1>8. CASE PopVelAndApply
  BY <1>8, AgePopVel
<1>9. CASE KeepState \/ AutoExit \/ LeaveByKey \/ Exit
  BY <1>9, AgeKept DEF KeepState, AutoExit, LeaveByKey, Exit, PosDue, VelDue
<1> QED
  BY <1>1, <1>2, <1>3, <1>4, <1>5, <1>6, <1>7, <1>8, <1>9 DEF Control

\* The steps of the policy thread preserve AgeInv.
LEMMA AgeRunModel == AgeInv /\ SessionInv /\ Types /\ RunModel => AgeInv'
<1> SUFFICES ASSUME AgeInv, SessionInv, Types, RunModel PROVE AgeInv'
  OBVIOUS
<1> USE DEF shared, blend, policyThread, history, outputs, RlStep
<1>1. CASE RlCheck
  <2>1. /\ output_dof_pos_queue' = Each(Aged, output_dof_pos_queue)
        /\ output_dof_vel_queue' = Each(Aged, output_dof_vel_queue)
        /\ rl_blend_q_target' = Aged(rl_blend_q_target)
        /\ rl_blend_dq_target' = Aged(rl_blend_dq_target)
        /\ popped' = Aged(popped)
        /\ rl = "check" /\ rl' = "read" /\ rl_init_done
        /\ Len(output_dof_pos_queue) < MaxQueue
        /\ Len(output_dof_vel_queue) < MaxQueue
        /\ UNCHANGED control
    BY <1>1 DEF RlCheck
  <2>2. frame'.age = 0
    BY <1>1 DEF RlCheck
  <2>3. PosDue = 0 /\ VelDue = 0 /\ PosDue' = 1 /\ VelDue' = 1
    BY <2>1 DEF PosDue, VelDue
  <2>4. /\ Chain(output_dof_pos_queue, PosDue)'
        /\ Chain(output_dof_vel_queue, VelDue)'
        /\ PosPasses' = PosPasses + 1 /\ VelPasses' = VelPasses + 1
    BY <2>1, <2>3, ChainAged, DueBits DEF AgeInv, Types, PosPasses, VelPasses
  <2>5. PosPasses' <= MaxQueue /\ VelPasses' <= MaxQueue
    BY <2>1, <2>3, <2>4, DueBits, HandoverAssumption DEF PosPasses, VelPasses
  <2>6. Offset' = Offset
    BY <2>4, DueBits DEF Offset
  <2>7. /\ popped = Nothing => popped' = Nothing
        /\ popped # Nothing => popped' # Nothing /\ popped'.age = PosPasses'
    <3>1. CASE popped # Nothing
      <4>1. popped.age = PosPasses /\ popped \in AnyFrame
        BY <3>1 DEF AgeInv, SessionInv
      <4>2. popped'.age = PosPasses + 1
        BY <2>1, <4>1, AgedFrame, DueBits
      <4> QED
        BY <2>4, <3>1, <4>2, NotFrames, DueBits
    <3> QED
      BY <2>1, <3>1, AgedFrame, NotFrames
  <2>8. rl_blend_q_target' = Hold \/
          rl_blend_q_target'.age = PosPasses' + (IF popped' = Nothing THEN 0 ELSE 1)
    <3>1. CASE rl_blend_q_target # Hold
      <4> DEFINE k == IF popped = Nothing THEN 0 ELSE 1
      <4>1. /\ rl_blend_q_target.age = PosPasses + k
            /\ rl_blend_q_target \in AnyFrame /\ k \in {0, 1}
        BY <3>1 DEF AgeInv, SessionInv
      <4>2. rl_blend_q_target'.age = PosPasses + k + 1
        BY <2>1, <4>1, AgedFrame, DueBits
      <4>3. k = IF popped' = Nothing THEN 0 ELSE 1
        BY <2>7
      <4> QED
        BY <2>4, <4>1, <4>2, <4>3, DueBits
    <3> QED
      BY <2>1, <3>1, AgedFrame, NotFrames
  <2>9. rl_blend_dq_target' = Hold \/ rl_blend_dq_target'.age = VelPasses'
    <3>1. CASE rl_blend_dq_target # Hold
      <4>1. /\ rl_blend_dq_target.age = VelPasses
            /\ rl_blend_dq_target \in AnyFrame
        BY <3>1 DEF AgeInv, SessionInv
      <4> QED
        BY <2>1, <2>4, <4>1, AgedFrame, DueBits
    <3> QED
      BY <2>1, <3>1, AgedFrame, NotFrames
  <2>10. control # "drain_vel"
    BY <2>1 DEF SessionInv, Entering
  <2> QED
    BY <2>1, <2>2, <2>4, <2>5, <2>6, <2>7, <2>8, <2>9, <2>10 DEF AgeInv
<1>2. CASE ReadCount \/ WriteCount \/ TryLock \/ InferThrows
  BY <1>2, AgeKept DEF ReadCount, WriteCount, TryLock, InferThrows, PosDue, VelDue
<1>3. CASE UsePreviousActions \/ Infer
  <2>1. /\ UNCHANGED <<control, output_dof_pos_queue, output_dof_vel_queue,
                       rl_blend_q_target, rl_blend_dq_target, popped>>
        /\ rl \in {"forward", "infer"} /\ rl' = "push_pos"
        /\ frame' = [frame EXCEPT !.by = actions]
             \/ frame' = [frame EXCEPT !.by = model]
    BY <1>3 DEF UsePreviousActions, Infer
  <2>2. frame'.age = frame.age
    BY <2>1 DEF Types, AnyFrame
  <2> QED
    BY <2>1, <2>2, AgeKept DEF PosDue, VelDue
<1>4. CASE PushPos
  <2>1. /\ output_dof_pos_queue' = Append(output_dof_pos_queue, frame)
        /\ UNCHANGED <<control, frame, output_dof_vel_queue,
                       rl_blend_q_target, rl_blend_dq_target, popped>>
        /\ rl = "push_pos" /\ rl' = "push_vel"
    BY <1>4 DEF PushPos
  <2>2. PosDue = 1 /\ PosDue' = 0 /\ VelDue = 1 /\ VelDue' = 1
    BY <2>1 DEF PosDue, VelDue
  <2>3. /\ Chain(output_dof_pos_queue, PosDue)'
        /\ Len(output_dof_pos_queue') = Len(output_dof_pos_queue) + 1
    BY <2>1, <2>2, ChainPush DEF AgeInv, Types
  <2>4. PosPasses' = PosPasses /\ VelPasses' = VelPasses /\ Offset' = Offset
    BY <2>1, <2>2, <2>3, DueBits DEF PosPasses, VelPasses, Offset
  <2>5. Chain(output_dof_vel_queue, VelDue)'
    BY <2>1, <2>2 DEF AgeInv, Chain
  <2> QED
    BY <2>1, <2>3, <2>4, <2>5 DEF AgeInv
<1>5. CASE PushVel
  <2>1. /\ output_dof_vel_queue' = Append(output_dof_vel_queue, frame)
        /\ UNCHANGED <<control, frame, output_dof_pos_queue,
                       rl_blend_q_target, rl_blend_dq_target, popped>>
        /\ rl = "push_vel" /\ rl' = "push_tau"
    BY <1>5 DEF PushVel
  <2>2. PosDue = 0 /\ PosDue' = 0 /\ VelDue = 1 /\ VelDue' = 0
    BY <2>1 DEF PosDue, VelDue
  <2>3. /\ Chain(output_dof_vel_queue, VelDue)'
        /\ Len(output_dof_vel_queue') = Len(output_dof_vel_queue) + 1
    BY <2>1, <2>2, ChainPush DEF AgeInv, Types
  <2>4. PosPasses' = PosPasses /\ VelPasses' = VelPasses /\ Offset' = Offset
    BY <2>1, <2>2, <2>3, DueBits DEF PosPasses, VelPasses, Offset
  <2>5. Chain(output_dof_pos_queue, PosDue)'
    BY <2>1, <2>2 DEF AgeInv, Chain
  <2> QED
    BY <2>1, <2>3, <2>4, <2>5 DEF AgeInv
<1>6. CASE PushTau
  BY <1>6, AgeKept DEF PushTau, PosDue, VelDue
<1> QED
  BY <1>1, <1>2, <1>3, <1>4, <1>5, <1>6 DEF RunModel

\* Every state the two threads reach satisfies AgeInv.
LEMMA AgeHolds == Spec => []AgeInv
<1>1. AgeInv /\ UNCHANGED vars => AgeInv'
  BY AgeKept DEF vars, shared, outputs, blend, policyThread, history, PosDue,
     VelDue
<1>2. AgeInv /\ SessionInv /\ Types /\ [Next]_vars => AgeInv'
  BY <1>1, AgeControl, AgeRunModel DEF Next
<1>3. StaleInv => Types
  BY DEF StaleInv
<1> QED
  BY <1>2, <1>3, AgeInit, SessionHolds, StaleHolds, PTL DEF Spec

\* The positions and the velocities in force are never more than one frame
\* apart, whatever the backlog and wherever the two threads meet.
THEOREM NeighbouringFramesHolds == Spec => []NeighbouringFrames
<1>1. AgeInv /\ SessionInv /\ Types => NeighbouringFrames
  <2> SUFFICES ASSUME AgeInv, SessionInv, Types, control = "run",
                      rl_blend_q_target # Hold, rl_blend_dq_target # Hold
               PROVE  rl_blend_q_target.age - rl_blend_dq_target.age \in {-1, 0, 1}
    BY DEF NeighbouringFrames
  <2>1. popped = Nothing /\ Offset \in {-1, 0, 1}
    BY DEF SessionInv, AgeInv
  <2>2. /\ rl_blend_q_target.age = PosPasses + 0
        /\ rl_blend_dq_target.age = VelPasses
    BY <2>1 DEF AgeInv
  <2> QED
    BY <2>1, <2>2, DueBits DEF Offset
<1>2. StaleInv => Types
  BY DEF StaleInv
<1> QED
  BY <1>1, <1>2, AgeHolds, SessionHolds, StaleHolds, PTL

(***************************************************************************)
(* The types.                                                              *)
(***************************************************************************)

\* The places of the threads, the holder of the mutex and the plain flags.
FlagTypes ==
    /\ model_mutex \in {"free", "control", "rl"}
    /\ output_dof_tau_queue \in {0, 1}
    /\ control \in {"out", "drain_pos", "drain_vel", "drain_tau", "config",
                    "lock", "init", "run", "pop_pos", "pop_vel",
                    "check_change", "exit"}
    /\ entering \in BOOLEAN
    /\ rl \in {"check", "read", "write", "forward", "infer",
               "push_pos", "push_vel", "push_tau"}
    /\ aborted \in BOOLEAN

\* FlagTypes holds in the initial states.
LEMMA FlagInit == Init => FlagTypes
  BY DEF Init, FlagTypes

\* FlagTypes is preserved by every step of the two threads.
LEMMA FlagNext == FlagTypes /\ [Next]_vars => FlagTypes'
<1> SUFFICES ASSUME FlagTypes, [Next]_vars PROVE FlagTypes'
  OBVIOUS
<1> USE DEF FlagTypes, shared, outputs, blend, policyThread, history, Step, RlStep
<1>1. CASE EnterReset
  BY <1>1 DEF EnterReset
<1>2. CASE DrainPos \/ DrainVel \/ DrainTau \/ \E p \in Policy : SetConfig(p)
  BY <1>2 DEF DrainPos, DrainVel, DrainTau, SetConfig
<1>3. CASE LockModel \/ InitRL \/ InitRLThrows \/ RunSwitches \/ Run
  BY <1>3 DEF LockModel, InitRL, InitRLThrows, RunSwitches, Run
<1>4. CASE PopPos \/ PopVelAndApply
  BY <1>4 DEF PopPos, PopVelAndApply
<1>5. CASE KeepState \/ AutoExit \/ LeaveByKey \/ Exit
  BY <1>5 DEF KeepState, AutoExit, LeaveByKey, Exit
<1>6. CASE RlCheck \/ ReadCount \/ WriteCount \/ TryLock \/ UsePreviousActions
  BY <1>6 DEF RlCheck, ReadCount, WriteCount, TryLock, UsePreviousActions
<1>7. CASE Infer
  BY <1>7 DEF Infer
<1>8. CASE InferThrows \/ PushPos \/ PushVel \/ PushTau
  BY <1>8 DEF InferThrows, PushPos, PushVel, PushTau
<1>9. CASE UNCHANGED vars
  BY <1>9 DEF vars
<1> QED
  BY <1>1, <1>2, <1>3, <1>4, <1>5, <1>6, <1>7, <1>8, <1>9
     DEF Next, Control, RunModel

\* A frame of any age is one of the type if its age is in range.
LEMMA FrameOfAge ==
    ASSUME NEW f \in AnyFrame, 0 <= f.age, f.age <= MaxAge
    PROVE  f \in Frame
  BY HandoverAssumption DEF AnyFrame, Frame, MaxAge

\* A backlog holds frames of the type.
LEMMA QueueOfAges ==
    ASSUME NEW q \in Seq(AnyFrame), NEW d \in {0, 1}, Chain(q, d),
           Len(q) + d <= MaxQueue
    PROVE  q \in Seq(Frame)
<1>1. ASSUME NEW i \in DOMAIN q PROVE q[i] \in Frame
  <2>1. q[i] \in AnyFrame /\ Len(q) \in Nat /\ i \in 1 .. Len(q)
    OBVIOUS
  <2>2. 0 <= q[i].age /\ q[i].age <= MaxAge
    BY <2>1, HandoverAssumption DEF Chain, MaxAge
  <2> QED
    BY <2>1, <2>2, FrameOfAge
<1>2. q \in [1 .. Len(q) -> Frame] /\ Len(q) \in Nat
  BY <1>1
<1> QED
  BY <1>2

\* The variables keep their types; in particular no frame that is queued or in
\* force is older than the backlog allows.
THEOREM HandoverTypeCorrect == Spec => []TypeOK
<1>1. ASSUME FlagTypes, StaleInv, CountInv, BlendInv, SessionInv, AgeInv
      PROVE  TypeOK
  <2>1. Types
    BY <1>1 DEF StaleInv
  <2>2. MaxQueue \in Nat
    BY HandoverAssumption
  <2>3. /\ output_dof_pos_queue \in Seq(Frame)
        /\ output_dof_vel_queue \in Seq(Frame)
    BY <1>1, <2>1, QueueOfAges, DueBits DEF AgeInv, Types, PosPasses, VelPasses
  <2>4. frame \in Frame
    <3>1. frame \in AnyFrame /\ frame.age = 0
      BY <1>1, <2>1 DEF Types, AgeInv
    <3> QED
      BY <2>2, <3>1, FrameOfAge DEF MaxAge
  <2>5. rl_blend_q_target \in Frame \cup {Hold}
    <3>1. rl_blend_q_target \in AnyFrame
      BY <1>1 DEF SessionInv
    <3>2. CASE rl_blend_q_target # Hold
      <4> DEFINE k == IF popped = Nothing THEN 0 ELSE 1
      <4>1. rl_blend_q_target.age = PosPasses + k /\ k \in {0, 1}
        BY <1>1, <3>2 DEF AgeInv
      <4>2. 0 <= rl_blend_q_target.age /\ rl_blend_q_target.age <= MaxAge
        BY <1>1, <2>1, <2>2, <4>1, DueBits DEF AgeInv, MaxAge
      <4> QED
        BY <3>1, <4>2, FrameOfAge
    <3> QED
      BY <3>2
  <2>6. rl_blend_dq_target \in Frame \cup {Hold}
    <3>1. rl_blend_dq_target \in AnyFrame
      BY <1>1 DEF SessionInv
    <3>2. CASE rl_blend_dq_target # Hold
      <4>1. 0 <= rl_blend_dq_target.age /\ rl_blend_dq_target.age <= MaxAge
        BY <1>1, <2>1, <2>2, <3>2, DueBits DEF AgeInv, MaxAge
      <4> QED
        BY <3>1, <4>1, FrameOfAge
    <3> QED
      BY <3>2
  <2>7. popped \in Frame \cup {Nothing}
    <3>1. popped \in AnyFrame
      BY <1>1 DEF SessionInv
    <3>2. CASE popped # Nothing
      <4>1. 0 <= popped.age /\ popped.age <= MaxAge
        BY <1>1, <2>1, <2>2, <3>2, DueBits DEF AgeInv, MaxAge
      <4> QED
        BY <3>1, <4>1, FrameOfAge
    <3> QED
      BY <3>2
  <2> QED
    BY <1>1, <2>1, <2>3, <2>4, <2>5, <2>6, <2>7 DEF TypeOK, FlagTypes, Types,
       CountInv, Count, BlendInv, SessionInv
<1>2. Spec => []FlagTypes
  BY FlagInit, FlagNext, PTL DEF Spec
<1> QED
  BY <1>1, <1>2, StaleHolds, CountHolds, BlendHolds, SessionHolds, AgeHolds, PTL
=============================================================================
