---------------------------- MODULE ThreadsProofs ---------------------------
(***************************************************************************)
(* Proofs about the components of MCThreads, each for every value of its   *)
(* constants: about LoopFunc for every set of threads and every order in   *)
(* which the destructor shuts them down, about Viewer for every number of  *)
(* loads and of presses of Reload, about MotionSwitch for every number of  *)
(* calls that fail.                                                        *)
(***************************************************************************)
EXTENDS MCThreads, TLAPS

\* A loop for which "Loop end" was printed was told to stop before, under its
\* mutex; and once it has begun the one call that was still to come, nothing
\* leads it back to the next.
StopInv ==
    /\ main \in {"notify", "end"} => ~running[Order[next]]
    /\ \A l \in ended : ~running[l]
    /\ \A l \in Loop \ ended : late[l] = 0
    /\ \A l \in Loop : late[l] = 0 \/ (late[l] = 1 /\ loop_pc[l] # "call")

LoopInv == L!TypeOK /\ StopInv

\* The loop that the destructor is at.
LEMMA OrderedLoop ==
    ASSUME L!LoopAssumption, NEW i \in 1 .. Len(Order)
    PROVE  Order[i] \in Loop
  BY DEF L!LoopAssumption

LEMMA LoopInvInit ==
    ASSUME L!LoopAssumption, L!Init
    PROVE  LoopInv
<1>1. 1 \in 1 .. Len(Order)
  BY DEF L!LoopAssumption
<1>2. L!TypeOK
  BY <1>1 DEF L!Init, L!TypeOK
<1>3. StopInv
  BY DEF L!Init, StopInv
<1> QED
  BY <1>2, <1>3 DEF LoopInv

\* The step of a thread that takes or releases its mutex with its program
\* counter, or neither.
LEMMA ThreadTypes ==
    ASSUME L!TypeOK, NEW l \in Loop,
           L!Step(l) \/ L!Expire(l) \/ L!WakeSpuriously(l)
    PROVE  L!TypeOK'
<1>1. CASE L!Check(l) \/ L!Func(l) \/ L!WakeSpuriously(l)
  BY <1>1 DEF L!TypeOK, L!Check, L!Func, L!WakeSpuriously, L!Goes
<1>2. CASE L!Call(l)
  BY <1>2 DEF L!TypeOK, L!Call, L!Goes
<1>3. CASE L!Lock(l)
  BY <1>3 DEF L!TypeOK, L!Lock, L!Goes
<1>4. CASE L!Test(l)
  <2>1. CASE ~running[l] \/ expired[l]
    BY <1>4, <2>1 DEF L!TypeOK, L!Test, L!Goes
  <2>2. CASE running[l] /\ ~expired[l]
    BY <1>4, <2>2 DEF L!TypeOK, L!Test, L!Goes
  <2> QED
    BY <2>1, <2>2
<1>5. CASE L!Block(l)
  BY <1>5 DEF L!TypeOK, L!Block, L!Goes
<1>6. CASE L!Expire(l)
  BY <1>6 DEF L!TypeOK, L!Expire, L!Goes
<1>7. CASE L!Relock(l)
  BY <1>7 DEF L!TypeOK, L!Relock, L!Goes
<1> QED
  BY <1>1, <1>2, <1>3, <1>4, <1>5, <1>6, <1>7 DEF L!Step

\* Only Check leads to the next call, and only of a loop that still runs; Call
\* itself counts.
LEMMA ThreadStops ==
    ASSUME LoopInv, NEW l \in Loop,
           L!Step(l) \/ L!Expire(l) \/ L!WakeSpuriously(l)
    PROVE  StopInv'
<1> USE DEF LoopInv, L!TypeOK, StopInv
<1>1. CASE L!Call(l)
  <2>1. /\ loop_pc[l] = "call" /\ loop_pc' = [loop_pc EXCEPT ![l] = "func"]
        /\ late' = [late EXCEPT ![l] =
                        IF l \in ended /\ @ < 2 THEN @ + 1 ELSE @]
        /\ UNCHANGED <<running, main, next, ended>>
    BY <1>1 DEF L!Call, L!Goes
  <2>2. late[l] = 0
    BY <2>1
  <2>3. late'[l] = (IF l \in ended THEN 1 ELSE 0) /\ loop_pc'[l] = "func"
    BY <2>1, <2>2
  <2>4. \A m \in Loop \ {l} : late'[m] = late[m] /\ loop_pc'[m] = loop_pc[m]
    BY <2>1
  <2> QED
    BY <2>1, <2>3, <2>4
<1>2. CASE ~L!Call(l)
  <2>1. UNCHANGED <<running, late, main, next, ended>>
    BY <1>2 DEF L!Step, L!Check, L!Func, L!Lock, L!Test, L!Block, L!Expire,
       L!WakeSpuriously, L!Relock
  <2>2. \A m \in Loop \ {l} : loop_pc'[m] = loop_pc[m]
    BY <1>2 DEF L!Step, L!Check, L!Func, L!Lock, L!Test, L!Block, L!Expire,
       L!WakeSpuriously, L!Relock, L!Goes
  <2>3. loop_pc'[l] = "call" => running[l]
    BY <1>2 DEF L!Step, L!Check, L!Func, L!Lock, L!Test, L!Block, L!Expire,
       L!WakeSpuriously, L!Relock, L!Goes
  <2>4. running[l] => late[l] = 0
    OBVIOUS
  <2> QED
    BY <2>1, <2>2, <2>3, <2>4
<1> QED
  BY <1>1, <1>2

\* The destructor.
LEMMA MainNext ==
    ASSUME L!LoopAssumption, LoopInv, L!Begin \/ L!Shutdown
    PROVE  LoopInv'
<1> USE DEF LoopInv, L!TypeOK, StopInv
<1>0. /\ Order[next] \in Loop
      /\ Len(Order) \in Nat /\ next \in 1 .. Len(Order)
  BY OrderedLoop DEF L!LoopAssumption
<1>1. CASE L!Begin
  BY <1>1 DEF L!Begin, L!thread
<1>2. CASE L!ShutdownLock
  BY <1>0, <1>2 DEF L!ShutdownLock, L!thread
<1>3. CASE L!ShutdownStop
  BY <1>0, <1>3 DEF L!ShutdownStop, L!thread
<1>4. CASE L!ShutdownNotify
  BY <1>0, <1>4 DEF L!ShutdownNotify
<1>5. CASE L!ShutdownEnd
  <2>1. next' \in 1 .. Len(Order)
    BY <1>0, <1>5 DEF L!ShutdownEnd, L!Last
  <2>2. main' \in {"exit", "lock"}
    BY <1>5 DEF L!ShutdownEnd
  <2>3. ended' = ended \cup {Order[next]} /\ ~running[Order[next]]
    BY <1>5 DEF L!ShutdownEnd
  <2>4. UNCHANGED <<running, mutex, loop_pc, expired, late>>
    BY <1>5 DEF L!ShutdownEnd, L!thread
  <2>5. L!TypeOK'
    BY <1>0, <2>1, <2>2, <2>3, <2>4
  <2>6. StopInv'
    BY <1>0, <2>2, <2>3, <2>4
  <2> QED
    BY <2>5, <2>6
<1> QED
  BY <1>1, <1>2, <1>3, <1>4, <1>5 DEF L!Shutdown

LEMMA LoopInvNext ==
    ASSUME L!LoopAssumption, LoopInv, [L!Next]_(L!vars)
    PROVE  LoopInv'
<1>1. CASE L!Begin \/ L!Shutdown
  BY <1>1, MainNext
<1>2. ASSUME NEW l \in Loop, L!Step(l) \/ L!Expire(l) \/ L!WakeSpuriously(l)
      PROVE LoopInv'
  BY <1>2, ThreadTypes, ThreadStops DEF LoopInv
<1>3. CASE UNCHANGED L!vars
  BY <1>3 DEF L!vars, L!thread, LoopInv, L!TypeOK, StopInv
<1> QED
  BY <1>1, <1>2, <1>3 DEF L!Next
-----------------------------------------------------------------------------
\* The hand-shake of a load.  The physics thread alone begins a load (3), asks
\* (2) and waits; the render thread alone counts the request down, and takes
\* the new data in the step in which it reaches 0.
HandshakeInv ==
    /\ loadrequest \in {1, 2} => physics = "wait"
    /\ physics = "wait" => loadrequest \in {0, 1, 2}
    /\ physics = "wait" /\ loadrequest # 0 => dnew_ = loads
    /\ physics = "wait" /\ loadrequest = 0 => d_ = loads
    /\ physics = "swap" => d_ = loads /\ kind # "boot"

\* The data that a load brings is there until another load has replaced it, and
\* is not the one the physics thread is about to delete.
LoadInv ==
    /\ d <= loads
    /\ physics = "data" => kind = "boot"
    /\ physics \in {"data", "load", "wait", "swap"} => loads \in live \ {0}
    /\ physics \in {"load", "wait", "swap"} /\ kind # "boot" => d < loads

\* Before the end nothing that is held was deleted.
HeldInv ==
    exitrequest = 0 => {d, d_} \subseteq live \cup {0}

\* The render thread looks at the data only if there is one.
SyncInv == render = "sync" => d_ # 0

ViewerInv == V!TypeOK /\ HandshakeInv /\ LoadInv /\ HeldInv /\ SyncInv
\* The physics thread keeps the types ...
LEMMA PhysicsTypes ==
    ASSUME V!ViewerAssumption, V!TypeOK, V!Physics
    PROVE  V!TypeOK'
<1> USE DEF V!ViewerAssumption, V!TypeOK, V!requests, V!data, V!flags,
   V!AfterLoad
<1>1. CASE V!LoopTop
  BY <1>1 DEF V!LoopTop
<1>2. CASE V!UiRequest
  BY <1>2 DEF V!UiRequest
<1>3. CASE V!LoadMessage
  BY <1>3 DEF V!LoadMessage
<1>4. ASSUME NEW ok \in BOOLEAN, V!LoadModel(ok) PROVE V!TypeOK'
  <2>1. droploadrequest' \in BOOLEAN
    BY <1>4, Zenon DEF V!LoadModel
  <2>2. run' \in BOOLEAN
    BY <1>4 DEF V!LoadModel
  <2>3. loads' \in 0 .. MaxLoads /\ live' \subseteq 1 .. MaxLoads
    <3>1. \/ /\ loads < MaxLoads /\ loads' = loads + 1
             /\ live' = live \cup {loads + 1}
          \/ UNCHANGED <<loads, live>>
      BY <1>4, Zenon DEF V!LoadModel
    <3>2. /\ MaxLoads \in Nat /\ loads \in 0 .. MaxLoads
          /\ live \subseteq 1 .. MaxLoads
      OBVIOUS
    <3>3. CASE /\ loads < MaxLoads
               /\ loads' = loads + 1 /\ live' = live \cup {loads + 1}
      <4>1. loads + 1 \in 1 .. MaxLoads /\ loads + 1 \in 0 .. MaxLoads
        BY <3>2, <3>3
      <4> QED
        BY <3>2, <3>3, <4>1
    <3> QED
      BY <3>1, <3>2, <3>3
  <2>4. physics' \in {"data", "load", "clear"}
    BY <1>4 DEF V!LoadModel
  <2>5. UNCHANGED <<mtx, loadrequest, uiloadrequest, exitrequest, d, dnew_, d_,
                    mj_data, simulation_running, closing, kind, render,
                    control>>
    BY <1>4 DEF V!LoadModel
  <2> QED
    BY <2>1, <2>2, <2>3, <2>4, <2>5
<1>5. CASE V!MakeData \/ V!Load \/ V!Loaded
  <2>1. CASE V!MakeData
    BY <2>1 DEF V!MakeData
  <2>2. CASE V!Load
    BY <2>2 DEF V!Load
  <2>3. CASE V!Loaded
    BY <2>3 DEF V!Loaded
  <2> QED
    BY <1>5, <2>1, <2>2, <2>3
<1>6. CASE V!Swap
  BY <1>6 DEF V!Swap
<1>7. CASE V!LoadMessageClear
  BY <1>7 DEF V!LoadMessageClear
<1>8. CASE V!Step
  BY <1>8 DEF V!Step
<1> QED
  BY <1>1, <1>2, <1>3, <1>4, <1>5, <1>6, <1>7, <1>8 DEF V!Physics

\* ... and so do the others.
LEMMA OtherTypes ==
    ASSUME V!ViewerAssumption, V!TypeOK,
           V!Render \/ V!Control \/ V!signalHandler \/ UNCHANGED V!vars
    PROVE  V!TypeOK'
<1> USE DEF V!ViewerAssumption, V!TypeOK, V!requests, V!data, V!flags,
   V!threads
<1>1. CASE V!RL_Sim \/ V!RenderCheck
  BY <1>1 DEF V!RL_Sim, V!RenderCheck
<1>2. CASE V!RenderLock
  BY <1>2 DEF V!RenderLock
<1>3. CASE V!PollEvents
  <2>1. run' \in BOOLEAN
    <3>1. run \in BOOLEAN /\ (run' = run \/ run' = ~run)
      BY <1>3 DEF V!PollEvents, V!PollNothing, V!PollQuit, V!PollReload,
         V!PollPause, V!PollClose
    <3> QED
      BY <3>1, Zenon
  <2>2. /\ uiloadrequest' \in 0 .. MaxReloads /\ exitrequest' \in 0 .. 2
        /\ droploadrequest' = droploadrequest
        /\ closing' = closing \/ closing' = TRUE
    BY <1>3 DEF V!PollEvents, V!PollNothing, V!PollQuit, V!PollReload,
       V!PollPause, V!PollClose
  <2> QED
    BY <1>3, <2>1, <2>2 DEF V!PollEvents
<1>4. CASE V!DropFile
  BY <1>4 DEF V!DropFile
<1>5. CASE V!SyncNot \/ V!Sync \/ V!SyncEnd \/ V!RenderEnd
  <2>1. CASE V!SyncNot \/ V!SyncEnd
    BY <2>1 DEF V!SyncNot, V!SyncEnd
  <2>2. CASE V!Sync
    BY <2>2 DEF V!Sync
  <2>3. CASE V!RenderEnd
    BY <2>3 DEF V!RenderEnd
  <2> QED
    BY <1>5, <2>1, <2>2, <2>3
<1>6. CASE V!RobotControl \/ V!Shutdown \/ V!signalHandler
  <2>1. CASE V!RobotControl
    BY <2>1 DEF V!RobotControl
  <2>2. CASE V!Shutdown
    BY <2>2 DEF V!Shutdown
  <2>3. CASE V!signalHandler
    BY <2>3 DEF V!signalHandler
  <2> QED
    BY <1>6, <2>1, <2>2, <2>3
<1>7. ASSUME NEW enter \in BOOLEAN, V!RobotControlEnd(enter) PROVE V!TypeOK'
  <2>1. {run', simulation_running'} \subseteq BOOLEAN
    <3>1. /\ {run, simulation_running} \subseteq BOOLEAN
          /\ run' \in {run, ~simulation_running}
          /\ simulation_running' \in {simulation_running, ~simulation_running}
      BY <1>7, Zenon DEF V!RobotControlEnd
    <3> QED
      BY <3>1, Zenon
  <2> QED
    BY <1>7, <2>1 DEF V!RobotControlEnd
<1>8. CASE UNCHANGED V!vars
  BY <1>8 DEF V!vars
<1> QED
  BY <1>1, <1>2, <1>3, <1>4, <1>5, <1>6, <1>7, <1>8 DEF V!Render, V!Control

\* What the physics thread does to the hand-shake and to the data.
LEMMA PhysicsNext ==
    ASSUME V!TypeOK, HandshakeInv, LoadInv, HeldInv, SyncInv, V!Physics
    PROVE  (HandshakeInv /\ LoadInv /\ HeldInv /\ SyncInv)'
<1> USE DEF V!TypeOK, HandshakeInv, LoadInv, HeldInv, SyncInv, V!requests,
   V!data, V!flags, V!AfterLoad
<1>1. CASE V!LoopTop
  BY <1>1 DEF V!LoopTop
<1>2. CASE V!UiRequest
  BY <1>2 DEF V!UiRequest
<1>3. CASE V!LoadMessage
  BY <1>3 DEF V!LoadMessage
<1>4. ASSUME NEW ok \in BOOLEAN, V!LoadModel(ok)
      PROVE  (HandshakeInv /\ LoadInv /\ HeldInv /\ SyncInv)'
  <2>1. /\ UNCHANGED <<loadrequest, exitrequest, d, dnew_, d_, kind, render>>
        /\ physics = "model"
    BY <1>4 DEF V!LoadModel
  <2>2. CASE ok
    <3>1. /\ loads' = loads + 1 /\ live' = live \cup {loads + 1}
          /\ physics' = IF kind = "boot" THEN "data" ELSE "load"
      BY <1>4, <2>2 DEF V!LoadModel
    <3>2. loads \in Nat /\ d \in Nat
      OBVIOUS
    <3> QED
      BY <2>1, <3>1, <3>2
  <2>3. CASE ~ok
    <3>1. physics' = "clear" /\ UNCHANGED <<loads, live>>
      BY <1>4, <2>3 DEF V!LoadModel
    <3> QED
      BY <2>1, <3>1
  <2> QED
    BY <2>2, <2>3
<1>5. CASE V!MakeData
  BY <1>5 DEF V!MakeData
<1>6. CASE V!Load
  BY <1>6 DEF V!Load
<1>7. CASE V!Loaded
  BY <1>7 DEF V!Loaded
<1>8. CASE V!Swap
  BY <1>8 DEF V!Swap
<1>9. CASE V!LoadMessageClear
  BY <1>9 DEF V!LoadMessageClear
<1>10. CASE V!Step
  BY <1>10 DEF V!Step
<1> QED
  BY <1>1, <1>2, <1>3, <1>4, <1>5, <1>6, <1>7, <1>8, <1>9, <1>10 DEF V!Physics

\* The other threads touch neither but in RenderLock, which finds the physics
\* thread waiting when it takes the new data.
LEMMA OthersNext ==
    ASSUME V!TypeOK, HandshakeInv, LoadInv, HeldInv, SyncInv,
           V!Render \/ V!Control \/ V!signalHandler \/ UNCHANGED V!vars
    PROVE  (HandshakeInv /\ LoadInv /\ HeldInv /\ SyncInv)'
<1> USE DEF V!TypeOK, HandshakeInv, LoadInv, HeldInv, SyncInv
<1>1. CASE V!RenderLock
  <2>1. /\ UNCHANGED <<loads, live, d, physics, kind, exitrequest>>
        /\ render' = "poll"
    BY <1>1 DEF V!RenderLock
  <2>2. CASE loadrequest = 1
    <3>1. d_' = loads /\ loadrequest' = 0 /\ physics = "wait"
      BY <1>1, <2>2 DEF V!RenderLock
    <3> QED
      BY <2>1, <3>1
  <2>3. CASE loadrequest # 1
    <3>1. /\ UNCHANGED <<d_, dnew_>>
          /\ loadrequest' = IF loadrequest = 2 THEN 1 ELSE loadrequest
      BY <1>1, <2>3 DEF V!RenderLock
    <3> QED
      BY <2>1, <2>3, <3>1
  <2> QED
    BY <2>2, <2>3
<1>2. CASE ~V!RenderLock
  <2>1. /\ UNCHANGED <<loads, live, d, d_, dnew_, physics, kind, loadrequest>>
        /\ exitrequest' = 0 => exitrequest = 0
        /\ render' = "sync" => d_ # 0
    BY <1>2 DEF V!Render, V!Control, V!RL_Sim, V!RenderCheck, V!PollEvents,
       V!PollNothing, V!PollQuit, V!PollReload, V!PollPause, V!PollClose,
       V!DropFile, V!SyncNot, V!Sync, V!SyncEnd, V!RenderEnd, V!RobotControl,
       V!RobotControlEnd, V!Shutdown, V!signalHandler, V!requests, V!data,
       V!flags, V!threads, V!vars
  <2> QED
    BY <2>1
<1> QED
  BY <1>1, <1>2

LEMMA ViewerInvInit ==
    ASSUME V!ViewerAssumption, V!Init
    PROVE  ViewerInv
<1>1. /\ mtx = "none" /\ loadrequest = 0 /\ droploadrequest = FALSE
      /\ uiloadrequest = 0 /\ exitrequest = 0
      /\ run = TRUE /\ simulation_running = TRUE /\ closing = FALSE
  BY DEF V!Init
<1>2. /\ physics = "message" /\ kind = "boot" /\ loads = 0 /\ live = {}
      /\ d = 0 /\ dnew_ = 0 /\ d_ = 0 /\ mj_data = 0
      /\ render = "off" /\ control = "off"
  BY DEF V!Init
<1>3. 0 \in 0 .. MaxLoads /\ 0 \in 0 .. MaxReloads
  BY DEF V!ViewerAssumption
<1>4. V!TypeOK
  <2>1. 0 \in 0 .. 3 /\ 0 \in 0 .. 2
    OBVIOUS
  <2> QED
    BY <1>1, <1>2, <1>3, <2>1, Zenon DEF V!TypeOK
<1>5. HandshakeInv /\ LoadInv /\ HeldInv /\ SyncInv
  BY <1>1, <1>2 DEF HandshakeInv, LoadInv, HeldInv, SyncInv
<1> QED
  BY <1>4, <1>5 DEF ViewerInv
-----------------------------------------------------------------------------
\* Who comes to the release knows the name of a service, and keeps it; without
\* one only the first CheckMode is under way.
SwitchInv ==
    /\ S!TypeOK /\ S!StartsReleased
    /\ switch_pc = "release" => named
    /\ switch_pc = "check" => named \/ checks = 0

LEMMA SwitchInit ==
    ASSUME S!SwitchAssumption, S!Init
    PROVE  SwitchInv
<1>1. /\ robot \in Robots /\ service \in BOOLEAN /\ named = FALSE
      /\ switch_pc = "check" /\ failures = 0 /\ answered = FALSE /\ checks = 0
  BY DEF S!Init
<1>2. 0 \in 0 .. MaxFailures /\ 0 \in 0 .. 2
  BY DEF S!SwitchAssumption
<1>3. S!TypeOK
  BY <1>1, <1>2, Zenon DEF S!TypeOK
<1> QED
  BY <1>1, <1>3 DEF SwitchInv, S!StartsReleased

LEMMA SwitchNext ==
    ASSUME S!SwitchAssumption, SwitchInv, [S!Next]_(S!vars)
    PROVE  SwitchInv'
<1> USE DEF S!SwitchAssumption, SwitchInv, S!TypeOK, S!StartsReleased
<1>1. ASSUME NEW ok \in BOOLEAN, S!CheckMode(ok)
      PROVE  SwitchInv'
  <2>1. /\ switch_pc = "check" /\ answered' = ok
        /\ UNCHANGED <<robot, service>>
        /\ named' = IF ok THEN service
                    ELSE IF robot = "go2" THEN FALSE ELSE named
        /\ switch_pc' = IF named' THEN "release" ELSE "loops"
        /\ checks' = IF checks < 2 THEN checks + 1 ELSE checks
    BY <1>1, Zenon DEF S!CheckMode, S!NameAfterFailure
  <2>2. failures' \in 0 .. MaxFailures
    BY <1>1 DEF S!CheckMode, S!Fails
  <2>3. named' \in BOOLEAN /\ service \in BOOLEAN
    BY <2>1
  <2>4. checks' \in 0 .. 2 /\ switch_pc' \in {"check", "release", "loops"}
    BY <2>1
  <2>5. {service, named, answered}' \subseteq BOOLEAN
    BY <2>1, <2>3
  <2>6. S!TypeOK'
    BY <2>1, <2>2, <2>4, <2>5
  <2>7. S!StartsReleased'
    BY <2>1, <2>3
  <2> QED
    BY <2>1, <2>3, <2>6, <2>7
<1>2. ASSUME NEW done \in BOOLEAN, S!ReleaseMode(done)
      PROVE  SwitchInv'
  <2>1. /\ switch_pc = "release" /\ switch_pc' = "check"
        /\ UNCHANGED <<robot, named, answered, checks>>
    BY <1>2 DEF S!ReleaseMode
  <2>2. failures' \in 0 .. MaxFailures
    BY <1>2 DEF S!ReleaseMode, S!Fails
  <2>3. service' \in BOOLEAN
    BY <1>2, Zenon DEF S!ReleaseMode
  <2> QED
    BY <2>1, <2>2, <2>3
<1>3. CASE UNCHANGED S!vars
  BY <1>3 DEF S!vars
<1> QED
  BY <1>1, <1>2, <1>3 DEF S!Next
-----------------------------------------------------------------------------
\* The steps of the run are steps of each component, or leave it alone.
LEMMA StepsOfParts ==
    ASSUME [Next]_vars
    PROVE  [L!Next]_(L!vars) /\ [V!Next]_(V!vars) /\ [S!Next]_(S!vars)
<1> USE DEF L!vars, L!thread, V!vars, V!threads, V!requests, V!data, V!flags,
       S!vars, loop_vars, viewer_vars, switch_vars
<1>1. CASE part = "LoopFunc" /\ L!Next /\ Others("LoopFunc")
  BY <1>1 DEF Others
<1>2. CASE part = "Viewer" /\ V!Next /\ Others("Viewer")
  BY <1>2 DEF Others
<1>3. CASE part = "MotionSwitch" /\ S!Next /\ Others("MotionSwitch")
  BY <1>3 DEF Others
<1>4. CASE UNCHANGED vars
  BY <1>4 DEF vars
<1> QED
  BY <1>1, <1>2, <1>3, <1>4 DEF Next

\* Each component behaves in the run as by itself.
LEMMA SpecOfParts == Spec => L!Spec /\ V!Spec /\ S!Spec
<1>1. Init => L!Init /\ V!Init /\ S!Init
  BY DEF Init
<1> QED
  BY <1>1, StepsOfParts, PTL DEF Spec, L!Spec, V!Spec, S!Spec

\* A thread holds its mutex exactly while it evaluates the predicate of the
\* wait; and after shutdown has returned, "Loop end" printed, the thread calls
\* its function at most once more: the destructor that goes on may find one
\* call of each loop under way, and never a second.
THEOREM LoopFuncSafeHolds == Spec => []LoopFuncSafe
<1>1. L!LoopAssumption
  BY LoopAssumption
<1>2. L!Init => LoopInv
  BY <1>1, LoopInvInit
<1>3. LoopInv /\ [L!Next]_(L!vars) => LoopInv'
  BY <1>1, LoopInvNext
<1>4. LoopInv => LoopFuncSafe
  BY DEF LoopInv, StopInv, LoopFuncSafe, L!LoopFuncSafe, L!AtMostOneLateCall
<1> QED
  BY <1>2, <1>3, <1>4, SpecOfParts, PTL DEF L!Spec

\* Until the program is asked to end, neither the physics thread nor the viewer
\* uses data that was deleted, for every number of loads, of dropped files and
\* of presses of Reload, and wherever they come while an earlier load is under
\* way; and the variables keep their types.
THEOREM ViewerSafeHolds == Spec => []ViewerSafe
<1>1. V!ViewerAssumption
  BY ViewerAssumption
<1>2. V!Init => ViewerInv
  BY <1>1, ViewerInvInit
<1>3. ViewerInv /\ [V!Next]_(V!vars) => ViewerInv'
  BY <1>1, PhysicsTypes, OtherTypes, PhysicsNext, OthersNext
     DEF ViewerInv, V!Next
<1>4. ViewerInv => ViewerSafe
  <2> SUFFICES ASSUME ViewerInv PROVE V!ViewerSafe
    BY DEF ViewerSafe
  <2>1. V!ViewerDataLive
    BY DEF ViewerInv, HeldInv, SyncInv, V!ViewerDataLive
  <2> QED
    BY <2>1 DEF ViewerInv, V!ViewerSafe
<1> QED
  BY <1>2, <1>3, <1>4, SpecOfParts, PTL DEF V!Spec

\* The loops of a program of Go2 or G1 start while the motion service of the
\* robot is active only when the last CheckMode failed, and on G1, which keeps
\* the name of the service over a failure, only when it was the first as well,
\* for every number of calls that fail.
THEOREM MotionSwitchSafeHolds == Spec => []MotionSwitchSafe
<1>1. S!SwitchAssumption
  BY SwitchAssumption
<1>2. S!Init => SwitchInv
  BY <1>1, SwitchInit
<1>3. SwitchInv /\ [S!Next]_(S!vars) => SwitchInv'
  BY <1>1, SwitchNext
<1>4. SwitchInv => MotionSwitchSafe
  BY DEF SwitchInv, MotionSwitchSafe, S!MotionSwitchSafe
<1> QED
  BY <1>2, <1>3, <1>4, SpecOfParts, PTL DEF S!Spec
=============================================================================
