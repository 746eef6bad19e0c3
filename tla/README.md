# A verification of rl_sar

rl_sar runs learned policies on legged robots and in simulators. This fork adds
the humanoid `myrobot`, with three policies that take over from one another
while the robot moves. The directory holds TLA+ models of the programs' control
logic, checked with TLC, and proofs about most of them, checked with TLAPS. Paths are relative to
`src/src/rl_sar/` unless they start with `src/`.

## 1. The system

A program (`src/rl_real_*.cpp`, `src/rl_sim_mujoco.cpp`, `src/rl_sim.cpp`) is one
object of class `RL_Real` or `RL_Sim`, a subclass of `RL`, shared by detached
threads:

| thread | period | what it does |
|---|---|---|
| `loop_control` | `dt` | `RobotControl`: `GetState`, `StateController` (the FSM, then the keys), `ClearInput`, `SetCommand` |
| `loop_rl` | `GetPolicyStepTime` | `RunModel`: observe, `Forward` (the network), `ComputeOutput`, push the result into three queues |
| `loop_keyboard`, `loop_joystick` | 50 ms, 10 ms | write the input into `Control` |
| main | | constructor; destructor, which calls `shutdown` of each loop |
| physics, render (MuJoCo) | | the viewer around model and data |
| real-time and callback threads (Gazebo) | | `robot_joint_controller`, in another process |

| component | state | operations | interacts with | hard behaviour, correctness |
|---|---|---|---|---|
| FSM engine (`library/core/fsm/fsm.hpp`) | current, next and previous state, mode | `Run`, `RequestStateChange`, `SetInitialState` | calls Enter, Run, CheckChange, Exit of the states | a switch takes two calls, a request may come from inside a handler: no switch is lost, no state runs that was not entered |
| states of myrobot (`fsm_robot/fsm_myrobot.hpp`) | progress of the motions, `rl_init_done`, what RL keeps for the hand-over | four handlers for each of six states | keys, `InitRL`, queues, policy thread | failing `InitRL`, keys that stay, motions that must end, a first policy only after GetUp has brought the joints up |
| states of the other eleven robots (`fsm_robot/fsm_*.hpp`) | the same, without the hand-over | the same | the same | frames of long ago in the queues, a request from inside Enter |
| hand-over of a policy (`fsm_myrobot.hpp`, `RL::RLControl`, `RunModel`) | first-frame gate, blend, queues, episode counter, model | Enter, Run, Exit against one pass of the policy | mutex on the model only, everything else is shared unprotected | frames and counters of the state before |
| parameters (`RL::ReadYaml`, `src/policy/myrobot`) | one YAML tree, `config_name`, loop periods | overlay of files | every component reads it | depends on the whole history of entries |
| joint orders (`joint_mapping`) | the order in which each vector is kept | `GetState`, `SetCommand`, the two maps | one robot, three orders, two programs | a vector kept across an exchange of the map |
| observation and output of a policy (`RL::ComputeObservation`, `ComputeOutput`, `ObservationBuffer`, `vector_math.hpp`) | the history, the previous target | the terms, the stack, limits and ramp | the network | widths, order and age of the history; limits that undo one another; frames that are changed on the wrong side |
| inference runtime (`library/core/inference_runtime`) | a session | `load_model`, `forward`, `forward_io` | ONNX Runtime, Torch | a model that cannot be loaded, names and types of tensors |
| reference motions (`library/core/motion_loader`, `RL::BuildMjlabMotionTable`) | the place in the motion, a table | load, `Reset`, `Update`, read | control thread writes, policy thread reads, no lock | a pass between two writes, a table of another model |
| heading hold (in `RunModel`) | target heading | the outer loop | operator | target of an earlier entry, the seam at half a turn |
| operator input (`struct Control`, gamepads) | current and last key, buttons, sticks | `SetKeyboard`, `SetGamepad`, `ClearInput`, `StateController` | two or three threads without a lock | a key that is lost or never goes away, a combination that is read as its parts, a velocity that comes back |
| real robot I/O (`src/rl_real_myrobot.cpp`) | newest state, sockets, key bodies | `GetState`, `SetCommand`, `OnPolicyConfigLoaded` | ZMQ | messages lost or in a backlog, an observation of two messages |
| MuJoCo program, its viewer, action delay | data, load requests, delay buffer | `PhysicsThread`, `RenderLoop`, `Load`, `ResampleActionDelay`, R | three threads, one mutex | data deleted while used, hand-shakes that wait for one another |
| Gazebo program, `robot_joint_controller` | pause, spawner; buffer of commands | services, `on_activate`, callback, `update` | other processes | requests lost or reordered, a spawner that fails, messages of an earlier activation |
| start on Go2 and G1 | name of the motion service | `CheckMode`, `ReleaseMode` | a service over a network | calls that time out |
| periodic threads (`library/core/loop/loop.hpp`) | running flag, mutex, condition variable | `loop`, `shutdown` | owner's destructor | lost wake-up, calls after shutdown |

`PROJECT.json` lists these parts with what is modelled of each, the hazards with
the line where each bites, and for each definition the lines it stands for.

## 2. The modules

| module | models | composed of |
|---|---|---|
| `StateLifecycle` | what the engine promises a state: entered, run, asked, left, in this order, one state at a time | |
| `FSMEngine` | `FSM::Run`; one action per handler call, the handler's answer a parameter | refines `StateLifecycle` |
| `FSMEngineProofs` | theorems about `FSMEngine` | extends it |
| `MyRobotFSM` | the six states of myrobot, the input, the episode counter | instance of `FSMEngine`; each action is an engine action joined with the effect of the handler |
| `MyRobotFSMProofs` | theorems about `MyRobotFSM` | extends it, instance of `FSMEngineProofs` |
| `RobotStates` | data: states, keys and buttons of the other eleven robots | |
| `RobotFSM` | their states, the policy thread and the queue of frames | extends `RobotStates`, instance of `FSMEngine` |
| `RobotFSMProofs` | theorems about `RobotFSM` | extends it, instance of `FSMEngineProofs` |
| `PolicyHandover` | control thread against policy thread around one entry of a policy, one action per shared access | |
| `PolicyHandoverProofs` | theorems about `PolicyHandover` | extends it |
| `MyRobotPolicies` | data: configurations of myrobot, successors of a state, what each file defines | |
| `PolicyConfig` | `ReadYaml`, `InitRL`, `config_name` over any history of entries | extends `MyRobotPolicies` |
| `PolicyConfigProofs` | theorems about `PolicyConfig` | extends it |
| `JointOrder` | which joint order each vector is in, for orders that are parameters | extends `MyRobotPolicies` |
| `JointOrderProofs` | theorems about `JointOrder` | extends it |
| `ModelInput` | the terms of an observation and the history buffer | |
| `Output` | from action to joint target: clip, dead zone, limits, rate limit, ramp | |
| `Orientation` | the functions on quaternions, the terms that use them, the torso of a motion | |
| `Inference` | `ModelFactory`, `forward`, `forward_io` | |
| `MotionLoader` | the motion of a g1 dance between control and policy thread | |
| `MjlabMotion` | the motion that is baked into the mjlab network, as a table | |
| `HeadingHold` | the loop in `RunModel` that holds a heading | |
| `RealLink` | the ZMQ link, `GetState` against `RunModel`, the key bodies of the dance | |
| `ActionDelay` | the delay of actions in MuJoCo, and R | |
| `OperatorInput` | `Control` between keyboard and control thread, one action per `if` of `StateController` | |
| `Gamepad` | buttons and sticks, in the four ways the programs read them | |
| `JointController` | the three variants of `robot_joint_controller` | |
| `Gazebo` | the start of `rl_sim.cpp` and the pause of the physics | |
| `Viewer` | physics, render and control thread of the MuJoCo program around the data | |
| `MotionSwitch` | the start of the programs of Go2 and G1 | |
| `LoopFunc` | the loops, their condition variables and the destructor | |
| `MCThreads` | one of `LoopFunc`, `Viewer`, `MotionSwitch` at a time | instances of the three |
| `MCComponents` | one of thirteen components at a time | instances of them |
| `ThreadsProofs`, `ComponentsProofs` | theorems about the components of the two | extend `MCThreads` and `MCComponents` |

`MCThreads` and `MCComponents` hold an instance of each component and a variable
`part`, which says whose steps a behaviour takes; the others stay in one initial
state. The components share no variables there, so the states of such a run are
those of its components side by side, and a property that fails in one of them
fails in the run. Each of these components ends in a definition `...Safe`, the
conjunction of its type invariant and its named parts; the parts are where the
properties are stated, each with its comment.

How state and actions correspond:

* *FSMEngine.* `current_state`, `next_state`, `previous_state` are the pointers,
  `NotAState` is `nullptr`. `call` is the program counter inside `Run`: the
  handler called last. `RequestStateChange` is the parameter `r` of `RunInNormal`,
  `Enter` and `RunAfterEnter`. Names that are not registered are dropped by the
  code, which is what passing `NotAState` does.
* *MyRobotFSM.* A gamepad button is named by the key it doubles. `Interpolate` is
  counted in frames, with the jump it makes when the start is within 0.1 of the
  target. `phase` separates the FSM from `ClearInput` at the end of the period,
  so a key can arrive between the two. `InitRL` may throw with the model as it
  was, empty, or already replaced. `config_name` is kept by locomotion unless it is
  empty or that of the dance, so that the model it loads depends on the state before.
  `raised` is history: GetUp came to its end, and neither Passive nor GetDown nor a policy has
  commanded the joints since. `posture` of *RobotFSM* is the same with more values.
* *RobotFSM.* What differs between the robots is data (`RobotStates`): an ordered
  list of rules for each state, each a key and the state it names. A frame is `own`
  if its pass began after the latest entry of a learned state, else `old`. A state
  that is not registered ends the process, as `states_.at` does.
* *PolicyHandover.* Each thread has a program counter; a step is one access to
  shared memory or one region under `model_mutex`. `episode_length_buf += 1` is
  a read and a write. A frame is one pass of `RunModel`. Its `age`, the
  number of passes begun since, and `fresh`, whether it began after the latest
  Enter, are history; `by` is the model that computed its actions. `steps` counts the
  passes that began in the session, and `under_way` says where an increment of an earlier one was
  when Enter reset the counter: before its read, between read and write, or nowhere. An exception in the policy
  thread ends the process (`aborted`). The torque queue is a length.
* *PolicyConfig.* A configuration is a record of the keys that tell the policies
  apart; `ReadYaml` lays the keys of a file over those that are there. Rates are in Hz, so that no fraction is needed.
* *JointOrder.* A vector is the sequence of joints whose values it holds, so that
  it is in policy order when it equals `joint_mapping`. In the run four
  joints stand for 21; all that matters is that the three maps differ and are no
  involutions. The proofs leave their number and the orders open. A command is the set of the vectors mixed in it, since interpolation and
  blending mix two. One control period is `get`, `fsm`, `set`. The
  dance of the simulation puts the robot into the pose of a row of `ampobs.csv`
  (`enable_sim2sim_init_pose`), which is in the order of the dance and is held as it is; where the
  row cannot be read, and everywhere else, the measured pose is rearranged (`HeldPoses`). `start_state`
  is never rearranged; `exchanged` says that the order has changed since GetUp took it.
  The step is under the mutex of the simulation, so that nobody sees half of it.
* *ModelInput.* A block `<<k, t>>` is term `t` of the observation of pass `k`; the
  widths are those of the code, for the configurations of the repository.
* *Output.* Angles are small integers; the order of the steps is that of the code.
* *Orientation.* A quaternion of quarter turns is the shortest integer vector in
  its direction, so that every formula is exact; what is of second degree in it is
  divided by its norm, which the code's unit quaternions do not need.
* *Inference.* A session is the list of nodes that a file declares; a computed value
  is a record of the tensors that it was computed from. What ONNX Runtime and Torch
  accept is external, after how they are called.
* *MotionLoader, MjlabMotion, RealLink, HeadingHold.* One action per access to what
  the other thread writes. Messages, loads and entries are numbered; a value is
  the number of what it came from.
* *ActionDelay.* Time is counted in control cycles; an action is `dirty` if its pass
  began before the latest R.
* *OperatorInput, Gamepad.* One action per `if` or per event. `burst` says that two
  keys met in one control cycle; X stands for the buttons `StateController` reads. A1
  and G1 copy the gamepad once per period, and Gazebo once per message; Go2 reads each
  button anew in each `if` (`Ask`) while `JoystickHandler` writes it. `control.x += 0.01f` is a
  read and a write, with the reader of the gamepad between them.
* *JointController.* A message is its number; a command is the message that its pose
  came from and the one its gains came from. `readFromRT` returns the value before
  while the buffer is written to.
* *Gazebo, MotionSwitch.* Another process or machine is a variable and the actions
  that lose, delay or fail a request.
* *Viewer.* Data is named by the number of the load that made it; `live` is what was
  not deleted. The mutex is a variable that names its holder.
* *LoopFunc.* The predicate is evaluated under the mutex, `Block` releases it and
  waits in one step, and a waiting thread may be woken by the notification, by
  its time or by nothing.

## 3. The runs

`tlc -config X.cfg M` for each; the configuration's name begins with the module's.

| run | shows | bounds |
|---|---|---|
| `MCFSMEngine` | `SettledOrPending`: when `Run` starts, a switch is pending exactly when next and current state differ. `LifecycleSafety`: the engine implements `StateLifecycle`. `PendingSwitchHappens`: a switch once chosen is performed | four states; the code compares names only for equality, and a switch concerns two states and a third that was requested before |
| `MCMyRobotFSM` | `PolicyGate`: the policy thread is enabled only in a learned state and with the model of the configuration that state named, for the dance and mjlab their own, for locomotion never the dance's. `PolicyOnlyStanding`: from Passive, GetUp or GetDown a policy is chosen only when GetUp has just brought the joints up, whatever an earlier GetUp has left. `StatesEnd`: a failed entry falls back, GetDown, mjlab and the dance end | all keys that a state tests, Num2 as its button; two frames of GetUp, of which the first is run on entry, so that a key is tested before the second, and two of GetDown; episodes of two steps; 665,340 states |
| `MCRobotFSM` | `PolicyIsReady`: for the other robots the policy runs with its own model, and from a state without one it is entered only in the posture GetUp leads to. `StaleFramesFirst`: of the frames of earlier entries no more reach the motors than were waiting or under way at one time, and none after the first own one. `StatesEnd` | one robot of each kind: a1, tita, gr1t1 (a policy that is not there), g1 (four skills); motions and dances of two frames, a backlog of two |
| `MCPolicyHandover` | `AtMostOneStale`: only the one inference in flight gets past the drain. `NeighbouringFrames`: positions and velocities in force are at most a frame apart. `FreshFramesAreOwn`: a frame whose pass began in this session was computed by the model it loaded. `CountsOwnSteps`: the counter never lags behind the steps of the session, and is right unless its reset met an increment under way. `NoSwapDuringInference`, `DirectAfterBlend`; `EntriesEnd` (the first frame arrives, a load gets the lock) under fairness | two policies, one with an end and one without; a backlog of three frames, so that one queue can be two ahead of the other; ages up to `MaxQueue` + 1, which `TypeOK` shows and `HandoverTypeCorrect` proves to be enough; two blended periods; entries are not bounded |
| `MCPolicyConfig` | `RunsItsOwnConfig`: a running policy has the model, the rate and every key of the file that `config_name` names, which for the dance and mjlab is their own; locomotion may run mjlab's, never the dance's. `RatesAgree`: the tracking policies run at the rate they were trained at, `dt` is the control period | none: the data is finite, and so are the overlays; both programs |
| `MCJointOrder` | `PosesReach`: in the simulation the pose a state holds, measured or of the row the dance starts from, and the start of a motion reach the motors in the order they came from, and GetDown leads each joint back to where GetUp found it unless a policy of another order was entered since. `ObservedInOrder`: on the real robot a policy observes the joints in its own order | four joints; both programs |
| `MCThreads` | `LoopFuncSafe`: after `shutdown` has returned at most one call of the function begins. `ViewerSafe`: neither the viewer nor the physics thread uses deleted data until the program is to end. `MotionSwitchSafe`: on Go2 and G1 the loops start beside the motion service only after a failed call. `ThreadsEnd`: loops stop, loads, drops and the end of the viewer get through, the start of the robot comes to its loops | two loops shut down one after the other; three loads and one reload from the window, so that a load meets one under way; four failing calls; 37,513 states |
| `MCComponents` | thirteen components, see below | see section 6; 0.9 million states |

What `MCComponents` checks, component by component:

| property | parts |
|---|---|
| `OperatorInputSafe` | unless two keys met in one period: no key stays (`NothingStuck`), N toggles once (`NavigateOncePerKey`), Space clears the command until the next W (`SpaceResets`) |
| `GamepadSafe` | LB+X never acts as X on A1 and G1, nor on Go2 when both are down all through a reading (`CombinationWins`; on Go2 a button that is pressed or let go during one may be seen without the other); in MuJoCo a press acts once (`OneToggleForOnePress`), and the velocity of a stick goes with it unless an increment of the keyboard overlapped (`NoVelocityLeft`) |
| `ModelInputSafe` | the network is given as many numbers as it was trained with (`InputFits`), each of the frame its history index says (`HistoryAsConfigured`) |
| `OutputSafe` | no step after the limits of a target undoes them (`TargetInLimits`), nor the rate limit (`StepInLimits`) |
| `ActionDelaySafe` | no action waits longer than the longest delay (`ReleasedInTime`) or is overtaken (`OrderKept`), and only one of before an R survives it (`AtMostOneDirty`) |
| `JointControllerSafe` | of the messages of before an activation at most one moves the joint (`AtMostOneOldPose`), and an undisturbed message is used whole (`UndisturbedUsedWhole`) |
| `GazeboSafe` | program and physics agree on the pause unless a request was lost or two were in flight (`PauseAgrees`); ROS 2 commands only a loaded controller (`ControllerStarted`); one late pass at most (`AtMostOneLatePass`) |
| `RealLinkSafe` | commands answer the newest message (`StateIsNewest`), the joints observed are at most one message behind the attitude (`JointsOneBehind`), key bodies are the best that were found (`KeyBodiesBest`) |
| `MotionLoaderSafe` | what a pass reads is within two frames of its time (`PlaceIsNear`) and never goes back (`MotionGoesOn`) |
| `MjlabMotionSafe` | the frame observed is of the network that is given it (`FrameOfModel`), the same in both terms, except in the pass that the reset of the counter falls into, which is over before the next model is loaded (`OneFrame`) |
| `OrientationSafe` | gravity in the body, the root without heading, the attitude recovered from a matrix, the alignment at the start and the anchor are the physical ones, for every attitude of quarter turns |
| `HeadingHoldSafe` | turned back the short way (`ShortWay`), to a heading of this entry unless the policy thread saw no pause (`HeadingIsOwn`), never against an operator who turns (`OperatorWins`) |
| `InferenceSafe` | a model that is handed out answers (`LoadedOrNone`), and each output by its name from each input by its name, in the type that the file declares (`AnswersByName`) |

Four more runs each show a statement of the repository that the code does not keep:

| run | statement | what happens |
|---|---|---|
| `MCPolicyHandoverMjlabRunsMjlabModel` | `src/rl_real_myrobot.cpp:776`: mjlab calls its network with two inputs | `config_name` changes before `InitRL` has the lock, so an inference under way takes the two-input branch with the model before; the exception is not caught |
| `MCPolicyConfigMjlabTarget` | `src/rl_real_myrobot.cpp:443`, `src/policy/myrobot/mjlab/config.yaml:50`: no clip of mjlab's actions (`MjlabTargetIsOffset`) | after the dance, with locomotion between, the clip and the clamp of the dance are still in force |
| `MCRobotFSMSkillKeysSwitch` | `src/README.md:245`: Num1 is the basic locomotion | in the dance 102 of g1 it names a state that g1 does not register, and `states_.at` ends the process |
| `MCRealLinkFkSingleThreaded` | `library/core/kinematics/kinematics_fk.hpp:27`: one thread uses the kinematic model | a pass under way, of an earlier dance, reads the new `config_name` and computes while the control thread loads the model anew |

`AtMostOneStale` and `DanceEnds` bound two more deviations: a frame of before
the entry can open the first-frame gate, since the pass under way pushes it after
the drain; and a dance does not end while Num2 is put back by `ClearInput`, which
happens when two keys met in one period. `CountsOwnSteps` says in which
ways the counter of an episode can be wrong: it is too high, never too low, by one if the
increment of an earlier session had still to read when Enter reset it, by all that the earlier
session counted if it had read and not written; both happen (see 7). In the same way `NoVelocityLeft`
and `GetDownReturns` leave out what the code does get wrong, by a condition on the history
(`overlapped`, `exchanged`).

Every property that a passing run checks has a mutant in the module it is about:
an operator with the word *Mutant* in its comment, which is the definition after a
plausible mistake (a forgotten drain, a swapped write, `>` for `>=`) and makes
that run fail. No specification uses one.

The invariants named `TypeOK` are not only about types: that of `LoopFunc` says who
holds the mutex, that of `JointOrder` when a configuration may have no name.

## 4. Fairness

Safety needs none. `FairSpec` of each module assumes weak fairness of the
threads' steps: `LoopFunc` calls each function again every period, no handler
loops, and the mutex of the model is held for one inference or one load.
The operator and the joystick owe nothing, and `InitRL` may fail every time.
In `PolicyHandover` the control thread is fair only inside an entry; in `RobotFSM`
the control thread, the start of a pass and the push of its frame are.
In `LoopFunc` the steps that take a mutex are strongly fair, since the mutex
may be free only now and then; that a sleep ends in time is not assumed. So
are the physics thread, the render thread and the destructor of `Viewer`:
who holds the viewer's mutex releases it and sleeps in every cycle.
`MotionSwitch` goes on by itself, with at most `MaxFailures` failing calls, since
the start does wait for ever when they all fail. In `MCThreads` the fairness of a
component holds when `part` is that component.

## 5. Proofs

Thirty-seven theorems, each for every value of the constants that its assumption
allows. Together they state every safety property that a passing run checks.
An assumption bounds a constant only from below, or says what the data of the
repository is like: no key is named `None`, a motion has a frame, waists and motions turn by quarters, a destructor names
each of its loops, `joint_mapping` names every motor once, delays are positive
numbers with a longest one, a file that is loaded has inputs and outputs, one row at
a time and no two inputs of one name.

The invariants that the runs check are seldom inductive: most speak of what was popped,
read or applied, and say nothing of what is still queued or under way. Each proof
therefore has an invariant of its own, a conjunction of named parts with a comment
each, which adds what is under way at each place of the two threads; a lemma says
that the initial states have it, one for each action or group of actions that a step
keeps it, and the theorem puts them together.

### The engine (`FSMEngineProofs`)

For every set of states and any behaviour of the handlers, from
`EngineAssumption` (the initial state is registered, `NotAState` is not):

* `TypeCorrect`: `Spec => []TypeOK`.
* `SettledOrPendingHolds`: `Spec => []SettledOrPending`.
* `EngineImplementsLifecycle`: `Spec => LifecycleSafety`, the refinement.

All three rest on the inductive invariant `Inv`. `SettledOrPending` is not
inductive, since it speaks only of the moments at which a call of `Run` starts.
Within a call, what can be pending depends on the handler called last:
after `Run` a request may be there, after `CheckChange` one more may
have replaced it, and after `Enter` mode and `next_state` are those of a
switch that is nearly over. `Inv` says for each value of `call` how mode and
`next_state` agree; `InvInit` and `InvNext` (one step per action) prove it
inductive, and the refinement maps each action to the action of the abstract
machine or to a stutter, with `Inv` telling that the state entered is another one.

### The states on the engine (`MyRobotFSMProofs`, `RobotFSMProofs`)

* `MyRobotImplementsLifecycle`, `RobotsImplementLifecycle`: the states drive the
  engine only as it may be driven, so that they implement `StateLifecycle`; the
  proofs cite the lemmas of `FSMEngineProofs`, instantiated. The other robots do so
  until `CheckChange` throws.
* `MyRobotTypeCorrect`; `PolicyGateHolds`, `PolicyOnlyStandingHolds`;
  `PolicyIsReadyHolds` for the other robots, types included. `GateInv` is needed
  since a learned state whose `InitRL` failed is entered all the same: it is on its
  way out, because the request that Enter made is still there when the engine looks.
  That no rule of `CheckChange` leads elsewhere is a lemma about the first rule whose
  key is pressed (`FirstPressed`). `GateInv` also says that the state running named its
  configuration last. `StandingInv`, for both: while GetUp has its full progress the
  robot is up, so that the guard that `percent_getup` is full means what it should; it
  holds since Enter takes the progress back, and needs what each handler leaves of the other's work.
* `StaleFramesFirstHolds`, for every backlog. `FramesInv`: the frames of earlier
  entries are the first of the queue, and with those applied and the one under way
  never more than there was room for at the entry.

### The hand-over (`PolicyHandoverProofs`)

For all sets of policies and all bounds, from `HandoverAssumption`:

* `ModelStaysDuringInference`: the invariant `MutexInv` says that each thread holds the
  mutex exactly while its program counter is inside its critical section; only
  `InitRL` replaces the model.
* `AtMostOneStaleReachesRun`: `StaleInv` counts the old frames that are popped, still
  queued or not yet pushed: once Enter has drained a queue, at most one is
  left. The lemmas `OncePush`, `OncePop` and `EachAged` say what an operation on
  a queue does to it.
* `CountsOwnStepsHolds`: `CountInv` adds the value that is about to be written,
  between the read and the write of `+=`, and for each place that an increment of an
  earlier session can be at (`under_way`) how the counter and that value compare with the steps.
* `DirectAfterBlendHolds`, from `BlendInv`, which counts the blended commands of a session.
* `FreshFramesAreOwnHolds`: `SessionInv` says that no pass begins while a state is
  entered; `OwnInv` that no frame of the session exists then, so that the model
  may be replaced, and that later every such frame is by this model.
* `NeighbouringFramesHolds`, for queues of any length. `AgeInv`: each queue holds the
  frames of successive passes (`Chain`), and the passes begun since the last pop of
  the one differ from those of the other by the offset that the program counter tells.
* `HandoverTypeCorrect`: `TypeOK`, and with it that no age exceeds `MaxQueue` + 1.

### The configurations of myrobot (`PolicyConfigProofs`)

The parameters are never emptied: a file is laid over what the ones before it, loaded or
half loaded, have left. Both theorems hold after any history of entries.

* `RunsItsOwnConfigHolds`: `LoadedInv` says that what `InitRL` left, when it did not
  throw, stays as long as the learned state does, and that after a failure there is
  no learned state. It looks at no file: the lemma `OverlaidFacts` is all that
  it needs, so that it holds for any keys that the files define.
* `RatesAgreeHolds`, types included. `RateInv` follows the keys that decide the rates
  (`RateKeys`) through every order of files; `FileFacts` and `BaseFacts` are what the
  files of the repository say of them.

### Joint orders (`JointOrderProofs`)

For every number of joints and any two orders of the policies, from `OrderAssumption`
(each is a bijection of the joints, as in the files of `src/policy/myrobot`):

* `PosesReachHolds`, types included: `PosesInOrder` adds to what is written that the
  pose just read, the start of the motion under way and the pose a learned state
  holds are in the order in force, which only Enter of a learned state changes;
  the lemma `RemapCarriesOver` says, where the held pose was measured, that its rearrangement is right for any pair
  of orders, `OwnOrderReaches` that a vector in the order in force arrives. The pose that GetDown
  returns to is in the order in force as long as no entry has exchanged it.
* `ObservedInOrderHolds`: `ReadInv` says that the motors were read before any pass.

### The threads (`ThreadsProofs`)

The property of a component in `MCThreads` or `MCComponents` is proved from the
component's own specification: the lemmas `StepsOfParts` and `OthersStay` say that a
step of the whole is one of a component or leaves its variables alone.

* `LoopFuncSafeHolds`, for any loops and any order of shutting them down. `StopInv`: a loop
  that is over was told to stop before, under its mutex, and nothing leads it back
  after the one call that was still to come.
* `ViewerSafeHolds`, for any number of loads and reloads. `HandshakeInv` gives the
  place of the physics thread for each value of `loadrequest`, `LoadInv` and
  `HeldInv` say that what a thread holds, or a load is about to hand over, is live.
* `MotionSwitchSafeHolds`, for any number of failing calls (`SwitchInv`).

### The other components (`ComponentsProofs`)

| theorem | for every | what the invariant adds |
|---|---|---|
| `RealLinkSafeHolds` | number of messages, set of policies | how the ages of the message in the socket, in the buffer and in each field read are ordered (`AgeInv`); no entry while a policy is enabled (`ReferenceInv`) |
| `GazeboSafeHolds` | number of requests in flight | what the request in flight asks for (`RequestInv`), the pass under way (`LateInv`) |
| `MjlabMotionSafeHolds` | length of the motion | the table is of the loaded model (`TableInv`), the frame read first is the one that is read next (`SameFrameInv`) |
| `HeadingHoldSafeHolds` | resolution of the angle | a state that was left in the middle of a pass is not yet seen to be left (`OriginInv`); what a pass has decided so far (`PhaseInv`) |
| `OutputSafeHolds` | angle and action | nothing, `OutputSafe` is inductive; the lemma `SafeTarget` follows a target through all the limits in their order |
| `MotionLoaderSafeHolds` | length of the motion, number of entries | which of the members an Update has come to (`MembersInv`), how old what a pass has read is (`ReadInv`) |
| `ActionDelaySafeHolds` | set of delays, length of the history, backlog | a later action is younger and those whose time has come are in front (`WaitingInv`); a delay of 0 only with an emptied buffer (`OvertakenInv`); a dirty action is under way, in the history or in the buffer (`DirtyInv`) |
| `OperatorInputSafeHolds` | keyboard, command | what a key that is there still has to do (`KeyInv`) |
| `JointControllerSafeHolds` | number of messages and activations | which old pose is being stored (`PoseInv`), where the newest message is whole (`WholeInv`) |
| `InferenceSafeHolds` | files, values, names | what was loaded was a file that could be (`LoadedInv`); lemmas on the conversion to whole numbers and the elements of a row |
| `ModelInputSafeHolds` | number of passes, choice of robots | the buffer holds the last passes, the newest first and zeros behind, also for a pass that began before the state was left (`BufferInv`) |
| `OrientationSafeHolds` | waists and motions of quarter turns | where a motion was started and nothing has moved since, the alignment is that of the torso and the anchor of now (`OrientationInv`); the rest is algebra of quaternions (below) |
| `GamepadSafeHolds` | set of programs, number of waiting events, buttons and sticks together or in turn | where reader and control thread of a program can be together (`TurnInv`); what the reader has looked at (`LookInv`); on Go2, how far a button that is held all through has been carried by the `if`s so far (`AskInv`); a press is in the reader or in the input, once (`PressInv`); what an increment under way has read (`VelocityInv`) |

The widths of an input are summed, and the frames joined, by recursive functions. That
such a function exists, and what its values are, is a lemma proved from the least index
at which it fails (`FirstOf`, from the well-foundedness of the library), which takes
the place of an induction: `SumIs`, `FlattenSeqIs`, `FlattenedBlocks`, `FlattenedTotal`.
`InputFromBuffer` puts them together for any configuration whose terms are as wide
together as its network (`WellFormed`), and `ConfigsFit` says that those of the
repository are.

The algebra of `OrientationSafeHolds` is about integers. A product of quaternions is
first taken without being shortened; that one is associative and undone by the conjugate
for any integers (`RawAssociates`, `RawCancels`), and shortening changes neither, since
the vectors that are shortened to the same one are the multiples of each other
(`SameDirection`; `MultiplyAssociates`, `MultiplyCancels`). Each function of
`vector_math.hpp` is one of a matrix of quarter turns, a rotation (`MatIsRotation`): its
columns give what is observed, its inverse turns gravity back (`GravityIsDown`), and the
attitude is recovered from it in each of the four branches (`MatrixToQuaternion`). A turn of heading
leaves the tilt (`TiltTurned`) and adds to the heading (`HeadingTurned`), from which the
alignment follows (`AlignedHeading`).

`OperatorInputSafe`, `JointControllerSafe` and `GamepadSafe` are temporal formulas: each
theorem proves their invariants and their action properties (`NavigateOncePerKey`,
`UndisturbedUsedWhole`, `CombinationWins`, `OneToggleForOnePress`).

### Only model-checked

* Liveness: `PendingSwitchHappens`, `StatesEnd`, `EntriesEnd`, `ThreadsEnd`. The prover
  handles neither ENABLED nor fairness.
* The statements of the four runs that expect a violation, which are false.

## 6. The bounds, by name

`GetUpFrames`, `GetDownFrames`, `Frames`, `MotionSteps`, `MaxEpisodeLength`,
`BlendFrames`, `MaxFrames`, `mjlab_motion_frames` scale the code's counters down:
they are compared with a limit and never otherwise used (a motion needs five frames
for a pass to be two off). The episode counter stops at its maximum, beyond
which no comparison changes. `MaxQueue` and `MaxBacklog` stand in the guard of a
pass: the control thread runs at least as often as the policy thread, so that a
backlog is short lived. `MaxAge` bounds nothing: it is `MaxQueue` + 1, the greatest age that
such a backlog allows, and stands in `TypeOK` only. The proofs hold for every value
of all of these bounds; what a run shows at one value they show at each. `MaxX` bounds a
command that is only added to; `MaxEvents`, `MaxMessages`, `MaxRequests` what
waits in a device, a socket or a service (two, where order matters).
`BothHands` is off in the run: buttons and sticks, which share nothing but the reader, are used in turn.
`LinkPolicies` has the dance and one policy for the others, between which `RealLink` makes no difference.
`Waists` and `MotionFrames` hold each angle of a waist and a motion that faces, or lies,
another way than the robot.
`MaxPasses` fills the longest history (six frames) and shifts a frame out of it. `Files`,
`Values`, `Names` and `Outputs` are the kinds of file that the repository has, and inputs in
another order, of whole numbers, or without a width.
`MaxActivations`, `MaxEntries`, `MaxTableLoads`, `MaxLoads`, `MaxReloads` bound how
often something is started anew: once more than it takes to meet what an earlier
one left. `MaxAngle`, `MaxAction` (past the clip when it is scaled), `HalfTurn` size the integers that stand for angles, large
enough for a target outside of each limit on either side, and for a heading on either
side of the seam. `Delays` and `HistoryLength` are two so that delays differ and an
action is neither newest nor oldest. `MaxFailures` bounds what the fairness of a
network would. Ghost counters (`late`, `presses`, `unanswered`) stop at two, since one
and more than one is all that is asked.

## 7. What is not modelled

* Arithmetic: the values of observations and actions, interpolation between poses and
  frames (`Slerp`), the IMU and velocity filters, noise, gains, kinematics. A
  property about them is one of order, width, age, limit or rate. `vector_math.hpp`
  is modelled for turns by quarters; its functions on vectors are left out.
* What an inference computes, and the libraries that compute it.
* `ReadYaml` of a file that is missing (it returns and the old parameters stay):
  the files are in the repository.
* The data race on the YAML tree, which `InitRL` writes while `RunModel` reads it: what
  a torn read returns is not bounded by the source. The same holds for
  `motion_loader`, replaced by the Enter of a g1 dance while a pass may read it.
* The angles and the attitude that `ApplyWholeBodyTrackingInitPoseFromAmpObs` gives the
  robot of the simulation when the dance is entered; `JointOrder` has only whose they are.
* `TorqueProtect` and `AttitudeProtect`, which no program calls;
  the keys S, A, D, Q, E, which do as W does; the reading of keys from a terminal.
* The CSV logs and traces, plots, drawing in the viewer, colours, message definitions,
  the vendors' SDKs and their messages, offline scripts, tests.

Seen while modelling, and not stated as a property:

* *myrobot.* Locomotion after the dance runs `robot_lab` on the robot, not `robot_lab_real`, and
  after mjlab it keeps `config_name`, so that Num1 loads and runs the network of mjlab
  (`fsm_robot/fsm_myrobot.hpp:174`; "Basic Locomotion" in `src/README.md:245`). mjlab can end
  before its last frame, when a pass that was admitted before the reset counts its step after it or
  writes the old count back (`src/rl_real_myrobot.cpp:570`; the comment at
  `fsm_robot/fsm_myrobot.hpp:625` says that the whole motion has been played). In the simulation `start_state`
  is in the order in force when GetUp measured it (`fsm_robot/fsm_myrobot.hpp:126`): after a policy of
  another order GetDown leads each joint to the angle of another one.
  A fall under a policy is not noticed, and the next policy can be chosen from the floor
  (`fsm_robot/fsm_myrobot.hpp:265`). In the simulation mjlab's file sets `dt` to 1/200 under a control
  loop of 1/240; `RL_Sim` never builds the mjlab table, so mjlab observes zeros there, and its
  `Forward` calls the one-input form on the two-input model. `ComputeOutput` maps joints
  that `GetState` has already mapped. Passive, GetUp and GetDown command poses that are
  not in policy order on the robot, and Passive uses `fixed_kp` where the control
  table of `src/README.md` says `kp=0`. The heading hold is off in every configuration of the
  repository. The torque queue grows while a policy runs. Nothing notices a
  lost link, and before the first message the state is zeros. `loop_log` is shut down
  but never started, so that no trace is written. A row of the state before can get
  into `policy_obs_sim.csv`.
* *Every robot.* GetUp takes `start_state` anew whenever it is entered (`fsm_robot/fsm_a1.hpp:77`). A
  robot that stands and is sent to GetUp again is left standing by the GetDown after it, which
  `src/README.md:233` says moves it to the initial pose; Passive then lets it sink.
* *RL.* The raw clip comes before the scaling, so that the message of the safety check names
  the wrong bound. `ObservationBuffer::insert`
  ignores a width that does not fit, and the comment of its test lists the oldest first.
  `ONNXModel::forward` passes a dynamic dimension of -1 on, which the set-up
  treats as 1, and takes the beginning of an input that is too long.
  `LoopFunc::shutdown` reports the end of a loop whose function may be running.
  `MotionLoader` accepts rows of different widths and a file of one frame (here at least two).
* *Operator.* In the simulation the velocity of a stick that is let go stays when an increment
  of the keyboard had been read and not written at that moment (`rl_sdk.cpp:98`; `src/README.md:257` says that
  it is reset): `sys_js_active` is false by then, so that nothing takes it back. A key written between `CheckChange` and `ClearInput` is lost. In the
  simulators the single buttons of the cross and those of the combinations are
  swapped, and a single button can be read before its combination is set. On Go2 a button that is tapped during a
  reading may act as X though LB was down with it. Holding X
  on the real robots and in Gazebo toggles in every period or message; releasing LB first
  toggles. A joystick that is unplugged keeps its axes. Enter then R within one period
  leaves Enter in `last_keyboard`, so that the pause toggles in every period.
* *MuJoCo.* After a reload the control loop uses data that was deleted, for the pointers are
  copied once. A second file dropped while the first is loaded blocks the viewer for ever,
  and a scene that fails to load blocks the constructor. On exit the
  physics thread deletes the data without the lock. The viewer's own reset does not empty the
  delay buffer.
* *Gazebo.* `std::clamp` is called for its result, which is discarded, in the ROS 2
  controllers; `last_command_` is shared by both threads; the limits may arrive after
  activation. A wait that is interrupted returns from the constructor, and the destructor then
  uses null pointers. Without `robot_name` the program goes on without parameters. A spawner that was killed by a
  signal counts as a success.
* *Go2 and G1.* Go2 takes a failed `CheckMode` for "no service", G1 only its first.
  The loops start without waiting for a first state. The mains of G1 built with
  CMake or for ROS 1 never run the destructor.

## 8. Plan

The modules above cover what the programs decide, and their safety is proved. What is
left:

1. `ModelInput`, `PolicyConfig`: the configurations as a parameter instead of the data
   of the repository; `InputFromBuffer` and `ConfigInv` already ask for no more than what
   `WellFormed` and `Keys` say of them.
2. Abstract specifications of the components without a lock: a register that is read
   in parts for `MotionLoader` and `RealLink`, a channel that delays for
   `ActionDelay`, and that these implement them.
3. `Orientation` for attitudes other than quarter turns, which needs the square roots
   of the code to be abstracted.
