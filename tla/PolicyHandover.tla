--------------------------- MODULE PolicyHandover ---------------------------
(***************************************************************************)
(* A learned state taking over the robot on the real machine: the control  *)
(* thread (Enter, Run and RLControl, CheckChange and Exit of a learned     *)
(* state, fsm_myrobot.hpp and rl_sdk.cpp) against the policy thread        *)
(* (RunModel and Forward, rl_real_myrobot.cpp), one action per access to   *)
(* what they share.  Only the model is protected by a mutex; rl_init_done, *)
(* episode_length_buf and config_name are plain members, and the outputs   *)
(* travel through three independent queues.                                *)
(*                                                                         *)
(* A frame is one pass of RunModel.  `age' is the number of passes begun   *)
(* since, and `fresh' says whether it began in the present session, so     *)
(* that the number of sessions and frames need not be bounded.             *)
(***************************************************************************)
EXTENDS Integers, Sequences, FiniteSets

CONSTANTS
    Locomotion, Mjlab,  \* config names; locomotion has no end of episode
    Policy,             \* the config names of the learned states
    NoModel,            \* a null model, and the zero actions of InitRL
    BlendFrames,        \* control cycles of rl_blend_duration
    MaxEpisodeLength,   \* max_episode_length
    MaxQueue            \* bound on the backlog of the queues

ASSUME HandoverAssumption ==
    /\ {Locomotion, Mjlab} \subseteq Policy
    /\ Locomotion # Mjlab
    /\ NoModel \notin Policy
    /\ {BlendFrames, MaxEpisodeLength, MaxQueue} \subseteq Nat \ {0}

VARIABLES
    \* shared
    rl_init_done, episode_length_buf, config_name, model,
    model_mutex,            \* "free", "control" or "rl"
    output_dof_pos_queue, output_dof_vel_queue,
    output_dof_tau_queue,   \* its length only, up to 1: Run never pops it
    \* control thread
    control,                \* its program counter
    entering,               \* the first Run of this session
    rl_wait_first_frame, rl_blend_active, rl_blend_time,
    rl_blend_q_target, rl_blend_dq_target,
    popped,                 \* what try_pop returned for the positions
    command,                \* the branch that wrote the motor command
    \* policy thread
    rl,                     \* its program counter
    seen,                   \* episode_length_buf as read by +=
    frame,                  \* output_dof_pos, _vel and _tau of this pass
    actions,                \* the policy that computed obs.actions
    aborted,                \* an exception left a thread: std::terminate
    \* history
    steps,                  \* policy steps of this session, of passes begun in it
    under_way,              \* += of an earlier pass that the reset of Enter met:
                            \* "none", before its "read", or before its "write"
    stale_pos, stale_vel,   \* frames of an earlier session popped since Enter
    blended                 \* blended commands since Enter

outputs == <<output_dof_pos_queue, output_dof_vel_queue, output_dof_tau_queue>>
shared == <<rl_init_done, episode_length_buf, config_name, model, model_mutex>>
blend == <<rl_wait_first_frame, rl_blend_active, rl_blend_time,
           rl_blend_q_target, rl_blend_dq_target, popped, command>>
policyThread == <<rl, seen, frame, actions, aborted>>
history == <<steps, under_way, stale_pos, stale_vel, blended>>
vars == <<shared, outputs, control, entering, blend, policyThread, history>>

\* A target that no frame has set: hold_q_on_enter, and zero velocity.
Hold == [age |-> -1, fresh |-> TRUE, by |-> NoModel]
Nothing == [age |-> -2, fresh |-> TRUE, by |-> NoModel]

\* The age a frame can reach with that backlog, in force for one more period.
MaxAge == MaxQueue + 1

Frame == [age : 0 .. MaxAge, fresh : BOOLEAN, by : Policy \cup {NoModel}]

\* A session, or a pass, has begun since.
Old(f) == [f EXCEPT !.fresh = FALSE]
Aged(f) == IF f \in {Hold, Nothing} THEN f ELSE [f EXCEPT !.age = @ + 1]

Each(op(_), queue) == [i \in DOMAIN queue |-> op(queue[i])]

Bounded(k, max) == IF k < max THEN k ELSE max

Init ==
    /\ rl_init_done = FALSE
    /\ episode_length_buf = 0
    /\ config_name = Locomotion
    /\ model = NoModel
    /\ model_mutex = "free"
    /\ output_dof_pos_queue = <<>>
    /\ output_dof_vel_queue = <<>>
    /\ output_dof_tau_queue = 0
    /\ control = "out"
    /\ entering = FALSE
    /\ rl_wait_first_frame = FALSE
    /\ rl_blend_active = FALSE
    /\ rl_blend_time = 0
    /\ rl_blend_q_target = Hold
    /\ rl_blend_dq_target = Hold
    /\ popped = Nothing
    /\ command = "other"
    /\ rl = "check"
    /\ seen = 0
    /\ frame = [age |-> 0, fresh |-> FALSE, by |-> NoModel]
    /\ actions = NoModel
    /\ aborted = FALSE
    /\ steps = 0
    /\ under_way = "none"
    /\ stale_pos = 0
    /\ stale_vel = 0
    /\ blended = 0
-----------------------------------------------------------------------------
(* The control thread: Enter.                                              *)

Step(from, to) == ~aborted /\ control = from /\ control' = to

\* Mutant: the gate for the first frame is not armed.
EnterResetUngated ==
    /\ Step("out", "drain_pos")
    /\ episode_length_buf' = 0
    /\ rl_blend_active' = FALSE
    /\ rl_blend_time' = 0
    /\ rl_blend_q_target' = Hold
    /\ rl_blend_dq_target' = Hold
    /\ frame' = Old(frame)
    /\ output_dof_pos_queue' = Each(Old, output_dof_pos_queue)
    /\ output_dof_vel_queue' = Each(Old, output_dof_vel_queue)
    /\ steps' = 0 /\ stale_pos' = 0 /\ stale_vel' = 0 /\ blended' = 0
    /\ under_way' = IF rl \in {"read", "write"} THEN rl ELSE "none"
    /\ UNCHANGED <<rl_init_done, config_name, model, model_mutex,
                   output_dof_tau_queue, entering, rl_wait_first_frame, popped,
                   command, rl, seen, actions, aborted>>

\* A new session: all frames that exist now belong to an earlier one.
EnterReset ==
    /\ Step("out", "drain_pos")
    /\ episode_length_buf' = 0
    /\ rl_wait_first_frame' = TRUE
    /\ rl_blend_active' = FALSE
    /\ rl_blend_time' = 0
    /\ rl_blend_q_target' = Hold
    /\ rl_blend_dq_target' = Hold
    /\ frame' = Old(frame)
    /\ output_dof_pos_queue' = Each(Old, output_dof_pos_queue)
    /\ output_dof_vel_queue' = Each(Old, output_dof_vel_queue)
    /\ steps' = 0 /\ stale_pos' = 0 /\ stale_vel' = 0 /\ blended' = 0
    /\ under_way' = IF rl \in {"read", "write"} THEN rl ELSE "none"
    /\ UNCHANGED <<rl_init_done, config_name, model, model_mutex,
                   output_dof_tau_queue, entering, popped, command, rl, seen,
                   actions, aborted>>

\* Mutant: a queue is forgotten.
DrainPosNot ==
    /\ Step("drain_pos", "drain_vel")
    /\ UNCHANGED <<shared, outputs, entering, blend, policyThread, history>>

\* Each loop of try_pop ends at a moment at which its queue is empty.
DrainPos ==
    /\ Step("drain_pos", "drain_vel")
    /\ output_dof_pos_queue' = <<>>
    /\ UNCHANGED <<shared, output_dof_vel_queue, output_dof_tau_queue,
                   entering, blend, policyThread, history>>

DrainVel ==
    /\ Step("drain_vel", "drain_tau")
    /\ output_dof_vel_queue' = <<>>
    /\ UNCHANGED <<shared, output_dof_pos_queue, output_dof_tau_queue,
                   entering, blend, policyThread, history>>

DrainTau ==
    /\ Step("drain_tau", "config")
    /\ output_dof_tau_queue' = 0
    /\ UNCHANGED <<shared, output_dof_pos_queue, output_dof_vel_queue,
                   entering, blend, policyThread, history>>

\* config_name is assigned before InitRL takes the mutex.
SetConfig(p) ==
    /\ Step("config", "lock")
    /\ config_name' = p
    /\ UNCHANGED <<rl_init_done, episode_length_buf, model, model_mutex,
                   outputs, entering, blend, policyThread, history>>

\* Mutant: the model is replaced without waiting for the inference.
LockModelNot ==
    /\ Step("lock", "init")
    /\ UNCHANGED <<shared, outputs, entering, blend, policyThread, history>>

LockModel ==
    /\ Step("lock", "init")
    /\ model_mutex = "free"
    /\ model_mutex' = "control"
    /\ UNCHANGED <<rl_init_done, episode_length_buf, config_name, model,
                   outputs, entering, blend, policyThread, history>>

\* InitRL resets obs.actions, assigns the model and releases the mutex; Enter
\* then rearranges the pose to hold.
InitRL ==
    /\ Step("init", "run")
    /\ model' = config_name
    /\ actions' = NoModel
    /\ model_mutex' = "free"
    /\ entering' = TRUE
    /\ UNCHANGED <<rl_init_done, episode_length_buf, config_name, outputs,
                   blend, rl, seen, frame, aborted, history>>

\* InitRL throws: the file is missing, the runtime returned a null model, or
\* what follows the load fails.
InitRLThrows ==
    /\ Step("init", "exit")
    /\ model' \in {model, NoModel, config_name}
    /\ actions' \in {actions, NoModel}
    /\ model_mutex' = "free"
    /\ rl_init_done' = FALSE
    /\ UNCHANGED <<episode_length_buf, config_name, outputs, entering, blend,
                   rl, seen, frame, aborted, history>>
-----------------------------------------------------------------------------
(* The control thread: Run, CheckChange and Exit.                          *)

\* Locomotion was entered with the dance key pressed: it asks for the dance
\* before it enables the policy.
RunSwitches ==
    /\ Step("run", "exit")
    /\ config_name = Locomotion
    /\ UNCHANGED <<shared, outputs, entering, blend, policyThread, history>>

Run ==
    /\ Step("run", "pop_pos")
    /\ rl_init_done' = TRUE
    /\ UNCHANGED <<episode_length_buf, config_name, model, model_mutex,
                   outputs, entering, blend, policyThread, history>>

PopPos ==
    /\ Step("pop_pos", "pop_vel")
    /\ IF output_dof_pos_queue = <<>>
       THEN popped' = Nothing /\ UNCHANGED <<output_dof_pos_queue, stale_pos>>
       ELSE /\ popped' = Head(output_dof_pos_queue)
            /\ output_dof_pos_queue' = Tail(output_dof_pos_queue)
            /\ stale_pos' = IF popped'.fresh THEN stale_pos ELSE stale_pos + 1
    /\ UNCHANGED <<shared, output_dof_vel_queue, output_dof_tau_queue,
                   entering, rl_wait_first_frame, rl_blend_active,
                   rl_blend_time, rl_blend_q_target, rl_blend_dq_target,
                   command, policyThread, steps, under_way, stale_vel, blended>>

\* Mutant: the end of the blend window is off by one.
ApplyLate(new) ==
    LET starts == rl_wait_first_frame /\ new
        time   == (IF starts THEN 0 ELSE rl_blend_time) + 1
    IN  /\ rl_wait_first_frame' = (rl_wait_first_frame /\ ~new)
        /\ IF starts \/ (~rl_wait_first_frame /\ rl_blend_active)
           THEN /\ command' = "blend"
                /\ rl_blend_time' = time
                /\ rl_blend_active' = (time <= BlendFrames)
                /\ blended' = blended + 1
           ELSE /\ command' = IF rl_wait_first_frame THEN "hold" ELSE "policy"
                /\ UNCHANGED <<rl_blend_active, rl_blend_time, blended>>

\* The part of RLControl after the pops, given whether one of them succeeded.
Apply(new) ==
    LET starts == rl_wait_first_frame /\ new
        time   == (IF starts THEN 0 ELSE rl_blend_time) + 1
    IN  /\ rl_wait_first_frame' = (rl_wait_first_frame /\ ~new)
        /\ \/ /\ rl_wait_first_frame /\ ~new
              /\ command' = "hold"
              /\ UNCHANGED <<rl_blend_active, rl_blend_time, blended>>
           \/ /\ starts \/ (~rl_wait_first_frame /\ rl_blend_active)
              /\ command' = "blend"
              /\ rl_blend_time' = time
              /\ rl_blend_active' = (time < BlendFrames)
              /\ blended' = blended + 1
           \/ /\ ~rl_wait_first_frame /\ ~rl_blend_active
              /\ command' = IF new THEN "policy" ELSE command
              /\ UNCHANGED <<rl_blend_active, rl_blend_time, blended>>

\* Mutant: the velocities are popped up to the newest.
PopVelNewest ==
    IF output_dof_vel_queue = <<>>
    THEN UNCHANGED <<output_dof_vel_queue, rl_blend_dq_target, stale_vel>>
    ELSE /\ rl_blend_dq_target' =
                output_dof_vel_queue[Len(output_dof_vel_queue)]
         /\ output_dof_vel_queue' = <<>>
         /\ stale_vel' = IF rl_blend_dq_target'.fresh
                         THEN stale_vel ELSE stale_vel + 1

PopVel ==
    IF output_dof_vel_queue = <<>>
    THEN UNCHANGED <<output_dof_vel_queue, rl_blend_dq_target, stale_vel>>
    ELSE /\ rl_blend_dq_target' = Head(output_dof_vel_queue)
         /\ output_dof_vel_queue' = Tail(output_dof_vel_queue)
         /\ stale_vel' = IF rl_blend_dq_target'.fresh
                         THEN stale_vel ELSE stale_vel + 1

\* The second pop and the rest of RLControl.  A missing counterpart is
\* replaced by the previous target.
PopVelAndApply ==
    /\ Step("pop_vel", IF entering THEN "run" ELSE "check_change")
    /\ entering' = FALSE
    /\ rl_blend_q_target' =
           IF popped = Nothing THEN rl_blend_q_target ELSE popped
    /\ PopVel
    /\ Apply(popped # Nothing \/ output_dof_vel_queue # <<>>)
    /\ popped' = Nothing
    /\ UNCHANGED <<shared, output_dof_pos_queue, output_dof_tau_queue,
                   policyThread, steps, under_way, stale_pos>>

EpisodeOver ==
    config_name # Locomotion /\ episode_length_buf >= MaxEpisodeLength

\* CheckChange without a key that matters: the state is kept until its episode
\* is over.  (CheckChange is not called in the cycle that entered the state.)
KeepState ==
    /\ Step("check_change", "run")
    /\ ~EpisodeOver
    /\ UNCHANGED <<shared, outputs, entering, blend, policyThread, history>>

AutoExit ==
    /\ Step("check_change", "exit")
    /\ EpisodeOver
    /\ UNCHANGED <<shared, outputs, entering, blend, policyThread, history>>

LeaveByKey ==
    /\ Step("check_change", "exit")
    /\ UNCHANGED <<shared, outputs, entering, blend, policyThread, history>>

\* Mutant: the policy stays enabled.
ExitKeepsPolicy ==
    /\ Step("exit", "out")
    /\ UNCHANGED <<shared, outputs, entering, blend, policyThread, history>>

Exit ==
    /\ Step("exit", "out")
    /\ rl_init_done' = FALSE
    /\ UNCHANGED <<episode_length_buf, config_name, model, model_mutex,
                   outputs, entering, blend, policyThread, history>>

Control ==
    \/ EnterReset \/ DrainPos \/ DrainVel \/ DrainTau
    \/ \E p \in Policy : SetConfig(p)
    \/ LockModel \/ InitRL \/ InitRLThrows
    \/ RunSwitches \/ Run \/ PopPos \/ PopVelAndApply
    \/ KeepState \/ AutoExit \/ LeaveByKey \/ Exit
-----------------------------------------------------------------------------
(* The policy thread: RunModel.                                            *)

RlStep(from, to) == ~aborted /\ rl = from /\ rl' = to

\* The backlog is bounded here: the control thread pops at least as often as
\* this thread pushes.
RlCheck ==
    /\ RlStep("check", "read")
    /\ rl_init_done
    /\ Len(output_dof_pos_queue) < MaxQueue
    /\ Len(output_dof_vel_queue) < MaxQueue
    /\ frame' = [age |-> 0, fresh |-> TRUE, by |-> NoModel]
    /\ output_dof_pos_queue' = Each(Aged, output_dof_pos_queue)
    /\ output_dof_vel_queue' = Each(Aged, output_dof_vel_queue)
    /\ rl_blend_q_target' = Aged(rl_blend_q_target)
    /\ rl_blend_dq_target' = Aged(rl_blend_dq_target)
    /\ popped' = Aged(popped)
    /\ UNCHANGED <<shared, output_dof_tau_queue, control, entering,
                   rl_wait_first_frame, rl_blend_active, rl_blend_time, command,
                   seen, actions, aborted, history>>

\* episode_length_buf += 1 is a read and a write of a plain member.
ReadCount ==
    /\ RlStep("read", "write")
    /\ seen' = episode_length_buf
    /\ UNCHANGED <<shared, outputs, control, entering, blend, frame, actions,
                   aborted, history>>

\* Mutant: the step is not counted.
WriteCountNot ==
    /\ RlStep("write", "forward")
    /\ episode_length_buf' = seen
    /\ steps' = IF frame.fresh THEN Bounded(steps + 1, MaxEpisodeLength) ELSE steps
    /\ UNCHANGED <<rl_init_done, config_name, model, model_mutex, outputs,
                   control, entering, blend, seen, frame, actions, aborted,
                   under_way, stale_pos, stale_vel, blended>>

WriteCount ==
    /\ RlStep("write", "forward")
    /\ episode_length_buf' = Bounded(seen + 1, MaxEpisodeLength)
    /\ steps' = IF frame.fresh THEN Bounded(steps + 1, MaxEpisodeLength) ELSE steps
    /\ UNCHANGED <<rl_init_done, config_name, model, model_mutex, outputs,
                   control, entering, blend, seen, frame, actions, aborted,
                   under_way, stale_pos, stale_vel, blended>>

\* Forward: try_to_lock succeeds ...
TryLock ==
    /\ RlStep("forward", "infer")
    /\ model_mutex = "free"
    /\ model_mutex' = "rl"
    /\ UNCHANGED <<rl_init_done, episode_length_buf, config_name, model,
                   outputs, control, entering, blend, seen, frame, actions,
                   aborted, history>>

\* ... or fails, and the previous actions are used.
UsePreviousActions ==
    /\ RlStep("forward", "push_pos")
    /\ model_mutex = "control"
    /\ frame' = [frame EXCEPT !.by = actions]
    /\ UNCHANGED <<shared, outputs, control, entering, blend, seen, actions,
                   aborted, history>>

\* forward_io knows the inputs of the mjlab network only; a null model cannot
\* be called at all.
CanInfer == model # NoModel /\ (config_name = Mjlab => model = Mjlab)

\* Mutant: the lock is not released.
InferKeepsLock ==
    /\ CanInfer
    /\ RlStep("infer", "push_pos")
    /\ actions' = model
    /\ frame' = [frame EXCEPT !.by = model]
    /\ UNCHANGED <<shared, outputs, control, entering, blend, seen, aborted,
                   history>>

Infer ==
    /\ CanInfer
    /\ RlStep("infer", "push_pos")
    /\ actions' = model
    /\ frame' = [frame EXCEPT !.by = model]
    /\ model_mutex' = IF model_mutex = "rl" THEN "free" ELSE model_mutex
    /\ UNCHANGED <<rl_init_done, episode_length_buf, config_name, model,
                   outputs, control, entering, blend, seen, aborted, history>>

\* Nothing catches the exception: the process ends.
InferThrows ==
    /\ ~CanInfer
    /\ RlStep("infer", "infer")
    /\ aborted' = TRUE
    /\ UNCHANGED <<shared, outputs, control, entering, blend, seen, frame,
                   actions, history>>

PushPos ==
    /\ RlStep("push_pos", "push_vel")
    /\ output_dof_pos_queue' = Append(output_dof_pos_queue, frame)
    /\ UNCHANGED <<shared, output_dof_vel_queue, output_dof_tau_queue, control,
                   entering, blend, seen, frame, actions, aborted, history>>

PushVel ==
    /\ RlStep("push_vel", "push_tau")
    /\ output_dof_vel_queue' = Append(output_dof_vel_queue, frame)
    /\ UNCHANGED <<shared, output_dof_pos_queue, output_dof_tau_queue, control,
                   entering, blend, seen, frame, actions, aborted, history>>

PushTau ==
    /\ RlStep("push_tau", "check")
    /\ output_dof_tau_queue' = 1
    /\ UNCHANGED <<shared, output_dof_pos_queue, output_dof_vel_queue, control,
                   entering, blend, seen, frame, actions, aborted, history>>

RunModel ==
    \/ RlCheck \/ ReadCount \/ WriteCount
    \/ TryLock \/ UsePreviousActions \/ Infer \/ InferThrows
    \/ PushPos \/ PushVel \/ PushTau

Next == Control \/ RunModel

Spec == Init /\ [][Next]_vars

\* Both threads are called every period and neither handler blocks for ever.
\* The operator owes no key: the control thread need not enter a state.
FairSpec == Spec /\ WF_vars(Control /\ control # "out") /\ WF_vars(RunModel)
-----------------------------------------------------------------------------
\* The variables have values of their types.
TypeOK ==
    /\ rl_init_done \in BOOLEAN
    /\ episode_length_buf \in 0 .. MaxEpisodeLength
    /\ config_name \in Policy
    /\ model \in Policy \cup {NoModel}
    /\ model_mutex \in {"free", "control", "rl"}
    /\ output_dof_pos_queue \in Seq(Frame)
    /\ output_dof_vel_queue \in Seq(Frame)
    /\ output_dof_tau_queue \in {0, 1}
    /\ control \in {"out", "drain_pos", "drain_vel", "drain_tau", "config",
                    "lock", "init", "run", "pop_pos", "pop_vel",
                    "check_change", "exit"}
    /\ entering \in BOOLEAN
    /\ rl_wait_first_frame \in BOOLEAN
    /\ rl_blend_active \in BOOLEAN
    /\ rl_blend_time \in 0 .. BlendFrames
    /\ {rl_blend_q_target, rl_blend_dq_target} \subseteq Frame \cup {Hold}
    /\ popped \in Frame \cup {Nothing}
    /\ command \in {"other", "hold", "blend", "policy"}
    /\ rl \in {"check", "read", "write", "forward", "infer",
               "push_pos", "push_vel", "push_tau"}
    /\ seen \in 0 .. MaxEpisodeLength
    /\ frame \in Frame
    /\ actions \in Policy \cup {NoModel}
    /\ aborted \in BOOLEAN
    /\ steps \in 0 .. MaxEpisodeLength
    /\ under_way \in {"none", "read", "write"}
    /\ {stale_pos, stale_vel} \subseteq Nat
    /\ blended \in 0 .. BlendFrames

\* After draining the queues, a session is handed at most one frame of an
\* earlier session: the one that was in flight when Enter drained.
AtMostOneStale == stale_pos <= 1 /\ stale_vel <= 1

\* The position and the velocity target in force come from the same frame or
\* from neighbouring ones, although their queues are popped separately.
NeighbouringFrames ==
    control = "run" /\ Hold \notin {rl_blend_q_target, rl_blend_dq_target}
        => rl_blend_q_target.age - rl_blend_dq_target.age \in {-1, 0, 1}

\* A frame of this session was computed by the policy this session loaded.
FreshFramesAreOwn ==
    \A f \in {output_dof_pos_queue[i] : i \in DOMAIN output_dof_pos_queue}
             \cup {output_dof_vel_queue[i] : i \in DOMAIN output_dof_vel_queue}
             \cup ({rl_blend_q_target, rl_blend_dq_target} \ {Hold}) :
        f.fresh => f.by = model /\ model = config_name

\* The counter never lags behind the steps of this session, so a motion is not
\* played past its end.  It is exactly their number unless the reset of Enter
\* met an increment of the pass under way: one that had still to read counts
\* one step too many, one that had read loses the reset.
CountsOwnSteps ==
    /\ steps <= episode_length_buf
    /\ under_way = "none" => episode_length_buf = steps
    /\ under_way = "read" => episode_length_buf \in {steps, steps + 1}

\* The model is not replaced while the policy thread is calling it.
NoSwapDuringInference ==
    [][rl = "infer" => model' = model]_vars

\* The raw output of the policy reaches the motors only after the whole blend
\* window of this session.
DirectAfterBlend ==
    [][PopVelAndApply /\ command' = "policy" => blended >= BlendFrames]_vars

\* A session that is kept gets its first frame, or the process has ended.
FirstFrameArrives ==
    (control = "run" /\ rl_wait_first_frame)
        ~> (~rl_wait_first_frame \/ control = "exit" \/ aborted)

\* InitRL is never locked out by the policy thread.
LoadStarts == (control = "lock") ~> (control = "init" \/ aborted)

\* Claimed by the comment in Forward: the mjlab branch calls the network with
\* the two inputs obs and time_step.
MjlabRunsMjlabModel == rl = "infer" /\ config_name = Mjlab => model = Mjlab

\* An entry gets through: InitRL to the model, the first frame to the state.
EntriesEnd == FirstFrameArrives /\ LoadStarts
=============================================================================
