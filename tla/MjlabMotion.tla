---------------------------- MODULE MjlabMotion -----------------------------
(***************************************************************************)
(* The reference motion of the mjlab policy, on the real robot.  It is     *)
(* baked into the network: InitRL, on the control thread, runs the network *)
(* once for each frame and keeps what comes out in a table, from which the *)
(* policy thread takes the frame that the episode has come to.             *)
(*                                                                         *)
(* <<l, t>> is frame t of the model that load l brought; Zeros stands for  *)
(* the zeros that are observed when there is no table.  RL_Sim never       *)
(* builds the table.                                                       *)
(***************************************************************************)
EXTENDS Integers, Sequences

CONSTANTS
    mjlab_motion_frames,
    MaxTableLoads           \* bound: models loaded

MjlabMotionAssumption == {mjlab_motion_frames, MaxTableLoads} \subseteq Nat \ {0}

N == mjlab_motion_frames

Configs == {"robot_lab_real", "mjlab"}
NoModel == [config |-> "none", load |-> 0]

VARIABLES
    control,        \* the policy state: "none", "entered", or, in its Enter,
                    \* "lock" before InitRL and "load" in it
    config_name, rl_init_done,
    params,         \* the configuration whose observations are in params
    model,          \* [config, load]
    loads,
    table,          \* ref_joint_pos_mjlab, _vel and ref_anchor_quat_mjlab
    mjlab_num_frames,
    episode_length_buf,
    rl,             \* where the policy thread is in RunModel
    count,          \* what it read of episode_length_buf to add one
    command, anchor \* the frames that it took for the two terms

episode == <<control, config_name, rl_init_done>>
loaded == <<params, model, loads, table, mjlab_num_frames>>
pass == <<rl, count, command, anchor>>

vars == <<episode, loaded, episode_length_buf, pass>>

Zeros == <<0, 0>>
None == <<-1, -1>>      \* the configuration has no such term

Init ==
    /\ control = "none" /\ config_name = "robot_lab_real" /\ rl_init_done = FALSE
    /\ params = "robot_lab_real"
    /\ model = [config |-> "robot_lab_real", load |-> 0] /\ loads = 0
    /\ table = <<>> /\ mjlab_num_frames = 0
    /\ episode_length_buf = 0
    /\ rl = "idle" /\ count = 0 /\ command = None /\ anchor = None
-----------------------------------------------------------------------------
(* The control thread.                                                     *)

Run ==
    /\ control = "entered"
    /\ rl_init_done' = TRUE
    /\ UNCHANGED <<control, config_name, loaded, episode_length_buf, pass>>

Exit ==
    /\ control = "entered"
    /\ control' = "none" /\ rl_init_done' = FALSE
    /\ UNCHANGED <<config_name, loaded, episode_length_buf, pass>>

\* The counter is reset before InitRL asks for the model lock ...
Enter(c) ==
    /\ control = "none"
    /\ control' = "lock"
    /\ config_name' = c
    /\ episode_length_buf' = 0
    /\ UNCHANGED <<rl_init_done, loaded, pass>>

Locked == rl \in {"command", "anchor", "forward"}

\* ... which a pass may hold.
Lock ==
    /\ control = "lock" /\ ~Locked
    /\ control' = "load"
    /\ UNCHANGED <<config_name, rl_init_done, loaded, episode_length_buf, pass>>

\* The configuration cannot be parsed, the file of the model is missing, or no
\* runtime reads it and the model is null; Passive is next.
InitRLThrows ==
    /\ control = "load"
    /\ control' = "none" /\ rl_init_done' = FALSE
    /\ \/ params' \in {params, config_name} /\ UNCHANGED model
       \/ params' = config_name /\ model' = NoModel
    /\ UNCHANGED <<config_name, loads, table, mjlab_num_frames,
                   episode_length_buf, pass>>

\* Mutant: the frames are added to those of the load before.
ExtractMore(extracted, load) ==
    IF extracted < N THEN <<>>
    ELSE table \o [t \in 1 .. N |-> <<load, t - 1>>]

\* An output that is missing or too small ends it: the frames are dropped.
Extract(extracted, load) ==
    IF extracted < N THEN <<>> ELSE [t \in 1 .. N |-> <<load, t - 1>>]

BuildMjlabMotionTable(extracted) ==
    /\ table' = Extract(extracted, loads + 1)
    /\ mjlab_num_frames' = IF extracted < N THEN 0 ELSE N

\* A table that cannot be built is no reason to throw.
OnPolicyConfigLoaded(extracted) ==
    /\ control = "load" /\ loads < MaxTableLoads
    /\ control' = "entered"
    /\ params' = config_name
    /\ loads' = loads + 1
    /\ model' = [config |-> config_name, load |-> loads + 1]
    /\ IF config_name = "mjlab" THEN BuildMjlabMotionTable(extracted)
       ELSE UNCHANGED <<table, mjlab_num_frames>>
    /\ UNCHANGED <<config_name, rl_init_done, episode_length_buf, pass>>
-----------------------------------------------------------------------------
(* RunModel, on the policy thread.  The counter is not protected, and the  *)
(* terms of the observation read it one after the other.                   *)

RunModel ==
    /\ rl = "idle" /\ rl_init_done
    /\ rl' = "count"
    /\ count' = episode_length_buf
    /\ UNCHANGED <<episode, loaded, episode_length_buf, command, anchor>>

\* The count stops, in the model, where the table has no further frame.
CountStep ==
    /\ rl = "count"
    /\ rl' = "begun"
    /\ episode_length_buf' = IF count <= N THEN count + 1 ELSE count
    /\ UNCHANGED <<episode, loaded, count, command, anchor>>

\* try_lock; with the lock taken the previous actions are used.
BeginForward ==
    /\ rl = "begun"
    /\ rl' = IF control = "load" THEN "idle" ELSE "command"
    /\ UNCHANGED <<episode, loaded, episode_length_buf, count, command, anchor>>

Phase ==
    LET t == episode_length_buf - 1
    IN  IF t < 0 THEN 0 ELSE IF t > mjlab_num_frames - 1 THEN mjlab_num_frames - 1
        ELSE t

Frame ==
    IF params # "mjlab" THEN None
    ELSE IF mjlab_num_frames > 0 /\ table # <<>> THEN table[Phase + 1]
    ELSE Zeros

ObserveCommand ==
    /\ rl = "command"
    /\ rl' = "anchor"
    /\ command' = Frame
    /\ UNCHANGED <<episode, loaded, episode_length_buf, count, anchor>>

ObserveAnchor ==
    /\ rl = "anchor"
    /\ rl' = "forward"
    /\ anchor' = Frame
    /\ UNCHANGED <<episode, loaded, episode_length_buf, count, command>>

\* The time_step that goes with them does not change what the network computes;
\* a null model ends the program.
Forward ==
    /\ rl = "forward" /\ model # NoModel
    /\ rl' = "idle" /\ command' = None /\ anchor' = None
    /\ UNCHANGED <<episode, loaded, episode_length_buf, count>>

Next ==
    \/ Run \/ Exit \/ \E c \in Configs : Enter(c)
    \/ Lock \/ InitRLThrows
    \/ \E extracted \in 0 .. N : OnPolicyConfigLoaded(extracted)
    \/ RunModel \/ CountStep \/ BeginForward
    \/ ObserveCommand \/ ObserveAnchor \/ Forward

Spec == Init /\ [][Next]_vars
-----------------------------------------------------------------------------
\* The variables have values of their types.
TypeOK ==
    /\ control \in {"none", "lock", "load", "entered"}
    /\ {config_name, params} \subseteq Configs
    /\ model = NoModel \/ model \in [config : Configs, load : 0 .. MaxTableLoads]
    /\ rl_init_done \in BOOLEAN
    /\ loads \in 0 .. MaxTableLoads /\ mjlab_num_frames \in {0, N}
    /\ Len(table) = mjlab_num_frames
    /\ episode_length_buf \in 0 .. N + 1 /\ count \in 0 .. N + 1
    /\ rl \in {"idle", "count", "begun", "command", "anchor", "forward"}

\* What mjlab's network observes of the motion is a frame of the motion that is
\* baked into that network, or zeros if its table could not be built: never a
\* frame of a model loaded before, and none beyond the end.
FrameOfModel ==
    rl = "forward" /\ params = "mjlab" /\ model.config = "mjlab" =>
        \A f \in {command, anchor} :
            IF mjlab_num_frames = 0 THEN f = Zeros
            ELSE f \in {model.load} \X (0 .. N - 1)

\* The two terms of an observation are of one frame, but for the pass that the
\* reset of the counter falls into; that one is over before the next model is
\* loaded, so that no network sees a torn observation after its own entry.
OneFrame ==
    rl = "forward" /\ command # anchor => control = "lock"

\* The terms of an observation are one frame, of the network that is given it.
MjlabMotionSafe == TypeOK /\ FrameOfModel /\ OneFrame
=============================================================================
