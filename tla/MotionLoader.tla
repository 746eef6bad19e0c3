---------------------------- MODULE MotionLoader ----------------------------
(***************************************************************************)
(* The reference motion of the g1 dances (motion_loader.cpp): the control  *)
(* thread loads it when the state is entered and moves it on in every Run, *)
(* and the policy thread reads it for its observation, without a lock      *)
(* between the two.                                                        *)
(*                                                                         *)
(* Poses are left out.  A place in the motion is counted in parts of a     *)
(* frame, num_frames_ of them to the frame.                                *)
(***************************************************************************)
EXTENDS Integers, FiniteSetsExt

CONSTANTS
    MaxFrames,      \* bound: the rows of a motion file
    MaxEntries      \* bound: how often the dance is entered

LoaderAssumption == MaxFrames \in Nat \ {0, 1} /\ MaxEntries \in Nat

VARIABLES
    state,          \* "other" or "dance"
    control,        \* where the control thread is in Enter or Run
    rl_init_done,
    num_frames_,    \* of the motion that is loaded
    entries,        \* which of the motions that were loaded this is, 0 for none
    episode_length_buf,
    time,           \* the episode_length_buf that Run saw
    index_0_, index_1_, blend_,
    moved,          \* Update was completed since the pass began
    rl,             \* where the policy thread is in RunModel
    pass,           \* [entry, index_0, index_1, blend]: what the pass read
    last            \* index_0 of the pass before, in the same episode

vars == <<state, control, rl_init_done, num_frames_, entries,
          episode_length_buf, time, index_0_, index_1_, blend_, moved, rl, pass,
          last>>

NotRead == [entry |-> 0, index_0 |-> 0, index_1 |-> 0, blend |-> 0]

Init ==
    /\ state = "other" /\ control = "idle" /\ rl_init_done \in BOOLEAN
    /\ num_frames_ = 2 /\ entries = 0
    /\ episode_length_buf = 0 /\ time = 0
    /\ index_0_ = 0 /\ index_1_ = 0 /\ blend_ = 0 /\ moved = TRUE
    /\ rl = "idle" /\ pass = NotRead /\ last = 0

\* Update: from frame 0 at the beginning to the last one at time num_frames_.
Frame(t) == Min({t, num_frames_}) * (num_frames_ - 1)
Index0(t) == Frame(t) \div num_frames_
Index1 == Min({index_0_ + 1, num_frames_ - 1})
Blend(t) == Frame(t) - index_0_ * num_frames_
-----------------------------------------------------------------------------
(* The control thread.                                                     *)

\* Another policy state hands over or is left.
OtherRuns ==
    /\ state = "other" /\ control = "idle"
    /\ rl_init_done' = ~rl_init_done
    /\ UNCHANGED <<state, control, num_frames_, entries, episode_length_buf, time,
                   index_0_, index_1_, blend_, moved, rl, pass, last>>

\* Enter: after InitRL, which a pass that has the model lock holds up, ...
Enter ==
    /\ state = "other" /\ control = "idle" /\ entries < MaxEntries
    /\ rl # "reading" /\ rl # "between"
    /\ state' = "dance" /\ control' = "loading"
    /\ rl_init_done' = FALSE
    /\ episode_length_buf' = 0
    /\ UNCHANGED <<num_frames_, entries, time, index_0_, index_1_, blend_, moved,
                   rl, pass, last>>

\* ... the motion is read: without a usable row the loader throws ...
LoadFromCSVThrows ==
    /\ control = "loading"
    /\ state' = "other" /\ control' = "idle"
    /\ UNCHANGED <<rl_init_done, num_frames_, entries, episode_length_buf, time,
                   index_0_, index_1_, blend_, moved, rl, pass, last>>

\* Mutant: the place in the motion before is kept.
StartKept(n) == Min({index_0_, n - 1})

Start(n) == 0

\* ... else the new loader takes the place of the old, and Reset puts it at the
\* beginning.  A pass in its observation goes on with what is gone by then.
LoadFromCSV(n) ==
    /\ control = "loading"
    /\ control' = "idle"
    /\ num_frames_' = n /\ entries' = entries + 1
    /\ index_0_' = Start(n) /\ index_1_' = 1 /\ blend_' = 0
    /\ time' = 0 /\ last' = 0 /\ moved' = TRUE
    /\ UNCHANGED <<state, rl_init_done, episode_length_buf, rl, pass>>

\* Run: rl_init_done, then the time, then Update, member by member.
Run ==
    /\ state = "dance" /\ control = "idle"
    /\ control' = "index_0"
    /\ rl_init_done' = TRUE
    /\ time' = Min({episode_length_buf, num_frames_})
    /\ UNCHANGED <<state, num_frames_, entries, episode_length_buf, index_0_,
                   index_1_, blend_, moved, rl, pass, last>>

UpdateIndex0 ==
    /\ control = "index_0"
    /\ control' = "index_1"
    /\ index_0_' = Index0(time)
    /\ UNCHANGED <<state, rl_init_done, num_frames_, entries, episode_length_buf,
                   time, index_1_, blend_, moved, rl, pass, last>>

UpdateIndex1 ==
    /\ control = "index_1"
    /\ control' = "blend"
    /\ index_1_' = Index1
    /\ UNCHANGED <<state, rl_init_done, num_frames_, entries, episode_length_buf,
                   time, index_0_, blend_, moved, rl, pass, last>>

\* At the end of the motion the state asks for the next one.
UpdateBlend ==
    /\ control = "blend"
    /\ control' = IF time = num_frames_ THEN "over" ELSE "idle"
    /\ blend_' = Blend(time)
    /\ moved' = TRUE
    /\ UNCHANGED <<state, rl_init_done, num_frames_, entries, episode_length_buf,
                   time, index_0_, index_1_, rl, pass, last>>

\* By its end or by a key.
Exit ==
    /\ state = "dance" /\ control \in {"idle", "over"}
    /\ state' = "other" /\ control' = "idle"
    /\ rl_init_done' = FALSE
    /\ UNCHANGED <<num_frames_, entries, episode_length_buf, time, index_0_,
                   index_1_, blend_, moved, rl, pass, last>>
-----------------------------------------------------------------------------
(* The policy thread.  Its period is several periods of the control thread *)
(* (decimation), so that between two passes an Update is completed.        *)

RunModel ==
    /\ rl = "idle" /\ rl_init_done /\ moved
    /\ rl' = "begun" /\ pass' = [NotRead EXCEPT !.entry = entries]
    /\ moved' = (state # "dance")
    /\ episode_length_buf' = Min({episode_length_buf + 1, MaxFrames + 1})
    /\ UNCHANGED <<state, control, rl_init_done, num_frames_, entries, time,
                   index_0_, index_1_, blend_, last>>

\* GetJointPos, GetJointVel and GetAnchorQuat each read the members in this order.
ReadIndex0 ==
    /\ rl = "begun" /\ state = "dance" /\ entries > 0
    /\ rl' = "reading"
    /\ pass' = [pass EXCEPT !.index_0 = index_0_]
    /\ UNCHANGED <<state, control, rl_init_done, num_frames_, entries,
                   episode_length_buf, time, index_0_, index_1_, blend_, moved,
                   last>>

ReadIndex1 ==
    /\ rl = "reading"
    /\ rl' = "between"
    /\ pass' = [pass EXCEPT !.index_1 = index_1_]
    /\ UNCHANGED <<state, control, rl_init_done, num_frames_, entries,
                   episode_length_buf, time, index_0_, index_1_, blend_, moved,
                   last>>

ReadBlend ==
    /\ rl = "between"
    /\ rl' = "read"
    /\ pass' = [pass EXCEPT !.blend = blend_]
    /\ UNCHANGED <<state, control, rl_init_done, num_frames_, entries,
                   episode_length_buf, time, index_0_, index_1_, blend_, moved,
                   last>>

Return ==
    /\ rl = "read" \/ (rl = "begun" /\ state = "other")
    /\ rl' = "idle"
    /\ last' = IF rl = "read" /\ pass.entry = entries THEN pass.index_0 ELSE last
    /\ UNCHANGED <<state, control, rl_init_done, num_frames_, entries,
                   episode_length_buf, time, index_0_, index_1_, blend_, moved,
                   pass>>

Next ==
    \/ OtherRuns \/ Enter \/ LoadFromCSVThrows
    \/ \E n \in 2 .. MaxFrames : LoadFromCSV(n)
    \/ Run \/ UpdateIndex0 \/ UpdateIndex1 \/ UpdateBlend \/ Exit
    \/ RunModel \/ ReadIndex0 \/ ReadIndex1 \/ ReadBlend \/ Return

Spec == Init /\ [][Next]_vars
-----------------------------------------------------------------------------
\* The variables have values of their types.
TypeOK ==
    /\ state \in {"other", "dance"}
    /\ control \in {"idle", "loading", "index_0", "index_1", "blend", "over"}
    /\ {rl_init_done, moved} \subseteq BOOLEAN
    /\ num_frames_ \in 2 .. MaxFrames /\ entries \in 0 .. MaxEntries
    /\ {index_0_, index_1_} \subseteq 0 .. num_frames_ - 1
    /\ blend_ \in 0 .. num_frames_ - 1
    /\ rl \in {"idle", "begun", "reading", "between", "read"}

Own == rl = "read" /\ pass.entry = entries /\ state = "dance" /\ rl_init_done

\* The two indices and the blend are written one after the other while a pass
\* reads them one after the other, so that it may observe the mean of two frames
\* that are not neighbours; but the place in the motion is at most two frames from
\* that of its own time.
PlaceIsNear ==
    Own =>
        LET place == pass.index_0 * num_frames_
                        + (pass.index_1 - pass.index_0) * pass.blend
        IN  place - Frame(episode_length_buf)
              \in -2 * num_frames_ .. 2 * num_frames_

\* Nor does the motion run backwards from one pass of a dance to the next.
MotionGoesOn == Own => pass.index_0 >= last

\* What a pass reads of the motion without a lock is near its time and goes on.
MotionLoaderSafe == TypeOK /\ PlaceIsNear /\ MotionGoesOn
=============================================================================
