---------------------------- MODULE ActionDelay ----------------------------
(***************************************************************************)
(* The simulated delay of the actuators in rl_sim_mujoco.cpp: an action of *)
(* the policy thread (RunModel) waits in action_delay_buffer_ until a      *)
(* control cycle (RobotControl) finds its time has come and moves it to    *)
(* the queue that the FSM reads.  Time is counted in control cycles.       *)
(*                                                                         *)
(* An action is `dirty' when its pass of RunModel began before the latest  *)
(* R, which begins a new episode.                                          *)
(***************************************************************************)
EXTENDS Naturals, Sequences

CONSTANTS
    Delays,         \* what ResampleActionDelay can draw, in control cycles
    HistoryLength,  \* actions_history_length
    MaxBacklog      \* actions that wait for the control thread

\* The least that makes sense: the configuration has a longest delay.
DelayAssumption ==
    /\ Delays \subseteq Nat \ {0}
    /\ \E longest \in Delays : \A d \in Delays : d <= longest
    /\ {HistoryLength, MaxBacklog} \subseteq Nat \ {0}

VARIABLES
    rl_init_done,
    simulation_running,
    delayed,                \* the configuration of the state has a delay
    cycle,                  \* what the control cycle does next
    rl,                     \* what RunModel does next
    was_rl_init_done_,
    current_delay_ms_,      \* in cycles
    pass_dirty,
    release_time,           \* of the action to be pushed, in cycles from now
    action_delay_buffer_,
    output_dof_queue,       \* of the flags of the actions
    actions_history         \* newest first: "own", "dirty" or "zero"

control == <<rl_init_done, simulation_running, delayed, cycle>>
policy == <<rl, was_rl_init_done_, pass_dirty, release_time>>
actions == <<action_delay_buffer_, output_dof_queue, actions_history>>
vars == <<control, policy, current_delay_ms_, actions>>

Max(S) == CHOOSE n \in S : \A m \in S : m <= n
Longest == Max(Delays)

Zeros == [k \in 1 .. HistoryLength |-> "zero"]

Init ==
    /\ rl_init_done = FALSE /\ simulation_running = TRUE /\ delayed = FALSE
    /\ cycle = "state"
    /\ rl = "idle" /\ was_rl_init_done_ = FALSE
    /\ pass_dirty = FALSE /\ release_time = 0
    /\ current_delay_ms_ = 0
    /\ action_delay_buffer_ = <<>> /\ output_dof_queue = <<>>
    /\ actions_history = Zeros

ResampleActionDelay ==
    current_delay_ms_' \in IF delayed THEN Delays ELSE {0}
-----------------------------------------------------------------------------
(* The control cycle.                                                      *)

\* Exit of a learned state; a switch to another one enters it in this cycle.
Exit ==
    /\ cycle = "state" /\ rl_init_done
    /\ rl_init_done' = FALSE
    /\ cycle' \in {"state", "drain"}
    /\ UNCHANGED <<simulation_running, delayed, policy, current_delay_ms_, actions>>

\* Enter of a learned state, its queue emptied and its history cleared, and
\* its first Run.
Enter ==
    /\ cycle = "state" /\ ~rl_init_done
    /\ rl_init_done' = TRUE
    /\ delayed' \in BOOLEAN
    /\ output_dof_queue' = <<>>
    /\ actions_history' = Zeros
    /\ cycle' = "drain"
    /\ UNCHANGED <<simulation_running, policy, current_delay_ms_,
                   action_delay_buffer_>>

\* RLControl takes an action, if there is one.
Run ==
    /\ cycle = "state"
    /\ cycle' = "drain"
    /\ output_dof_queue' =
         IF rl_init_done /\ output_dof_queue # <<>> THEN Tail(output_dof_queue)
         ELSE output_dof_queue
    /\ UNCHANGED <<rl_init_done, simulation_running, delayed, policy,
                   current_delay_ms_, action_delay_buffer_, actions_history>>

\* The length of the longest prefix whose time has come.
Due(buffer) ==
    LET held == {i \in DOMAIN buffer : buffer[i].left > 0}
    IN  IF held = {} THEN Len(buffer)
        ELSE (CHOOSE i \in held : \A j \in held : i <= j) - 1

DrainActionDelayBuffer ==
    /\ cycle = "drain"
    /\ LET n == Due(action_delay_buffer_)
       IN  /\ output_dof_queue' =
                output_dof_queue
                    \o [i \in 1 .. n |-> [overtaken |-> action_delay_buffer_[i].overtaken,
                                        dirty |-> action_delay_buffer_[i].dirty]]
           /\ action_delay_buffer_' =
                SubSeq(action_delay_buffer_, n + 1, Len(action_delay_buffer_))
    /\ cycle' = "keys"
    /\ UNCHANGED <<rl_init_done, simulation_running, delayed, policy,
                   current_delay_ms_, actions_history>>

\* A cycle later, every action that waits is a cycle nearer to its time.
Tick ==
    action_delay_buffer_' =
        [i \in DOMAIN action_delay_buffer_ |->
            [action_delay_buffer_[i] EXCEPT
                !.left = IF @ > 0 THEN @ - 1 ELSE 0,
                !.age = IF @ <= Longest THEN @ + 1 ELSE @]]

\* The end of the cycle; Enter stops or starts the simulation.
Keys(enter) ==
    /\ cycle = "keys"
    /\ cycle' = "state"
    /\ simulation_running' = (simulation_running # enter)
    /\ Tick
    /\ UNCHANGED <<rl_init_done, delayed, policy, current_delay_ms_,
                   output_dof_queue, actions_history>>

\* R: an episode begins, with a delay of its own ...
Reset ==
    /\ cycle = "keys"
    /\ cycle' = "clear"
    /\ ResampleActionDelay
    /\ pass_dirty' = TRUE
    /\ action_delay_buffer_' =
         [i \in DOMAIN action_delay_buffer_ |->
             [action_delay_buffer_[i] EXCEPT !.dirty = TRUE]]
    /\ actions_history' =
         [k \in DOMAIN actions_history |->
             IF actions_history[k] = "own" THEN "dirty" ELSE actions_history[k]]
    /\ UNCHANGED <<rl_init_done, simulation_running, delayed, rl,
                   was_rl_init_done_, release_time, output_dof_queue>>

\* Mutant: R leaves the delayed actions where they are.
ResetClearNot ==
    /\ cycle = "clear"
    /\ cycle' = "clear_history"
    /\ UNCHANGED <<rl_init_done, simulation_running, delayed, policy,
                   current_delay_ms_, actions>>

\* ... ClearActionDelayBuffer ...
ResetClear ==
    /\ cycle = "clear"
    /\ cycle' = "clear_history"
    /\ action_delay_buffer_' = <<>>
    /\ UNCHANGED <<rl_init_done, simulation_running, delayed, policy,
                   current_delay_ms_, output_dof_queue, actions_history>>

\* ... and ClearActionsHistory.
ResetClearHistory ==
    /\ cycle = "clear_history"
    /\ cycle' = "state"
    /\ actions_history' = Zeros
    /\ Tick
    /\ UNCHANGED <<rl_init_done, simulation_running, delayed, policy,
                   current_delay_ms_, output_dof_queue>>

RobotControl ==
    \/ Exit \/ Enter \/ Run
    \/ DrainActionDelayBuffer
    \/ Reset \/ ResetClear \/ ResetClearHistory
    \/ \E enter \in BOOLEAN : Keys(enter)
-----------------------------------------------------------------------------
(* The policy thread.                                                      *)

Off ==
    /\ rl = "idle" /\ ~(rl_init_done /\ simulation_running)
    /\ was_rl_init_done_
    /\ was_rl_init_done_' = FALSE
    /\ UNCHANGED <<control, rl, pass_dirty, release_time, current_delay_ms_,
                   actions>>

\* The policy runs at a fraction of the control rate: it does not begin while
\* MaxBacklog actions wait.
RunModel ==
    /\ rl = "idle" /\ rl_init_done /\ simulation_running
    /\ Len(action_delay_buffer_) + Len(output_dof_queue) < MaxBacklog
    /\ rl' = IF was_rl_init_done_ THEN "forward" ELSE "resample"
    /\ was_rl_init_done_' = TRUE
    /\ pass_dirty' = FALSE
    /\ UNCHANGED <<control, release_time, current_delay_ms_, actions>>

\* The first pass after the policy was off.
Resample ==
    /\ rl = "resample"
    /\ rl' = "clear"
    /\ ResampleActionDelay
    /\ UNCHANGED <<control, was_rl_init_done_, pass_dirty, release_time, actions>>

FirstClear ==
    /\ rl = "clear"
    /\ rl' = "forward"
    /\ action_delay_buffer_' = <<>>
    /\ actions_history' = Zeros
    /\ UNCHANGED <<control, was_rl_init_done_, pass_dirty, release_time,
                   current_delay_ms_, output_dof_queue>>

\* The action joins the history, which keeps its length.
Forward ==
    /\ rl = "forward"
    /\ rl' = "delay"
    /\ actions_history' =
         SubSeq(<<IF pass_dirty THEN "dirty" ELSE "own">> \o actions_history,
                1, HistoryLength)
    /\ UNCHANGED <<control, was_rl_init_done_, pass_dirty, release_time,
                   current_delay_ms_, action_delay_buffer_, output_dof_queue>>

\* Without a delay the action goes to the FSM at once, past those that wait;
\* with one its time is computed ...
Delay ==
    /\ rl = "delay"
    /\ IF current_delay_ms_ = 0
       THEN /\ rl' = "idle"
            /\ output_dof_queue' = Append(output_dof_queue,
                                          [overtaken |-> FALSE, dirty |-> pass_dirty])
            /\ action_delay_buffer_' =
                 [i \in DOMAIN action_delay_buffer_ |->
                     [action_delay_buffer_[i] EXCEPT !.overtaken = TRUE]]
            /\ UNCHANGED release_time
       ELSE /\ rl' = "push"
            /\ release_time' = current_delay_ms_
            /\ UNCHANGED <<action_delay_buffer_, output_dof_queue>>
    /\ UNCHANGED <<control, was_rl_init_done_, pass_dirty, current_delay_ms_,
                   actions_history>>

\* ... and it is put into the buffer.
Push ==
    /\ rl = "push"
    /\ rl' = "idle"
    /\ action_delay_buffer_' =
         Append(action_delay_buffer_,
                [left |-> release_time, age |-> 0, dirty |-> pass_dirty,
                 overtaken |-> FALSE])
    /\ UNCHANGED <<control, was_rl_init_done_, pass_dirty, release_time,
                   current_delay_ms_, output_dof_queue, actions_history>>

Policy == Off \/ RunModel \/ Resample \/ FirstClear \/ Forward \/ Delay \/ Push

Next == RobotControl \/ Policy

Spec == Init /\ [][Next]_vars
-----------------------------------------------------------------------------
\* The variables have values of their types.
TypeOK ==
    /\ {rl_init_done, simulation_running, delayed, was_rl_init_done_,
        pass_dirty} \subseteq BOOLEAN
    /\ cycle \in {"state", "drain", "keys", "clear", "clear_history"}
    /\ rl \in {"idle", "resample", "clear", "forward", "delay", "push"}
    /\ {current_delay_ms_, release_time} \subseteq Delays \cup {0}
    /\ Len(actions_history) = HistoryLength
    /\ Len(action_delay_buffer_) + Len(output_dof_queue) <= MaxBacklog

\* No action waits for longer than the longest delay, whatever delays were
\* drawn in between: none is forgotten, and one with a long delay holds up
\* the ones behind it no longer than that.
ReleasedInTime ==
    \A i \in DOMAIN action_delay_buffer_ :
        action_delay_buffer_[i].age <= Longest

\* The FSM is given the actions in the order they were computed in, whatever
\* their delays: one that a later one overtook is released only if its pass was
\* under way at an R.
OrderKept ==
    \A i \in DOMAIN output_dof_queue :
        output_dof_queue[i].overtaken => output_dof_queue[i].dirty

\* Of the actions of before an R at most one, whose pass was under way, enters
\* the buffer or the history after it.
AtMostOneDirty ==
    cycle \notin {"clear", "clear_history"} =>
        /\ \A i, j \in DOMAIN action_delay_buffer_ :
              action_delay_buffer_[i].dirty /\ action_delay_buffer_[j].dirty
                  => i = j
        /\ \A i, j \in DOMAIN actions_history :
              actions_history[i] = "dirty" /\ actions_history[j] = "dirty"
                  => i = j

\* The delay neither loses nor overtakes an action, nor keeps one beyond R.
ActionDelaySafe == TypeOK /\ ReleasedInTime /\ OrderKept /\ AtMostOneDirty
=============================================================================
