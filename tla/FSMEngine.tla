----------------------------- MODULE FSMEngine -----------------------------
(***************************************************************************)
(* The state machine engine, library/core/fsm/fsm.hpp: class FSM.          *)
(*                                                                         *)
(* FSM::Run is called once per control cycle.  Each handler of a state     *)
(* that it calls is one action here; `call' names the handler called last, *)
(* so a component that shares variables with the handlers can interleave   *)
(* with them.  What a handler asks for is a parameter of the action: `r'   *)
(* is the name it passes to RequestStateChange (NotAState: it does not     *)
(* call it, or names no registered state), `s' what CheckChange returns.   *)
(***************************************************************************)
CONSTANTS
    State,          \* the names registered with AddState
    InitialState,   \* FSMFactory::GetInitialState
    NotAState       \* nullptr, and a name that is not registered

\* SetInitialState looks the name up with states_.at.
ASSUME EngineAssumption == InitialState \in State /\ NotAState \notin State

VARIABLES
    current_state, next_state, previous_state,
    mode,           \* "NORMAL" or "CHANGE"
    call            \* handler called last in this FSM::Run; "none" outside it

fsm == <<current_state, next_state, previous_state, mode, call>>

Request == State \cup {NotAState}

Init ==
    /\ current_state = NotAState
    /\ next_state = NotAState
    /\ previous_state = NotAState
    /\ mode = "NORMAL"
    /\ call = "none"

\* Mutants: the name is not looked up; the current state is not filtered out.
AcceptsUnknown(r, cur) == r # cur
AcceptsSelf(r, cur) == r \in State

\* RequestStateChange drops an unknown name and the name of the current state.
Accepts(r, cur) == r \in State /\ r # cur

\* No request was made since next_state was installed as the current state.
StillExpected == next_state = current_state

\* The initial state is entered outside Run; every factory's initial state is
\* the passive one, whose Enter requests nothing.
SetInitialState ==
    /\ current_state = NotAState
    /\ current_state' = InitialState
    /\ next_state' = InitialState
    /\ call' = "Enter"
    /\ UNCHANGED <<previous_state, mode>>

\* The NORMAL branch of Run calls Run ...
RunInNormal(r) ==
    /\ call = "none"
    /\ current_state # NotAState
    /\ mode = "NORMAL"
    /\ next_state' = IF Accepts(r, current_state) THEN r ELSE next_state
    /\ mode' = IF Accepts(r, current_state) THEN "CHANGE" ELSE "NORMAL"
    /\ call' = "Run"
    /\ UNCHANGED <<current_state, previous_state>>

\* Mutant: any answer of CheckChange is taken for a switch.
CheckChangeAlways(s) ==
    /\ call = "Run"
    /\ next_state' = s
    /\ mode' = "CHANGE"
    /\ call' = "CheckChange"
    /\ UNCHANGED <<current_state, previous_state>>

\* ... then CheckChange: its answer overrides what Run requested, but
\* answering the current state does not withdraw the request.
CheckChange(s) ==
    /\ call = "Run"
    /\ next_state' = IF s # current_state THEN s ELSE next_state
    /\ mode' = IF s # current_state THEN "CHANGE" ELSE mode
    /\ call' = "CheckChange"
    /\ UNCHANGED <<current_state, previous_state>>

\* Mutant: the switch counts as done before the new state is entered.
ExitEarlyNormal ==
    /\ call = "none"
    /\ current_state # NotAState
    /\ mode = "CHANGE"
    /\ mode' = "NORMAL"
    /\ call' = "Exit"
    /\ UNCHANGED <<current_state, next_state, previous_state>>

\* The CHANGE branch of Run calls Exit on the old state ...
Exit ==
    /\ call = "none"
    /\ current_state # NotAState
    /\ mode = "CHANGE"
    /\ call' = "Exit"
    /\ UNCHANGED <<current_state, next_state, previous_state, mode>>

\* ... Enter on the new one, which may request yet another state ...
Enter(r) ==
    /\ call = "Exit"
    /\ previous_state' = current_state
    /\ current_state' = next_state
    /\ next_state' = IF Accepts(r, next_state) THEN r ELSE next_state
    /\ call' = "Enter"
    /\ UNCHANGED mode

\* ... and its first Run, unless Enter asked to be replaced.
RunAfterEnter(r) ==
    /\ call = "Enter"
    /\ mode = "CHANGE"
    /\ StillExpected
    /\ next_state' = IF Accepts(r, current_state) THEN r ELSE next_state
    /\ mode' = IF Accepts(r, current_state) THEN "CHANGE" ELSE "NORMAL"
    /\ call' = "EnteredRun"
    /\ UNCHANGED <<current_state, previous_state>>

\* FSM::Run (or SetInitialState) returns.
Return ==
    /\ \/ call \in {"CheckChange", "EnteredRun"}
       \/ call = "Enter" /\ (mode = "NORMAL" \/ ~StillExpected)
    /\ call' = "none"
    /\ UNCHANGED <<current_state, next_state, previous_state, mode>>

Next ==
    \/ SetInitialState
    \/ \E r \in Request : RunInNormal(r)
    \/ \E s \in State : CheckChange(s)
    \/ Exit
    \/ \E r \in Request : Enter(r)
    \/ \E r \in Request : RunAfterEnter(r)
    \/ Return

Spec == Init /\ [][Next]_fsm

\* The control loop calls FSM::Run every period (LoopFunc), and no handler
\* blocks for ever.
FairSpec == Spec /\ WF_fsm(Next)
-----------------------------------------------------------------------------
\* The members hold registered states: before SetInitialState all three are
\* null, from then on only previous_state may still be.
TypeOK ==
    /\ \/ current_state \in State /\ next_state \in State
       \/ current_state = NotAState /\ next_state = NotAState /\ call = "none"
    /\ previous_state \in Request
    /\ mode \in {"NORMAL", "CHANGE"}
    /\ call \in {"none", "Run", "CheckChange", "Exit", "Enter", "EnteredRun"}

\* Whenever FSM::Run is about to start, a switch is pending exactly when the
\* next state differs from the current one: no switch to the state that is
\* already running, no state silently replaced, no request that is forgotten.
SettledOrPending ==
    call \in {"none", "Exit"} => (mode = "CHANGE" <=> next_state # current_state)

\* The engine seen by the states: between Exit and Enter none is entered.
Lifecycle == INSTANCE StateLifecycle WITH
    Nobody <- NotAState,
    live <- IF call = "Exit" THEN NotAState ELSE current_state,
    left <- IF call = "Exit" THEN current_state ELSE previous_state,
    op <- CASE call = "none"       -> "idle"
            [] call = "EnteredRun" -> "Run"
            [] OTHER               -> call

\* The engine keeps its promise to the states (StateLifecycle): handlers of the
\* entered state only, Exit before the Enter of another state, no self-switch.
LifecycleSafety == Lifecycle!Spec

\* A switch that is pending when FSM::Run returns is carried out: the state is
\* entered and run, unless its own Enter asked for another one.
PendingSwitchHappens ==
    \A s \in State :
        (call = "none" /\ mode = "CHANGE" /\ next_state = s)
            ~> /\ current_state = s
               /\ call = "EnteredRun" \/ (call = "Enter" /\ next_state # s)
=============================================================================
