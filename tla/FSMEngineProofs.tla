-------------------------- MODULE FSMEngineProofs --------------------------
(***************************************************************************)
(* Proofs about FSMEngine for every set of registered states.              *)
(***************************************************************************)
EXTENDS FSMEngine, TLAPS

\* The inductive invariant.  SettledOrPending only speaks of the moments at
\* which the branch of FSM::Run is chosen; in between, the two members must
\* agree after every handler but Enter, whose request is judged by Return.
\* Nothing was left before the first state is entered.
Inv ==
    /\ TypeOK
    /\ call # "Enter" => (mode = "CHANGE" <=> next_state # current_state)
    /\ call = "Enter" => (mode = "NORMAL" => next_state = current_state)
    /\ call = "Exit" => mode = "CHANGE"
    /\ current_state = NotAState => previous_state = NotAState

\* Inv holds in the initial states.
LEMMA InvInit == Init => Inv
  BY EngineAssumption DEF Init, Inv, TypeOK, Request

\* Inv is preserved by every handler call, whatever it requests or answers.
LEMMA InvNext == Inv /\ [Next]_fsm => Inv'
<1> SUFFICES ASSUME Inv, [Next]_fsm PROVE Inv'
  OBVIOUS
<1> USE EngineAssumption DEF Inv, TypeOK, Request
<1>1. CASE SetInitialState
  BY <1>1 DEF SetInitialState
<1>2. ASSUME NEW r \in Request, RunInNormal(r) PROVE Inv'
  BY <1>2 DEF RunInNormal, Accepts
<1>3. ASSUME NEW s \in State, CheckChange(s) PROVE Inv'
  BY <1>3 DEF CheckChange
<1>4. CASE Exit
  BY <1>4 DEF Exit
<1>5. ASSUME NEW r \in Request, Enter(r) PROVE Inv'
  BY <1>5 DEF Enter, Accepts
<1>6. ASSUME NEW r \in Request, RunAfterEnter(r) PROVE Inv'
  BY <1>6 DEF RunAfterEnter, Accepts, StillExpected
<1>7. CASE Return
  BY <1>7 DEF Return, StillExpected
<1>8. CASE UNCHANGED fsm
  BY <1>8 DEF fsm
<1> QED
  BY <1>1, <1>2, <1>3, <1>4, <1>5, <1>6, <1>7, <1>8 DEF Next

\* Every state the engine reaches satisfies Inv.
LEMMA InvHolds == Spec => []Inv
  BY InvInit, InvNext, PTL DEF Spec

\* The members of the engine always hold registered states.
THEOREM TypeCorrect == Spec => []TypeOK
<1>1. Inv => TypeOK
  BY DEF Inv
<1> QED
  BY <1>1, InvHolds, PTL

\* Each time FSM::Run is called, the mode is CHANGE exactly when a different
\* state waits to be entered: no self-switch and no forgotten request.
THEOREM SettledOrPendingHolds == Spec => []SettledOrPending
<1>1. Inv => SettledOrPending
  BY DEF Inv, SettledOrPending
<1> QED
  BY <1>1, InvHolds, PTL
-----------------------------------------------------------------------------
\* The refinement: the engine starts as StateLifecycle does.
LEMMA LifecycleInit == Init => Lifecycle!Init
  BY DEF Init, Lifecycle!Init

\* Every step of the engine is a step of StateLifecycle or changes nothing
\* the states can see.
LEMMA LifecycleNext == Inv /\ [Next]_fsm => [Lifecycle!Next]_Lifecycle!vars
<1> SUFFICES ASSUME Inv, [Next]_fsm
             PROVE  Lifecycle!Next \/ UNCHANGED Lifecycle!vars
  BY DEF Lifecycle!vars
<1> USE EngineAssumption DEF Inv, TypeOK, Request
<1>1. CASE SetInitialState
  <2>1. Lifecycle!Enter(InitialState)
    BY <1>1 DEF SetInitialState, Lifecycle!Enter
  <2> QED
    BY <2>1 DEF Lifecycle!Next
<1>2. ASSUME NEW r \in Request, RunInNormal(r) PROVE Lifecycle!Next
  <2>1. Lifecycle!Run
    BY <1>2 DEF RunInNormal, Lifecycle!Run
  <2> QED
    BY <2>1 DEF Lifecycle!Next
<1>3. ASSUME NEW s \in State, CheckChange(s) PROVE Lifecycle!Next
  <2>1. Lifecycle!CheckChange
    BY <1>3 DEF CheckChange, Lifecycle!CheckChange
  <2> QED
    BY <2>1 DEF Lifecycle!Next
<1>4. CASE Exit
  <2>1. Lifecycle!Exit
    BY <1>4 DEF Exit, Lifecycle!Exit
  <2> QED
    BY <2>1 DEF Lifecycle!Next
<1>5. ASSUME NEW r \in Request, Enter(r) PROVE Lifecycle!Next
  <2>1. next_state \in State /\ next_state # current_state
    BY <1>5 DEF Enter
  <2>2. Lifecycle!Enter(next_state)
    BY <1>5, <2>1 DEF Enter, Lifecycle!Enter
  <2> QED
    BY <2>1, <2>2 DEF Lifecycle!Next
<1>6. ASSUME NEW r \in Request, RunAfterEnter(r) PROVE Lifecycle!Next
  <2>1. Lifecycle!Run
    BY <1>6 DEF RunAfterEnter, Lifecycle!Run
  <2> QED
    BY <2>1 DEF Lifecycle!Next
<1>7. CASE Return
  <2>1. Lifecycle!Return
    BY <1>7 DEF Return, Lifecycle!Return
  <2> QED
    BY <2>1 DEF Lifecycle!Next
<1>8. CASE UNCHANGED fsm
  BY <1>8 DEF fsm, Lifecycle!vars
<1> QED
  BY <1>1, <1>2, <1>3, <1>4, <1>5, <1>6, <1>7, <1>8 DEF Next

\* The engine implements the handler discipline of StateLifecycle: one Exit
\* before each Enter, never into the state just left, Run and CheckChange on
\* the entered state only.
THEOREM EngineImplementsLifecycle == Spec => LifecycleSafety
  BY InvHolds, LifecycleInit, LifecycleNext, PTL
     DEF Spec, LifecycleSafety, Lifecycle!Spec
=============================================================================
