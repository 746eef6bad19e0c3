--------------------------- MODULE StateLifecycle ---------------------------
(***************************************************************************)
(* What the state machine engine promises to the states it drives          *)
(* (FSMState in library/core/fsm/fsm.hpp): their handlers are called one   *)
(* at a time; Run and CheckChange are called on the entered state only,    *)
(* CheckChange only right after a Run; a state is left by one Exit before  *)
(* another one is entered, and the state that is entered is never the one  *)
(* that was just left.                                                     *)
(***************************************************************************)
CONSTANTS
    State,      \* the registered states
    Nobody      \* no state is entered

VARIABLES
    live,       \* the entered state, or Nobody
    left,       \* the state left last, or Nobody
    op          \* the handler being served; "idle" between two engine cycles

vars == <<live, left, op>>

Init == live = Nobody /\ left = Nobody /\ op = "idle"

Enter(s) ==
    /\ live = Nobody
    /\ op = "Exit" \/ left = Nobody
    /\ s # left
    /\ live' = s
    /\ op' = "Enter"
    /\ UNCHANGED left

Run ==
    /\ live # Nobody
    /\ op \in {"idle", "Enter"}
    /\ op' = "Run"
    /\ UNCHANGED <<live, left>>

CheckChange ==
    /\ op = "Run"
    /\ op' = "CheckChange"
    /\ UNCHANGED <<live, left>>

Exit ==
    /\ live # Nobody
    /\ op = "idle"
    /\ live' = Nobody
    /\ left' = live
    /\ op' = "Exit"

Return ==
    /\ op \in {"Enter", "Run", "CheckChange"}
    /\ op' = "idle"
    /\ UNCHANGED <<live, left>>

Next == (\E s \in State : Enter(s)) \/ Run \/ CheckChange \/ Exit \/ Return

Spec == Init /\ [][Next]_vars
=============================================================================
