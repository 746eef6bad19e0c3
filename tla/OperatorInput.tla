---------------------------- MODULE OperatorInput ----------------------------
(***************************************************************************)
(* The keyboard between the thread that reads it (KeyboardInterface) and   *)
(* the control cycle (RobotControl and StateController): struct Control,   *)
(* whose members nothing protects.  The states of the FSM read the same    *)
(* key in the phase "fsm"; what they make of it is in MyRobotFSM.          *)
(***************************************************************************)
EXTENDS Naturals

CONSTANTS
    Keyboard,   \* the keys pressed; W, Space and N have an effect here
    MaxX        \* bound on the forward command, in steps of one W

\* The least that makes sense; the runs assume it.
InputAssumption ==
    /\ "None" \notin Keyboard
    /\ MaxX \in Nat \ {0}

VARIABLES
    current_keyboard, last_keyboard,
    x,                  \* control.x
    navigation_mode,
    pressing,           \* the key in the middle of SetKeyboard, or "None"
    phase,              \* of the control cycle: "fsm", "move", "stop",
                        \* "navigate" or "clear"
    \* history
    presses,            \* keys set in this cycle, up to 2
    burst,              \* two keys met in one cycle, ever
    forward,            \* W was pressed since Space was last carried out
    navigations         \* N pressed and not yet carried out, up to 1

control == <<x, navigation_mode, phase>>
history == <<presses, burst, forward, navigations>>
vars == <<current_keyboard, last_keyboard, control, pressing, history>>

Init ==
    /\ current_keyboard = "None"
    /\ last_keyboard = "None"
    /\ x = 0
    /\ navigation_mode = FALSE
    /\ pressing = "None"
    /\ phase = "fsm"
    /\ presses = 0
    /\ burst = FALSE
    /\ forward = FALSE
    /\ navigations = 0
-----------------------------------------------------------------------------
(* The keyboard thread.                                                    *)

\* Mutant: the new key is remembered instead of the old one.
SetLastNew(k) ==
    /\ pressing = "None"
    /\ current_keyboard # k
    /\ last_keyboard' = k
    /\ pressing' = k
    /\ burst' = (burst \/ presses > 0)
    /\ UNCHANGED <<current_keyboard, control, presses, forward, navigations>>

\* SetKeyboard: the old key is remembered ...
SetLast(k) ==
    /\ pressing = "None"
    /\ current_keyboard # k
    /\ last_keyboard' = current_keyboard
    /\ pressing' = k
    /\ burst' = (burst \/ presses > 0)
    /\ UNCHANGED <<current_keyboard, control, presses, forward, navigations>>

\* ... and the new one takes its place.
SetCurrent ==
    /\ pressing # "None"
    /\ current_keyboard' = pressing
    /\ pressing' = "None"
    /\ presses' = IF presses < 2 THEN presses + 1 ELSE presses
    /\ burst' = (burst \/ presses > 0)
    /\ navigations' = IF pressing = "N" THEN 1 ELSE navigations
    /\ forward' = (forward \/ pressing = "W")
    /\ UNCHANGED <<last_keyboard, control>>
-----------------------------------------------------------------------------
(* The control thread; each `if' of StateController reads the key anew.    *)

Goes(from, to) == phase = from /\ phase' = to

RunFSM ==
    /\ Goes("fsm", "move")
    /\ UNCHANGED <<current_keyboard, last_keyboard, x, navigation_mode,
                   pressing, history>>

Move ==
    /\ Goes("move", "stop")
    /\ x' = IF current_keyboard = "W" /\ x < MaxX THEN x + 1 ELSE x
    /\ UNCHANGED <<current_keyboard, last_keyboard, navigation_mode, pressing,
                   history>>

Stop ==
    /\ Goes("stop", "navigate")
    /\ IF current_keyboard = "Space"
       THEN x' = 0 /\ forward' = FALSE
       ELSE UNCHANGED <<x, forward>>
    /\ UNCHANGED <<current_keyboard, last_keyboard, navigation_mode, pressing,
                   presses, burst, navigations>>

Navigate ==
    /\ Goes("navigate", "clear")
    /\ IF current_keyboard = "N"
       THEN /\ navigation_mode' = ~navigation_mode
            /\ navigations' = 0
       ELSE UNCHANGED <<navigation_mode, navigations>>
    /\ UNCHANGED <<current_keyboard, last_keyboard, x, pressing, presses, burst,
                   forward>>

ClearInput ==
    /\ Goes("clear", "fsm")
    /\ current_keyboard' = last_keyboard
    /\ presses' = 0
    /\ UNCHANGED <<last_keyboard, x, navigation_mode, pressing, burst, forward,
                   navigations>>

Next ==
    \/ \E k \in Keyboard : SetLast(k)
    \/ SetCurrent
    \/ RunFSM \/ Move \/ Stop \/ Navigate \/ ClearInput

Spec == Init /\ [][Next]_vars
-----------------------------------------------------------------------------
\* No key is left behind by ClearInput, for ever, unless two keys met in one
\* control cycle.
NothingStuck ==
    ~burst => last_keyboard = "None" /\ (presses = 0 => current_keyboard = "None")

\* The navigation mode changes at most once for each N, as long as no two keys
\* met in one control cycle: a stale key is not carried out again.
NavigateOncePerKey ==
    [][navigation_mode' # navigation_mode /\ ~burst => navigations > 0]_vars

\* From a Space that was carried out until the next W the command is zero, as
\* long as no two keys met in one control cycle.
SpaceResets == ~burst /\ ~forward => x = 0

\* A key acts once, and what it did can be undone, as long as no two keys met in
\* one control cycle.
OperatorInputSafe == [](NothingStuck /\ SpaceResets) /\ NavigateOncePerKey
=============================================================================
