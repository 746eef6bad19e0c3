------------------------------ MODULE Gamepad -------------------------------
(***************************************************************************)
(* Buttons and sticks of a gamepad, as the programs other than that of     *)
(* myrobot turn them into one input.  Those of the real robots look at     *)
(* what is down in each control period (GetState): A1 and G1 at a copy,    *)
(* Go2 at what JoystickHandler writes on a thread of the middleware        *)
(* meanwhile.  That of Gazebo looks at it when a message comes             *)
(* (JoyCallback), that of MuJoCo reads events (GetSysJoystick), both on a  *)
(* thread of their own beside the control thread, with nothing that        *)
(* protects struct Control.                                                *)
(*                                                                         *)
(* Of the buttons X is kept, which StateController reads, with LB and RB.  *)
(* The cross, which is an axis to the two simulators, is left out.         *)
(***************************************************************************)
EXTENDS Naturals, Sequences

CONSTANTS
    Programs,       \* of "a1", which stands for G1 too, "go2", "gazebo" and
                    \* "mujoco"
    MaxEvents,      \* bound: events of the gamepad that wait to be read
    BothHands       \* bound: whether a stick may be moved while a button is down

\* The least that makes sense; the runs assume it.
GamepadAssumption == MaxEvents \in Nat /\ BothHands \in BOOLEAN

Shift == {"LB", "RB"}
Buttons == Shift \cup {"X"}
RealRobots == {"a1", "go2"}

\* What GetState asks for, in this order.
Inputs == << <<"X">>, <<"LB">>, <<"RB">>, <<"LB", "X">>, <<"RB", "X">>,
             <<"LB", "RB">> >>

VARIABLES
    program,
    held,           \* what is held down
    events,         \* [button, down], not read yet (MuJoCo)
    stick,          \* the sticks are out of the middle
    reader,         \* "idle", "sample", "single", "combination" or "asking"
    asked,          \* the input of Inputs, and the button of it, asked for
                    \* next (Go2)
    pressed,        \* what the reader takes to be held down
    on_press,       \* what it takes for newly pressed
    sys_js_active,
    control_x,      \* the velocity asked for: "none", "stick" or "keyboard"
    x_read,         \* what an increment of it has read
    current_gamepad,    \* <<>> for None
    navigation_mode,
    control,        \* "idle", "get", "add", "toggle" or "clear"
    unanswered,     \* presses of X read and not yet carried out, up to 2
    kept,         \* what was held down all through the last reading (Go2)
    overlapped      \* the velocity of a stick let go was taken back while the
                    \* keyboard added to it

gamepad == <<held, events, stick>>
reading == <<reader, asked, pressed, on_press, sys_js_active>>
velocity == <<control_x, x_read, overlapped>>
vars == <<program, gamepad, reading, velocity, current_gamepad,
          navigation_mode, control, unanswered, kept>>

Init ==
    /\ program \in Programs
    /\ held = {} /\ events = <<>> /\ stick = FALSE
    /\ reader = "idle" /\ asked = <<1, 1>> /\ pressed = {} /\ on_press = {}
    /\ sys_js_active = FALSE
    /\ control_x = "none" /\ x_read = "none" /\ overlapped = FALSE
    /\ current_gamepad = <<>> /\ navigation_mode = FALSE
    /\ control = "idle" /\ unanswered = 0 /\ kept = {}
-----------------------------------------------------------------------------
(* The operator.                                                           *)

Hold(b, down) ==
    /\ down # (b \in held)
    /\ BothHands \/ ~stick
    /\ held' = IF down THEN held \cup {b} ELSE held \ {b}
    /\ IF program = "mujoco"
       THEN /\ Len(events) < MaxEvents
            /\ events' = Append(events, [button |-> b, down |-> down])
       ELSE UNCHANGED events
    /\ kept' = IF reader = "asking" THEN kept \cap held' ELSE kept
    /\ UNCHANGED <<program, stick, reading, velocity, current_gamepad,
                   navigation_mode, control, unanswered>>

MoveStick ==
    /\ BothHands \/ held = {}
    /\ stick' = ~stick
    /\ UNCHANGED <<program, held, events, reading, velocity, current_gamepad,
                   navigation_mode, control, unanswered, kept>>
-----------------------------------------------------------------------------
(* The reader of the gamepad.                                              *)

\* What is down is taken for newly pressed, each time it is looked at.
Look ==
    /\ reader = "idle"
    /\ reader' = "single"
    /\ pressed' = held /\ on_press' = held
    /\ UNCHANGED <<program, gamepad, asked, sys_js_active, velocity,
                   current_gamepad, navigation_mode, unanswered, kept>>

\* A message comes, whenever the driver sends it.
JoyCallback == program = "gazebo" /\ Look /\ UNCHANGED control

\* The first part of RobotControl; the rest of it waits.
GetState ==
    /\ program = "a1" /\ control = "idle"
    /\ control' = "get"
    /\ Look

\* That of Go2 begins; nothing is copied ...
GetStateGo2 ==
    /\ program = "go2" /\ control = "idle"
    /\ control' = "get"
    /\ reader' = "asking" /\ asked' = <<1, 1>>
    /\ kept' = held
    /\ UNCHANGED <<program, gamepad, pressed, on_press, sys_js_active, velocity,
                   current_gamepad, navigation_mode, unanswered>>

\* ... and each if reads the buttons of its input anew, one after the other.
Ask ==
    /\ reader = "asking" /\ asked[1] <= Len(Inputs)
    /\ LET input == Inputs[asked[1]]
           down == input[asked[2]] \in held
           last == asked[2] = Len(input)
       IN  /\ asked' = IF down /\ ~last THEN <<asked[1], 2>>
                       ELSE <<asked[1] + 1, 1>>
           /\ current_gamepad' = IF down /\ last THEN input ELSE current_gamepad
    /\ UNCHANGED <<program, gamepad, reader, pressed, on_press, sys_js_active,
                   velocity, navigation_mode, control, unanswered, kept>>

ForgetPresses == {}

\* GetSysJoystick begins: nothing was pressed in this period ...
GetSysJoystick ==
    /\ program = "mujoco" /\ reader = "idle"
    /\ reader' = "sample"
    /\ on_press' = ForgetPresses
    /\ UNCHANGED <<program, gamepad, pressed, asked, sys_js_active,
                   velocity, current_gamepad, navigation_mode, control,
                   unanswered, kept>>

\* ... an event is read (a button pressed and released in one period is neither) ...
Sample ==
    /\ reader = "sample" /\ events # <<>>
    /\ LET e == Head(events)
           new == e.down /\ e.button \notin pressed
       IN  /\ pressed' = IF e.down THEN pressed \cup {e.button}
                         ELSE pressed \ {e.button}
           /\ on_press' = IF new THEN on_press \cup {e.button}
                          ELSE on_press \ {e.button}
           /\ unanswered' = IF new /\ e.button = "X" /\ unanswered < 2
                            THEN unanswered + 1 ELSE unanswered
    /\ events' = Tail(events)
    /\ UNCHANGED <<program, held, stick, reader, asked, sys_js_active, velocity,
                   current_gamepad, navigation_mode, control, kept>>

\* ... until there are no more.
EndSample ==
    /\ reader = "sample" /\ events = <<>>
    /\ reader' = "single"
    /\ UNCHANGED <<program, gamepad, pressed, on_press, asked, sys_js_active,
                   velocity, current_gamepad, navigation_mode, control,
                   unanswered, kept>>

\* SetGamepad is called for everything found and the last call wins; which it is
\* among inputs of one kind is left open.
Set(inputs) ==
    current_gamepad' \in IF inputs = {} THEN {current_gamepad} ELSE inputs

\* First for the single buttons; here the control thread may come between.
SetSingle ==
    /\ reader = "single"
    /\ reader' = "combination"
    /\ Set({<<b>> : b \in on_press})
    /\ UNCHANGED <<program, gamepad, asked, pressed, on_press, sys_js_active,
                   velocity, navigation_mode, control, unanswered, kept>>

\* Mutant: a button counts with LB or RB only if it was pressed after it.
CombinationsInOrder ==
    {<<s, b>> : s \in pressed \cap (Shift \ on_press), b \in on_press \ Shift}

\* Then for those with LB, those with RB, and LB with RB.
Combinations ==
    LET of(shift) == IF shift \in pressed
                     THEN {<<shift, b>> : b \in on_press \ Shift} ELSE {}
    IN  IF "LB" \in pressed /\ "RB" \in on_press THEN {<<"LB", "RB">>}
        ELSE IF of("RB") # {} THEN of("RB") ELSE of("LB")

\* MuJoCo takes it back once, and leaves the keyboard's alone after that.
Velocity ==
    IF stick THEN "stick"
    ELSE IF sys_js_active \/ program # "mujoco" THEN "none" ELSE control_x

SetCombination ==
    /\ reader = "combination"
    /\ reader' = "idle"
    /\ Set(Combinations)
    /\ control_x' = Velocity
    /\ sys_js_active' = (program = "mujoco" /\ stick)
    /\ overlapped' = (~stick /\ (overlapped \/ x_read = "stick"))
    /\ UNCHANGED <<program, gamepad, asked, pressed, on_press, x_read,
                   navigation_mode, control, unanswered, kept>>

EndAsk ==
    /\ reader = "asking" /\ asked[1] > Len(Inputs)
    /\ reader' = "idle" /\ asked' = <<1, 1>>
    /\ control_x' = Velocity
    /\ UNCHANGED <<program, gamepad, pressed, on_press, sys_js_active, x_read,
                   overlapped, current_gamepad, navigation_mode, control,
                   unanswered, kept>>
-----------------------------------------------------------------------------
(* The control thread: StateController, after GetState on the real robots. *)

Begins ==
    /\ control = IF program \in RealRobots THEN "get" ELSE "idle"
    /\ program \in RealRobots => reader = "idle"

\* W and its like on the keyboard: control.x += 0.01f is a read ...
ReadVelocity ==
    /\ Begins
    /\ control' = "add"
    /\ x_read' = control_x
    /\ UNCHANGED <<program, gamepad, reading, control_x, overlapped,
                   current_gamepad, navigation_mode, unanswered, kept>>

\* ... and a write.
WriteVelocity ==
    /\ control = "add"
    /\ control' = "toggle"
    /\ control_x' = IF x_read = "stick" THEN "stick" ELSE "keyboard"
    /\ x_read' = "none"
    /\ UNCHANGED <<program, gamepad, reading, overlapped, current_gamepad,
                   navigation_mode, unanswered, kept>>

\* X toggles the navigation.
StateController ==
    /\ Begins \/ control = "toggle"
    /\ control' = "clear"
    /\ IF current_gamepad = <<"X">>
       THEN /\ navigation_mode' = ~navigation_mode
            /\ unanswered' = IF unanswered > 0 THEN unanswered - 1 ELSE 0
       ELSE UNCHANGED <<navigation_mode, unanswered>>
    /\ UNCHANGED <<program, gamepad, reading, velocity, current_gamepad, kept>>

ClearInput ==
    /\ control = "clear"
    /\ control' = "idle"
    /\ current_gamepad' = <<>>
    /\ UNCHANGED <<program, gamepad, reading, velocity, navigation_mode,
                   unanswered, kept>>

Next ==
    \/ \E b \in Buttons, down \in BOOLEAN : Hold(b, down)
    \/ MoveStick
    \/ JoyCallback \/ GetState \/ GetStateGo2 \/ Ask \/ EndAsk
    \/ GetSysJoystick \/ Sample \/ EndSample
    \/ SetSingle \/ SetCombination
    \/ ReadVelocity \/ WriteVelocity \/ StateController \/ ClearInput

Spec == Init /\ [][Next]_vars
-----------------------------------------------------------------------------
\* The variables have values of their types.
TypeOK ==
    /\ program \in Programs
    /\ held \cup pressed \cup on_press \cup kept \subseteq Buttons
    /\ Len(events) <= MaxEvents
    /\ {stick, sys_js_active, navigation_mode, overlapped} \subseteq BOOLEAN
    /\ {control_x, x_read} \subseteq {"none", "stick", "keyboard"}
    /\ reader \in {"idle", "sample", "single", "combination", "asking"}
    /\ asked \in (1 .. Len(Inputs) + 1) \X {1, 2}
    /\ control \in {"idle", "get", "add", "toggle", "clear"}
    /\ unanswered \in 0 .. 2

\* On the real robots LB+X, which lets the motors go, is never carried out as the X
\* that toggles the navigation: on A1 and G1 in whatever order the two were
\* pressed and let go, on Go2, which looks at each button more than once, if both
\* were held down all through the reading.
CombinationWins ==
    [][navigation_mode' # navigation_mode =>
           /\ program = "a1" => pressed \cap Shift = {}
           /\ program = "go2" /\ "X" \in kept => kept \cap Shift = {}]_vars

\* In MuJoCo the navigation is toggled once for one press of X, however long it is
\* held and however reader and control thread interleave.
OneToggleForOnePress ==
    [][navigation_mode' # navigation_mode /\ program = "mujoco"
           => unanswered > 0]_vars

\* In MuJoCo a velocity of the stick is taken back by the reader that finds the
\* stick let go: between two readings it is there only with sys_js_active.  The one
\* way in which it is left is an increment of the keyboard that was between its
\* read and its write at that moment.
NoVelocityLeft ==
    program = "mujoco" /\ control_x = "stick" => sys_js_active \/ overlapped

\* A button acts once and as what it was pressed for, and a stick no longer than
\* it is held.
GamepadSafe ==
    [](TypeOK /\ NoVelocityLeft) /\ CombinationWins /\ OneToggleForOnePress
=============================================================================
