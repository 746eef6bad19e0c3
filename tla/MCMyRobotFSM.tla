--------------------------- MODULE MCMyRobotFSM ---------------------------
EXTENDS MyRobotFSM

\* Each state is reached.  The keys stay until another is pressed; the buttons
\* are those for which a key that stays would add nothing.
SomeKeys == {"Num0", "Num3"}
SomeButtons == {"Num1", "Num2", "Num9", "P"}
=============================================================================
