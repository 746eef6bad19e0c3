------------------------------ MODULE LoopFunc ------------------------------
(***************************************************************************)
(* The periodic threads, library/core/loop/loop.hpp: class LoopFunc, and   *)
(* the destructor of the program, which shuts them down one after the      *)
(* other while they run.  start() detaches the thread, so shutdown() finds *)
(* nothing to join.                                                        *)
(***************************************************************************)
EXTENDS Naturals, Sequences

CONSTANTS
    Loop,   \* the threads: loop_control, loop_rl, loop_keyboard, ...
    Order   \* the order in which the destructor shuts them down

\* The least that makes sense; the runs assume it.
LoopAssumption ==
    /\ Order \in Seq(Loop) /\ Order # <<>>
    /\ \A l \in Loop : \E i \in 1 .. Len(Order) : Order[i] = l

VARIABLES
    running,    \* _running of each loop
    mutex,      \* _mutex of each loop: "free", "loop" or "main"
    pc,         \* of each thread
    expired,    \* wait_for of the thread has reached its time
    main,       \* of the main thread: "run", "lock", "stop", "notify", "end"
    next,       \* the index in Order of the loop it shuts down
    ended,      \* the loops for which it printed "Loop end"
    late        \* calls of _func begun since then, up to 2

thread == <<pc, expired, late>>
vars == <<running, mutex, thread, main, next, ended>>

\* The constructor has started all threads.
Init ==
    /\ running = [l \in Loop |-> TRUE]
    /\ mutex = [l \in Loop |-> "free"]
    /\ pc = [l \in Loop |-> "check"]
    /\ expired = [l \in Loop |-> FALSE]
    /\ main = "run"
    /\ next = 1
    /\ ended = {}
    /\ late = [l \in Loop |-> 0]
-----------------------------------------------------------------------------
(* The thread of a loop.                                                   *)

Goes(l, from, to) == pc[l] = from /\ pc' = [pc EXCEPT ![l] = to]

\* Mutant: the loop runs for ever.
CheckNot(l) ==
    /\ Goes(l, "check", "call")
    /\ UNCHANGED <<running, mutex, expired, late, main, next, ended>>

\* while (_running)
Check(l) ==
    /\ \/ /\ running[l]
          /\ Goes(l, "check", "call")
       \/ /\ ~running[l]
          /\ Goes(l, "check", "done")
    /\ UNCHANGED <<running, mutex, expired, late, main, next, ended>>

\* _func() begins ...
Call(l) ==
    /\ Goes(l, "call", "func")
    /\ late' = [late EXCEPT ![l] = IF l \in ended /\ @ < 2 THEN @ + 1 ELSE @]
    /\ UNCHANGED <<running, mutex, expired, main, next, ended>>

\* ... and returns, within the period or after it.
Func(l) ==
    /\ Goes(l, "func", "lock") \/ Goes(l, "func", "check")
    /\ UNCHANGED <<running, mutex, expired, late, main, next, ended>>

Lock(l) ==
    /\ Goes(l, "lock", "test")
    /\ mutex[l] = "free"
    /\ mutex' = [mutex EXCEPT ![l] = "loop"]
    /\ expired' = [expired EXCEPT ![l] = FALSE]
    /\ UNCHANGED <<running, late, main, next, ended>>

\* The predicate of wait_for, evaluated with the mutex held ...
Test(l) ==
    \/ /\ ~running[l] \/ expired[l]
       /\ Goes(l, "test", IF running[l] THEN "check" ELSE "done")
       /\ mutex' = [mutex EXCEPT ![l] = "free"]
       /\ UNCHANGED <<running, expired, late, main, next, ended>>
    \/ /\ running[l] /\ ~expired[l]
       /\ Goes(l, "test", "block")
       /\ UNCHANGED <<running, mutex, expired, late, main, next, ended>>

\* ... which the wait releases in the step in which it blocks.
Block(l) ==
    /\ Goes(l, "block", "wait")
    /\ mutex' = [mutex EXCEPT ![l] = "free"]
    /\ UNCHANGED <<running, expired, late, main, next, ended>>

\* The sleep time is over.
Expire(l) ==
    /\ Goes(l, "wait", "woken")
    /\ expired' = [expired EXCEPT ![l] = TRUE]
    /\ UNCHANGED <<running, mutex, late, main, next, ended>>

\* The thread wakes up without a reason.
WakeSpuriously(l) ==
    /\ Goes(l, "wait", "woken")
    /\ UNCHANGED <<running, mutex, expired, late, main, next, ended>>

Relock(l) ==
    /\ Goes(l, "woken", "test")
    /\ mutex[l] = "free"
    /\ mutex' = [mutex EXCEPT ![l] = "loop"]
    /\ UNCHANGED <<running, expired, late, main, next, ended>>

Step(l) ==
    \/ Check(l) \/ Call(l) \/ Func(l)
    \/ Lock(l) \/ Test(l) \/ Block(l) \/ Relock(l)
-----------------------------------------------------------------------------
(* The main thread: the destructor calls shutdown() of every loop.         *)

Last == next = Len(Order)

Begin ==
    /\ main = "run"
    /\ main' = "lock"
    /\ UNCHANGED <<running, mutex, thread, next, ended>>

\* Mutant: _running is set without the mutex.
ShutdownLockNot ==
    /\ main = "lock"
    /\ main' = "stop"
    /\ UNCHANGED <<running, mutex, thread, next, ended>>

ShutdownLock ==
    /\ main = "lock"
    /\ mutex[Order[next]] = "free"
    /\ mutex' = [mutex EXCEPT ![Order[next]] = "main"]
    /\ main' = "stop"
    /\ UNCHANGED <<running, thread, next, ended>>

ShutdownStop ==
    /\ main = "stop"
    /\ running' = [running EXCEPT ![Order[next]] = FALSE]
    /\ main' = "notify"
    /\ UNCHANGED <<mutex, thread, next, ended>>

\* notify_one, and the end of the scope of the lock.
ShutdownNotify ==
    /\ main = "notify"
    /\ LET l == Order[next]
       IN  pc' = IF pc[l] = "wait" THEN [pc EXCEPT ![l] = "woken"] ELSE pc
    /\ mutex' = [mutex EXCEPT ![Order[next]] = IF @ = "main" THEN "free" ELSE @]
    /\ main' = "end"
    /\ UNCHANGED <<running, expired, late, next, ended>>

\* The detached thread is not joinable: "Loop end" is printed at once.
ShutdownEnd ==
    /\ main = "end"
    /\ ended' = ended \cup {Order[next]}
    /\ next' = IF Last THEN next ELSE next + 1
    /\ main' = IF Last THEN "exit" ELSE "lock"
    /\ UNCHANGED <<running, mutex, thread>>

Shutdown == ShutdownLock \/ ShutdownStop \/ ShutdownNotify \/ ShutdownEnd

Next ==
    \/ Begin \/ Shutdown
    \/ \E l \in Loop : Step(l) \/ Expire(l) \/ WakeSpuriously(l)

Spec == Init /\ [][Next]_vars

\* The threads run, and _func returns.  That a sleep ends in time is not
\* assumed: it may be long.
Fairness ==
    /\ WF_vars(Shutdown)
    /\ \A l \in Loop :
           /\ WF_vars(Check(l) \/ Call(l) \/ Func(l) \/ Test(l) \/ Block(l))
           /\ SF_vars(Lock(l) \/ Relock(l))

FairSpec == Spec /\ Fairness
-----------------------------------------------------------------------------
\* The variables have values of their types, and a thread holds its mutex
\* exactly while it evaluates the predicate.
TypeOK ==
    /\ running \in [Loop -> BOOLEAN]
    /\ mutex \in [Loop -> {"free", "loop", "main"}]
    /\ pc \in [Loop -> {"check", "call", "func", "lock", "test", "block",
                        "wait", "woken", "done"}]
    /\ \A l \in Loop : mutex[l] = "loop" <=> pc[l] \in {"test", "block"}
    /\ expired \in [Loop -> BOOLEAN]
    /\ main \in {"run", "lock", "stop", "notify", "end", "exit"}
    /\ next \in 1 .. Len(Order)
    /\ ended \subseteq Loop
    /\ late \in [Loop -> 0 .. 2]

\* A thread that has been shut down begins its function at most once more.
AtMostOneLateCall == \A l \in Loop : late[l] <= 1

\* A thread that is shut down ends, without waiting for its sleep to be over:
\* the wakeup cannot fall between the test of _running and the sleep.
ShutdownStops == \A l \in Loop : (l \in ended) ~> (pc[l] = "done")

\* After shutdown has returned the object is used at most once more.
LoopFuncSafe == TypeOK /\ AtMostOneLateCall
=============================================================================
