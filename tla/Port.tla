-------------------------------- MODULE Port --------------------------------
(***************************************************************************)
(* The two synchronisation primitives of internal/guicpp_port.h. The file  *)
(* ships placeholders, marked "This MUST be ported" and "TODO PORT This",  *)
(* that are correct in a single thread only. Two constants choose, for     *)
(* each primitive, the placeholder or the primitive its comment asks for:  *)
(*                                                                         *)
(*   PortedMutex = FALSE   Lock() tests the flag and then sets it, and     *)
(*                         aborts when it finds the flag set               *)
(*   PortedMutex = TRUE    Lock() waits and acquires in one step           *)
(*   PortedOnce  = FALSE   Init() tests called_, runs the function, and    *)
(*                         sets called_ after it has returned              *)
(*   PortedOnce  = TRUE    one thread runs the function, the others wait   *)
(*                                                                         *)
(* The placeholders' flags are plain fields, and threads that race on them *)
(* are undefined behaviour in C++. Here every read and write takes effect  *)
(* at once and in program order, as on a sequentially consistent machine:  *)
(* what is shown to go wrong can go wrong, and what holds with a           *)
(* placeholder holds of these interleavings only.                          *)
(***************************************************************************)
CONSTANTS
    Threads,
    Onces,        \* one GoogleOnceDynamic each
    NoThread,
    PortedMutex,
    PortedOnce

ASSUME PortAssumption ==
    /\ NoThread \notin Threads
    /\ PortedMutex \in BOOLEAN
    /\ PortedOnce \in BOOLEAN

VARIABLES
    locked,   \* Mutex::locked_
    called,   \* GoogleOnceDynamic::called_
    runner    \* the thread inside a ported Init(), of no meaning otherwise

port_vars == <<locked, called, runner>>

\* What the primitives' variables range over.
PortTypeOK ==
    /\ locked \in BOOLEAN
    /\ called \in [Onces -> BOOLEAN]
    /\ runner \in [Onces -> Threads \cup {NoThread}]

PortInit ==
    /\ locked = FALSE
    /\ called = [o \in Onces |-> FALSE]
    /\ runner = [o \in Onces |-> NoThread]

\* Mutant of LockTaken: the mutex is no mutex.
LockTaken_Always == PortedMutex /\ locked' = TRUE

\* Lock(). A ported mutex is acquired in one step once it is free. The
\* placeholder tests locked_ in one step and sets it in a later one.
LockTaken == PortedMutex /\ ~locked /\ locked' = TRUE
LockTested == ~PortedMutex /\ ~locked /\ UNCHANGED locked
LockSet == ~PortedMutex /\ locked' = TRUE

\* GUICPP_CHECK_(!locked_): the placeholder aborts where a mutex would wait.
LockAborts == ~PortedMutex /\ locked

\* Mutant of Unlock: never released.
Unlock_Forgotten == locked /\ UNCHANGED locked

\* Unlock() of a locked mutex; the placeholder checks that it is locked.
Unlock == locked /\ locked' = FALSE
UnlockAborts == ~locked

\* Init() finds called_ set and returns.
OnceSkips(o) == called[o]

\* Mutant of OnceRuns: nobody waits for the one that is running the function.
OnceRuns_NoWait(t, o) ==
    /\ ~called[o]
    /\ runner' = IF PortedOnce THEN [runner EXCEPT ![o] = t] ELSE runner

\* Init() goes on to call the function.
OnceRuns(t, o) ==
    /\ ~called[o]
    /\ PortedOnce => runner[o] = NoThread
    /\ runner' = IF PortedOnce THEN [runner EXCEPT ![o] = t] ELSE runner

\* The function has returned: called_ = true.
OnceDone(o) ==
    /\ called' = [called EXCEPT ![o] = TRUE]
    /\ runner' = [runner EXCEPT ![o] = NoThread]
=============================================================================
