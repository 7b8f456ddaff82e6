---------------------------- MODULE ServerProofs ----------------------------
(***************************************************************************)
(* Server, for any set of objects: the flag of a constructed object is     *)
(* cleared by stopServer() only and never set again, which bounds what     *)
(* every run() does after a stop.                                          *)
(***************************************************************************)
EXTENDS Server, TLAPS

\* The flag of an object is cleared exactly if it has been stopped.
FlagInv ==
    \A s \in Servers :
        /\ life[s] = "exists" => (running[s] <=> s \notin stopped)
        /\ life[s] = "none" => s \notin stopped

\* UA_Server_run shuts down only once the flag is cleared.
ShutdownInv == at = "shutdown" => ~running[current]

\* An iteration that is about to begin or to end is the first late one, and the
\* test of the flag that follows a late one leaves the loop.
LateInv ==
    /\ late <= 1
    /\ at \in {"startup", "iterate"} => late = 0
    /\ at = "test" /\ late = 1 => current \in stopped

IInv == TypeOK /\ FlagInv /\ ShutdownInv /\ LateInv /\ ReturnsOnlyIfStopped

---------------------------------------------------------------------------

\* The invariant holds before any object is constructed.
LEMMA InitIInv == Init => IInv
  BY DEF Init, IInv, TypeOK, FlagInv, ShutdownInv, LateInv, ReturnsOnlyIfStopped

\* Every step keeps the state well typed; only the destructor and run() touch
\* the condition that the object in run() exists.
LEMMA TypeStep == TypeOK /\ [Next]_vars => TypeOK'
  <1> SUFFICES ASSUME TypeOK, [Next]_vars PROVE TypeOK'
    OBVIOUS
  <1> USE NoneAssumption DEF TypeOK
  <1>1. ASSUME NEW s \in Servers, Construct(s) PROVE TypeOK'
    BY <1>1 DEF Construct, Outside, RunningAtFirst, history
  <1>2. ASSUME NEW s \in Servers, InstallHandler(s) PROVE TypeOK'
    BY <1>2 DEF InstallHandler, Outside
  <1>3. ASSUME NEW s \in Servers, Destroy(s) PROVE TypeOK'
    BY <1>3 DEF Destroy, Outside
  <1>4. ASSUME NEW s \in Servers, Run(s) PROVE TypeOK'
    BY <1>4 DEF Run, Outside, FlagAtRun
  <1>5. ASSUME NEW s \in Servers, StopServer(s) PROVE TypeOK'
    BY <1>5 DEF StopServer, Stop
  <1>6. CASE CtrlC
    BY <1>6 DEF CtrlC, Stop
  <1>7. CASE CtrlCWithoutTarget
    BY <1>7 DEF CtrlCWithoutTarget
  <1>8. CASE Startup
    BY <1>8 DEF Startup, At, Go, Return, Outcome
  <1>9. CASE LoopTest
    BY <1>9 DEF LoopTest, At, Go, WatchedFlag
  <1>10. CASE Iterate
    BY <1>10 DEF Iterate, At, Go
  <1>11. CASE Shutdown
    BY <1>11 DEF Shutdown, At, Return, Outcome
  <1>12. CASE UNCHANGED vars
    BY <1>12 DEF vars
  <1> QED
    BY <1>1, <1>2, <1>3, <1>4, <1>5, <1>6, <1>7, <1>8, <1>9, <1>10, <1>11, <1>12
    DEF Next, RunStep

\* Every step keeps the four facts about the flag.
LEMMA FlagStep ==
    IInv /\ [Next]_vars => (FlagInv /\ ShutdownInv /\ LateInv /\ ReturnsOnlyIfStopped)'
  <1> SUFFICES ASSUME IInv, [Next]_vars
               PROVE  (FlagInv /\ ShutdownInv /\ LateInv /\ ReturnsOnlyIfStopped)'
    OBVIOUS
  <1> USE NoneAssumption
      DEF IInv, TypeOK, FlagInv, ShutdownInv, LateInv, ReturnsOnlyIfStopped
  <1>1. ASSUME NEW s \in Servers, Construct(s)
        PROVE  (FlagInv /\ ShutdownInv /\ LateInv /\ ReturnsOnlyIfStopped)'
    BY <1>1 DEF Construct, Outside, RunningAtFirst, history
  <1>2. ASSUME NEW s \in Servers, InstallHandler(s)
        PROVE  (FlagInv /\ ShutdownInv /\ LateInv /\ ReturnsOnlyIfStopped)'
    BY <1>2 DEF InstallHandler, Outside
  <1>3. ASSUME NEW s \in Servers, Destroy(s)
        PROVE  (FlagInv /\ ShutdownInv /\ LateInv /\ ReturnsOnlyIfStopped)'
    BY <1>3 DEF Destroy, Outside
  <1>4. ASSUME NEW s \in Servers, Run(s)
        PROVE  (FlagInv /\ ShutdownInv /\ LateInv /\ ReturnsOnlyIfStopped)'
    BY <1>4 DEF Run, Outside, FlagAtRun
  <1>5. ASSUME NEW s \in Servers, StopServer(s)
        PROVE  (FlagInv /\ ShutdownInv /\ LateInv /\ ReturnsOnlyIfStopped)'
    BY <1>5 DEF StopServer, Stop
  <1>6. CASE CtrlC
    BY <1>6 DEF CtrlC, Stop
  <1>7. CASE CtrlCWithoutTarget
    BY <1>7 DEF CtrlCWithoutTarget
  <1>8. CASE Startup
    BY <1>8 DEF Startup, At, Go, Return, Outcome
  <1>9. CASE LoopTest
    BY <1>9 DEF LoopTest, At, Go, WatchedFlag
  <1>10. CASE Iterate
    BY <1>10 DEF Iterate, At, Go
  <1>11. CASE Shutdown
    BY <1>11 DEF Shutdown, At, Return, Outcome
  <1>12. CASE UNCHANGED vars
    BY <1>12 DEF vars
  <1> QED
    BY <1>1, <1>2, <1>3, <1>4, <1>5, <1>6, <1>7, <1>8, <1>9, <1>10, <1>11, <1>12
    DEF Next, RunStep

\* The invariant is inductive.
LEMMA StepIInv == IInv /\ [Next]_vars => IInv'
  BY TypeStep, FlagStep DEF IInv

\* All of the invariant holds in every reachable state.
THEOREM Invariant == Spec => []IInv
  BY InitIInv, StepIInv, PTL DEF Spec

---------------------------------------------------------------------------

\* The state is well typed, and the object whose run() is on the stack exists.
THEOREM TypeCorrect == Spec => []TypeOK
  <1>1. IInv => TypeOK
    BY DEF IInv
  <1> QED
    BY <1>1, Invariant, PTL

\* run() returns only if stopServer() has been called.
THEOREM ReturnMeansStopped == Spec => []ReturnsOnlyIfStopped
  <1>1. IInv => ReturnsOnlyIfStopped
    BY DEF IInv
  <1> QED
    BY <1>1, Invariant, PTL

\* No run() of any object ends more than one iteration after a stop, whenever
\* the stop came.
THEOREM OneLateIteration == Spec => []StoppedForGood
  <1>1. IInv => StoppedForGood
    BY DEF IInv, LateInv, StoppedForGood
  <1> QED
    BY <1>1, Invariant, PTL
=============================================================================
