------------------------------- MODULE Server -------------------------------
(***************************************************************************)
(* The life of openPubSub::Server objects (openPubSub.cpp): constructor,   *)
(* init(), run(), stopServer(), destructor, in a program with one thread   *)
(* and signals that are handled at any point.  UA_Server_run is external,  *)
(* as in open62541 1.1: it starts up, iterates, looks after every          *)
(* iteration at the flag it was given a pointer to, and shuts down when it *)
(* is cleared.  A configured shutdownDelay would let it go on until        *)
(* endTime; nothing under src/ configures one, and the model has none.     *)
(***************************************************************************)
EXTENDS Naturals

CONSTANTS Servers,  \* the objects a program may construct
          None

ASSUME NoneAssumption == None \notin Servers

VARIABLES process,     \* "alive", "killed" by a signal, "crashed"
          life,        \* of each object: "none", "exists", "destroyed"
          running,     \* m_running
          target,    \* the global pointer __server; None until init() installs stopHandler
          current,     \* the object whose run() is on the stack
          at,          \* where UA_Server_run is
          outcome,     \* how the last run() of each object ended (history)
          stopped,     \* objects stopServer() has been called for (history)
          interrupted, \* objects set up with init() when ctrl-c came (history)
          initialised, \* objects init() has been called for (history)
          late         \* iterations the last run() has ended after a stop (history)

history == <<outcome, stopped, interrupted, initialised, late>>
vars == <<process, life, running, target, current, at, outcome, stopped, interrupted,
          initialised, late>>

Init ==
    /\ process = "alive"
    /\ life = [s \in Servers |-> "none"]
    /\ running = [s \in Servers |-> FALSE]
    /\ target = None /\ current = None /\ at = "outside"
    /\ outcome = [s \in Servers |-> "none"]
    /\ stopped = {} /\ interrupted = {} /\ initialised = {}
    /\ late = 0

---------------------------------------------------------------------------
(* The program's own calls, made while no run() is on the stack. *)

Outside == process = "alive" /\ current = None

\* Mutant: the constructor leaves m_running as make_unique has zeroed it.
NeverSet == FALSE

RunningAtFirst == TRUE

\* A constructor that throws leaves no object: nothing changes.
Construct(s) ==
    /\ Outside /\ life[s] = "none"
    /\ life' = [life EXCEPT ![s] = "exists"]
    /\ running' = [running EXCEPT ![s] = RunningAtFirst]
    /\ UNCHANGED <<process, target, current, at, history>>

InstallHandler(s) ==
    /\ Outside /\ life[s] = "exists"
    /\ target' = s
    /\ initialised' = initialised \cup {s}
    /\ UNCHANGED <<process, life, running, current, at, outcome, stopped, interrupted, late>>

\* The destructor leaves the global pointer alone.
Destroy(s) ==
    /\ Outside /\ life[s] = "exists"
    /\ life' = [life EXCEPT ![s] = "destroyed"]
    /\ initialised' = initialised \ {s}
    /\ UNCHANGED <<process, running, target, current, at, outcome, stopped, interrupted, late>>

\* Mutant: run() sets the flag again, as Subscriber::run() does.
SetAgain(flag) == TRUE

FlagAtRun(flag) == flag

\* Mutant: run() hands on what UA_Server_run has returned.
HandedOn(status) == status

Outcome(status) == IF status = "Good" THEN "returned" ELSE "thrown"

Run(s) ==
    /\ Outside /\ life[s] = "exists"
    /\ running' = [running EXCEPT ![s] = FlagAtRun(running[s])]
    /\ current' = s /\ at' = "startup"
    /\ outcome' = [outcome EXCEPT ![s] = "none"]
    /\ late' = 0
    /\ UNCHANGED <<process, life, target, stopped, interrupted, initialised>>

---------------------------------------------------------------------------
(* stopServer(), by the program, a callback of the server, or a signal. *)

Stop(s) ==
    /\ running' = [running EXCEPT ![s] = FALSE]
    /\ stopped' = stopped \cup {s}

StopServer(s) ==
    /\ process = "alive" /\ life[s] = "exists"
    /\ at \in {"outside", "iterate"}
    /\ Stop(s)
    /\ UNCHANGED <<process, life, target, current, at, outcome, interrupted, initialised, late>>

CtrlC ==
    /\ process = "alive" /\ target # None
    /\ life[target] = "exists"
    /\ Stop(target)
    /\ interrupted' = interrupted \cup initialised
    /\ UNCHANGED <<process, life, target, current, at, outcome, initialised, late>>

\* The handler of a destroyed object writes through a dangling pointer, with or
\* without an effect; without init() the signal has its default disposition.
CtrlCWithoutTarget ==
    /\ process = "alive"
    /\ IF target = None
       THEN process' = "killed"
       ELSE life[target] = "destroyed" /\ process' \in {"alive", "crashed"}
    /\ interrupted' = interrupted \cup initialised
    /\ UNCHANGED <<life, running, target, current, at, outcome, stopped, initialised, late>>

---------------------------------------------------------------------------
(* UA_Server_run. *)

At(place) == process = "alive" /\ at = place

Return(status) ==
    /\ outcome' = [outcome EXCEPT ![current] = Outcome(status)]
    /\ current' = None /\ at' = "outside"
    /\ UNCHANGED <<process, life, running, target, stopped, interrupted, initialised, late>>

Go(place) ==
    /\ at' = place
    /\ UNCHANGED <<process, life, running, target, current, outcome, stopped, interrupted,
                   initialised>>

Startup == At("startup") /\ ((Go("iterate") /\ UNCHANGED late) \/ Return("BadInternalError"))

\* An iteration ends; it is late when a stop came before or during it, ever
\* since the object was constructed.
Iterate ==
    /\ At("iterate")
    /\ Go("test")
    /\ late' = IF current \in stopped /\ late < 2 THEN late + 1 ELSE late

\* Mutant: UA_Server_run gets a copy of m_running instead of its address.
CopiedFlag == TRUE

WatchedFlag == running[current]

LoopTest == At("test") /\ Go(IF WatchedFlag THEN "iterate" ELSE "shutdown") /\ UNCHANGED late

Shutdown == At("shutdown") /\ \E status \in {"Good", "BadInternalError"} : Return(status)

---------------------------------------------------------------------------

RunStep == Startup \/ Iterate \/ LoopTest \/ Shutdown

Next ==
    \/ \E s \in Servers : Construct(s) \/ InstallHandler(s) \/ Destroy(s) \/ Run(s) \/ StopServer(s)
    \/ CtrlC \/ CtrlCWithoutTarget
    \/ RunStep

Spec == Init /\ [][Next]_vars

\* No step of UA_Server_run waits for anything but its own timers.
FairSpec == Spec /\ WF_vars(RunStep)

---------------------------------------------------------------------------
(* Properties. *)

TypeOK ==
    /\ process \in {"alive", "killed", "crashed"}
    /\ life \in [Servers -> {"none", "exists", "destroyed"}]
    /\ running \in [Servers -> BOOLEAN]
    /\ target \in Servers \cup {None}
    /\ current \in Servers \cup {None}
    /\ current # None => life[current] = "exists"
    /\ at \in {"outside", "startup", "test", "iterate", "shutdown"}
    /\ at = "outside" <=> current = None
    /\ outcome \in [Servers -> {"none", "returned", "thrown"}]
    /\ stopped \subseteq Servers
    /\ interrupted \subseteq Servers
    /\ initialised \subseteq Servers
    /\ late \in 0..2

\* run() returns only if stopServer() has been called at some time; every other
\* end of UA_Server_run is thrown as a ua_exception.
ReturnsOnlyIfStopped == \A s \in Servers : outcome[s] = "returned" => s \in stopped

\* A stop is for good: it may come before a run(), during it or in an earlier
\* one, and the flag is cleared but never set, so no run() ends more than one
\* iteration after it, the one it cannot avoid.
StoppedForGood == late <= 1

\* A stop that comes while run() is on the stack ends it.
StopEndsRun ==
    \A s \in Servers :
        (process = "alive" /\ current = s /\ ~running[s]) ~> (current # s \/ process # "alive")

\* stopServer is triggered by ctrl-c for every object init() has set up.
CtrlCStops == interrupted \subseteq stopped
=============================================================================
