----------------------------- MODULE Supervisor -----------------------------
(***************************************************************************)
(* The main loop of the relayer process and its circuit breaker.  main     *)
(* spawns the tasks of a run, waits until all of them have returned and    *)
(* starts the next run; a task that returns an error ends the process.     *)
(* The circuit breaker is a tokio broadcast channel with room for ONE      *)
(* message: a task that finds two has lost one, gets RecvError::Lagged,    *)
(* and returns it as its error.                                            *)
(*                                                                         *)
(* The two pipelines of the process share nothing else, so each one has a  *)
(* module of its own, in which the tasks of the other, the two halted      *)
(* listeners and the advisory listener are the Watchers: tasks that wait   *)
(* for the circuit breaker and may trip it.                                *)
(***************************************************************************)
EXTENDS Naturals, Sequences, FiniteSets

CONSTANTS
    Watchers,     \* tasks other than those of the pipeline
    FaultKinds,   \* the kinds of faults that may happen
    MaxFaults     \* bound on their number

Pipeline == {"listener", "handler", "manager"}
Tasks == Pipeline \cup Watchers

ASSUME SupervisorAssumption ==
    /\ Watchers \cap Pipeline = {}
    /\ MaxFaults \in Nat

VARIABLES
    up,       \* FALSE after process::exit(1) or a crash
    alive,    \* the tasks that have not returned
    cb,       \* unread messages in each task's receiver; 2 means one was overwritten
    faults    \* number of faults so far

supervision == <<up, alive, cb, faults>>

Fault(kind) ==
    /\ kind \in FaultKinds
    /\ faults < MaxFaults
    /\ faults' = faults + 1

\* circuit_breaker_sender.send
Trip == cb' = [t \in Tasks |-> IF t \in alive /\ cb[t] < 2 THEN cb[t] + 1 ELSE cb[t]]

\* A task returns Ok, or returns an error, which takes all the others along.
Exit(t) == alive' = alive \ {t} /\ UNCHANGED up
Die == alive' = {} /\ up' = FALSE

\* A watcher sees its condition, trips the circuit breaker and returns.
WatcherTrips(t) ==
    /\ t \in alive \cap Watchers
    /\ Fault("trip")
    /\ Trip
    /\ Exit(t)

\* `Ok(cb_event?)` in a select!: one message ends the task, a lost one the process.
Observe(t) ==
    /\ t \in alive
    /\ \/ cb[t] = 1 /\ Exit(t)
       \/ cb[t] = 2 /\ Die
    /\ UNCHANGED <<cb, faults>>

\* run_relayer, called by main once no task is left, or by a new process.
Start ==
    /\ alive = {}
    /\ up' = TRUE
    /\ alive' = Tasks
    /\ cb' = [t \in Tasks |-> 0]

Crash ==
    /\ up
    /\ Fault("crash")
    /\ Die
    /\ UNCHANGED cb

SupervisorInit ==
    /\ up = FALSE
    /\ alive = {}
    /\ cb = [t \in Tasks |-> 0]
    /\ faults = 0

SupervisorType ==
    /\ up \in BOOLEAN
    /\ alive \subseteq Tasks
    /\ cb \in [Tasks -> 0 .. 2]
    /\ faults \in 0 .. MaxFaults

=============================================================================
