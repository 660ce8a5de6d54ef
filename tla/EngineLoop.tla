----------------------------- MODULE EngineLoop -----------------------------
(***************************************************************************)
(* The engine task of run_daemon and what talks to it: the file watcher,   *)
(* signals, timers and the metrics push.  The branches of its select! are  *)
(* actions here; their work on the maps is the subject of the other        *)
(* modules.                                                                *)
(*                                                                         *)
(* Abstractions.  A configuration is a version; its text matters only as   *)
(* equal, valid or not.  Deadlines are kept relative to the clock, and     *)
(* lateness counts up to MaxLate.  A reload reads the file once, at its    *)
(* beginning, so an edit during a reload is one after it.                  *)
(***************************************************************************)
EXTENDS Integers, Sequences, FiniteSets

CONSTANTS
    Versions, Valid,    \* contents of the config file; the ones that parse
    None,               \* nothing; also a config file that is not there
    QueueCap,           \* capacity of the reload channel
    Timers,             \* subset of {"collect", "scan", "push"}
    Period,             \* Period[v][t]: TimerIntervals of a valid version
    MaxLate,            \* bound: how late a deadline is remembered to be
    MaxTasks            \* bound: push tasks that have not run yet

ASSUME EngineAssumption ==
    /\ Valid \subseteq Versions /\ None \notin Versions
    /\ QueueCap \in Nat \ {0} /\ MaxLate \in Nat /\ MaxTasks \in Nat
    /\ Period \in [Valid -> [Timers -> Nat \ {0}]]

VARIABLES
    pc,             \* "watch" and "compare" during startup, "loop", "stopped"
    file,           \* the config file on disk
    watching,       \* the watcher is alive
    noticed,        \* the debouncer holds a change of the file
    sending,        \* what the watcher thread waits to send, or None
    queue,          \* the reload channel
    sighup,         \* a SIGHUP not yet received by the loop
    applied,        \* last_config_bytes: the configuration in force
    last_reload_ok,
    watcher_healthy,
    changed,        \* the loop has not seen the latest generation
    due,            \* time left to a timer's deadline
    inflight,       \* PushCounters.inflight
    tasks,          \* push tasks spawned that have not run yet
    posting,        \* push tasks inside metrics::push
    owed,           \* auxiliary: a SIGHUP has had no reload yet
    lost            \* auxiliary: the last SIGHUP met a channel full of errors

conf == <<applied, last_reload_ok, watcher_healthy, changed>>
watch == <<watching, noticed, sending>>
push == <<inflight, tasks, posting>>
signal == <<owed, lost>>
vars == <<pc, file, watch, queue, sighup, conf, due, push, signal>>

Running == pc # "stopped"

-----------------------------------------------------------------------------
(* The config file, its watcher, signals *)

\* A save; the debouncer sees it once the directory is watched.
Edit(v) ==
    /\ Running
    /\ file # v
    /\ file' = v
    /\ noticed' = (noticed \/ watching)
    /\ UNCHANGED <<pc, watching, sending, queue, sighup, conf, due, push, signal>>

\* Removals are no content change.
Unlink ==
    /\ Running
    /\ file # None
    /\ file' = None
    /\ UNCHANGED <<pc, watch, queue, sighup, conf, due, push, signal>>

Debounced ==
    /\ Running
    /\ sending = None
    /\ noticed
    /\ noticed' = FALSE
    /\ sending' = "Reload"
    /\ UNCHANGED <<pc, file, watching, queue, sighup, conf, due, push, signal>>

WatchError ==
    /\ Running
    /\ watching /\ sending = None
    /\ sending' = "Error"
    /\ UNCHANGED <<pc, file, watching, noticed, queue, sighup, conf, due, push, signal>>

Room == Len(queue) < QueueCap

\* blocking_send
Send ==
    /\ Running
    /\ sending # None /\ Room
    /\ queue' = Append(queue, sending)
    /\ sending' = None
    /\ UNCHANGED <<pc, file, watching, noticed, sighup, conf, due, push, signal>>

\* try_send
Offered(msg) == IF Room THEN Append(queue, msg) ELSE queue

\* Variant: the handler is registered when the loop starts.
HangupOnceRunning ==
    /\ Running
    /\ sighup' = (sighup \/ pc = "loop") /\ owed' = TRUE /\ lost' = FALSE
    /\ UNCHANGED <<pc, file, watch, queue, conf, due, push>>

\* Someone sends SIGHUP; several signals are received as one.
Hangup ==
    /\ Running
    /\ sighup' = TRUE /\ owed' = TRUE /\ lost' = FALSE
    /\ UNCHANGED <<pc, file, watch, queue, conf, due, push>>

-----------------------------------------------------------------------------
(* Startup, after the configuration was parsed *)

\* A watcher that cannot start costs hot reload, not monitoring.
SpawnWatcher ==
    /\ pc = "watch"
    /\ pc' = "compare"
    /\ \E started \in BOOLEAN : watching' = started /\ watcher_healthy' = started
    /\ UNCHANGED <<file, noticed, sending, queue, sighup, applied, last_reload_ok, changed,
                   due, push, signal>>

\* Variant: the watcher is trusted to have seen everything.
MovedUnseen == FALSE

\* The file is not the one that was parsed.
Moved == file \notin {None, applied}

Compare ==
    /\ pc = "compare"
    /\ pc' = "loop"
    /\ queue' = IF Moved THEN Offered("Reload") ELSE queue
    /\ due' = Period[applied]
    /\ UNCHANGED <<file, watch, sighup, conf, push, signal>>

-----------------------------------------------------------------------------
(* The branches of the loop *)

ReceiveHangup ==
    /\ pc = "loop"
    /\ sighup
    /\ sighup' = FALSE
    /\ queue' = Offered("Reload")
    /\ lost' = (lost \/ \A i \in DOMAIN queue' : queue'[i] # "Reload")
    /\ UNCHANGED <<pc, file, watch, conf, due, push, owed>>

\* Engine::reload: unreadable, unchanged, rejected, failed to apply, or in force.
Reload ==
    \E ok \in BOOLEAN :
        /\ file \notin Valid => ~ok
        /\ last_reload_ok' = ok
        /\ applied' = IF ok THEN file ELSE applied
        /\ changed' = (changed \/ (ok /\ file # applied))
        /\ owed' = FALSE /\ lost' = FALSE

ReceiveMsg ==
    /\ pc = "loop"
    /\ queue # <<>>
    /\ queue' = Tail(queue)
    /\ \/ /\ Head(queue) = "Error"
          /\ watcher_healthy' = FALSE
          /\ UNCHANGED <<applied, last_reload_ok, changed, signal>>
       \/ /\ Head(queue) = "Reload"
          /\ Reload
          /\ UNCHANGED watcher_healthy
    /\ UNCHANGED <<pc, file, watch, sighup, due, push>>

\* Variant: a new configuration starts its periods afresh.
rescheduled_afresh(current, period) == period

rescheduled(current, period) == IF current <= period THEN current ELSE period

ConfigChanged ==
    /\ pc = "loop"
    /\ changed
    /\ changed' = FALSE
    /\ due' = [t \in Timers |-> rescheduled(due[t], Period[applied][t])]
    /\ UNCHANGED <<pc, file, watch, queue, sighup, applied, last_reload_ok, watcher_healthy,
                   push, signal>>

\* On the cadence of the previous deadline, or a period from now after a long delay.
next_deadline(prev, period) == IF prev + period > 0 THEN prev + period ELSE period

\* A push that is due is spawned, unless pushing is disabled; the task runs by itself.
push_metrics ==
    /\ \/ UNCHANGED tasks
       \/ tasks < MaxTasks /\ tasks' = tasks + 1
    /\ UNCHANGED <<inflight, posting>>

\* A timer's branch.
Fire(t) ==
    /\ pc = "loop"
    /\ due[t] <= 0
    /\ due' = [due EXCEPT ![t] = next_deadline(@, Period[applied][t])]
    /\ IF t = "push" THEN push_metrics ELSE UNCHANGED push
    /\ UNCHANGED <<pc, file, watch, queue, sighup, conf, signal>>

\* Variant: a push starts whether or not one is in flight.
try_start_anyway == TRUE

\* The single-flight slot is free.
try_start == ~inflight

\* The task of a push runs: it takes the slot and sends, or is skipped.
RunPush ==
    /\ Running
    /\ tasks > 0
    /\ tasks' = tasks - 1
    /\ inflight' = TRUE
    /\ posting' = IF try_start THEN posting + 1 ELSE posting
    /\ UNCHANGED <<pc, file, watch, queue, sighup, conf, due, signal>>

\* Variant: only a push that was answered gives the slot back.
ReleasedByHand(outcome) == outcome = "answered"

\* PushGuard is dropped on every path.
Released(outcome) == TRUE

PushEnds ==
    /\ Running
    /\ posting > 0
    /\ posting' = posting - 1
    /\ \E outcome \in {"answered", "failed", "timed out", "panicked"} :
         inflight' = (inflight /\ ~Released(outcome))
    /\ UNCHANGED <<pc, file, watch, queue, sighup, conf, due, tasks, signal>>

Shutdown ==
    /\ pc = "loop"
    /\ pc' = "stopped"
    /\ UNCHANGED <<file, watch, queue, sighup, conf, due, push, signal>>

Elapse ==
    /\ pc = "loop"
    /\ due' = [t \in Timers |-> IF due[t] > -MaxLate THEN due[t] - 1 ELSE due[t]]
    /\ UNCHANGED <<pc, file, watch, queue, sighup, conf, push, signal>>

-----------------------------------------------------------------------------
Init ==
    /\ pc = "watch"
    /\ applied \in Valid
    /\ file \in Versions
    /\ watching = FALSE /\ noticed = FALSE /\ sending = None
    /\ queue = <<>> /\ sighup = FALSE
    /\ last_reload_ok = TRUE /\ watcher_healthy = TRUE /\ changed = FALSE
    /\ due = Period[applied]
    /\ inflight = FALSE /\ tasks = 0 /\ posting = 0
    /\ owed = FALSE /\ lost = FALSE

Watcher == Debounced \/ Send

Branches ==
    \/ ReceiveHangup \/ ReceiveMsg \/ ConfigChanged
    \/ \E t \in Timers : Fire(t)

Environment ==
    \/ \E v \in Versions : Edit(v)
    \/ Unlink \/ WatchError \/ Hangup \/ Shutdown

Next ==
    \/ Environment \/ Watcher \/ SpawnWatcher \/ Compare \/ Branches
    \/ RunPush \/ PushEnds \/ Elapse

Spec == Init /\ [][Next]_vars

\* select! chooses at random among the ready branches, so each is taken if it stays
\* ready; a sender that waits gets the next free slot of the channel; a spawned task runs,
\* and the HTTP client of a push has a timeout.
Fairness ==
    /\ WF_vars(SpawnWatcher) /\ WF_vars(Compare)
    /\ WF_vars(Debounced) /\ SF_vars(Send)
    /\ WF_vars(ReceiveHangup) /\ WF_vars(ReceiveMsg) /\ WF_vars(ConfigChanged)
    /\ \A t \in Timers : WF_vars(Fire(t))
    /\ WF_vars(RunPush) /\ WF_vars(PushEnds) /\ WF_vars(Elapse)

FairSpec == Spec /\ Fairness

-----------------------------------------------------------------------------
(* Properties *)

\* Once the file stays as it is, the daemon runs on it or says that it does not: a
\* reload reported FAILED or a watcher reported unhealthy.  No edit is lost to startup,
\* to a reload under way, to a full channel or to an earlier failure.
NeverSilentlyStale ==
    \A v \in Versions :
        <>[](file = v /\ Running) => <>[](applied = v \/ ~last_reload_ok \/ ~watcher_healthy)

\* From the first moment of the startup on a SIGHUP is followed by a reload, whether the
\* watcher works or not (README.md: "SIGHUP triggers one config reload"), unless it met a channel
\* full of errors of the watcher.
SignalsServed == owed ~> (~owed \/ lost \/ ~Running)

\* No timer starves, however often the configuration is rewritten.
TimersRecur == <>~Running \/ \A t \in Timers : []<><<Fire(t)>>_vars

\* "At most one push is in flight", although each runs in a task of its own.
OnePush == posting <= 1

\* As long as pushes are asked for, pushes are sent: one that hangs, fails or panics does
\* not end the pushing.
PushesGoOn == <>~Running \/ ([]<>(tasks > 0) => []<><<posting' = posting + 1>>_vars)

=============================================================================
