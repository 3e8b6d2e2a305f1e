---------------------------- MODULE MilterDaemon ----------------------------
(***************************************************************************)
(* The life of the daemon (src/src/main.rs, main): the milter socket is    *)
(* bound, a leftover path replaced if that is allowed, the scanner asked   *)
(* for a registration, the accept loop run with its connection tasks       *)
(* (src/src/server.rs, serve), drained when there is a reason to stop, and *)
(* the registration given back.  A connection task is a MilterConnection   *)
(* seen from outside: it runs, it may send hooks, it ends.  A task that is *)
(* aborted goes on until its current poll returns.  A rival is another     *)
(* instance of the program that is started on the same socket path.        *)
(***************************************************************************)
EXTENDS Integers, FiniteSets

CONSTANTS
  Tasks,            \* slots for connection tasks in the JoinSet
  MaxConnections,   \* Config.max_connections
  MaxOverload       \* bound: overload events counted

ASSUME DaemonAssumption ==
  /\ IsFiniteSet(Tasks)
  /\ MaxConnections \in Nat \ {0} /\ MaxOverload \in Nat

VARIABLES
  served,        \* serve: unborn, spawned, accepting, draining, joining, ok or err
  task,          \* each task: absent, running, aborting or finished
  permits,       \* permits left in the semaphore
  active,        \* Stats.active
  overload,      \* Stats.overload
  ready,         \* Stats.ready
  listener,      \* Stats.listener is not 0
  stop,          \* the cancellation token
  main,          \* where main is
  registration,  \* none, lost (held without our knowing), held or released
  lateHook,      \* history: a hook was sent after the registration was released
  config,        \* the milter listener: tcp, unix, or replace (--milter-unix-replace-stale)
  path,          \* at the socket path: none, file, stale (nobody listens), ours or rival
  rival,         \* the other instance: absent, removing, binding, listening
  removedLive    \* history: a socket was removed while its owner listened on it

tasks == <<task, permits, active>>
flags == <<ready, listener, stop>>
startup == <<config, path, rival, removedLive>>
daemonVars == <<served, tasks, overload, flags, main, registration, lateHook, startup>>

Live == {t \in Tasks : task[t] \in {"running", "aborting"}}
Idle == {t \in Tasks : task[t] = "absent"}

\* A listener is closed: its path stays.
Closed == IF path = "ours" THEN "stale" ELSE path
CloseListener == path' = Closed /\ UNCHANGED <<config, rival, removedLive>>

\* Dropping the JoinSet or abort_all: running tasks are told to stop.
Abort(f) == [t \in Tasks |-> IF f[t] = "running" THEN "aborting" ELSE f[t]]

-----------------------------------------------------------------------------
(* serve *)

\* The spawned task runs for the first time and announces its listener.
ServeStarts ==
  /\ served = "spawned" /\ main # "exited"
  /\ served' = "accepting"
  /\ listener' = TRUE
  /\ UNCHANGED <<tasks, overload, ready, stop, main, registration, lateHook, startup>>

\* Fault: a connection is taken without a permit.
AcceptUnlimited(t) ==
  /\ served = "accepting" /\ main # "exited"
  /\ task[t] = "absent"
  /\ permits' = permits - 1
  /\ active' = active + 1
  /\ task' = [task EXCEPT ![t] = "running"]
  /\ UNCHANGED <<served, overload, flags, main, registration, lateHook, startup>>

Accept(t) ==
  /\ served = "accepting" /\ main # "exited"
  /\ task[t] = "absent" /\ permits > 0
  /\ permits' = permits - 1
  /\ active' = active + 1
  /\ task' = [task EXCEPT ![t] = "running"]
  /\ UNCHANGED <<served, overload, flags, main, registration, lateHook, startup>>

\* No permit is left: the connection is counted and dropped.
Overload ==
  /\ served = "accepting" /\ main # "exited"
  /\ permits = 0 /\ overload < MaxOverload
  /\ overload' = overload + 1
  /\ UNCHANGED <<served, tasks, flags, main, registration, lateHook, startup>>

\* Fault: a task that is cancelled does not give its permit back.
LeakOnAbort(t) ==
  /\ task[t] \in {"running", "aborting"} /\ main # "exited"
  /\ task' = [task EXCEPT ![t] = "finished"]
  /\ permits' = permits + (IF task[t] = "running" THEN 1 ELSE 0)
  /\ active' = active - 1
  /\ UNCHANGED <<served, overload, flags, main, registration, lateHook, startup>>

\* The task returns, panics or is cancelled; either way its permit and its share of the
\* gauge are dropped with it.
TaskEnds(t) ==
  /\ task[t] \in {"running", "aborting"} /\ main # "exited"
  /\ task' = [task EXCEPT ![t] = "finished"]
  /\ permits' = permits + 1
  /\ active' = active - 1
  /\ UNCHANGED <<served, overload, flags, main, registration, lateHook, startup>>

\* join_next, in the accept loop and in the drain.  A JoinSet that was dropped forgets
\* its tasks by itself.
Join(t) ==
  /\ task[t] = "finished" /\ main # "exited"
  /\ task' = [task EXCEPT ![t] = "absent"]
  /\ UNCHANGED <<served, permits, active, overload, flags, main, registration, lateHook, startup>>

\* A task in the middle of a callback sends a hook to the scanner.
SendHook(t) ==
  /\ task[t] \in {"running", "aborting"} /\ main # "exited" /\ registration # "none"
  /\ lateHook' = (lateHook \/ registration = "released")
  /\ UNCHANGED <<served, tasks, overload, flags, main, registration, startup>>

\* Fault: the accept error leaves the readiness flag alone.
AcceptFailsReady ==
  /\ served = "accepting" /\ main # "exited"
  /\ served' = "err"
  /\ task' = Abort(task)
  /\ listener' = FALSE
  /\ CloseListener
  /\ UNCHANGED <<permits, active, overload, ready, stop, main, registration, lateHook>>

\* accept() fails and serve returns at once: the drop guard clears the listener state and
\* dropping the JoinSet aborts the tasks without waiting for them.
AcceptFails ==
  /\ served = "accepting" /\ main # "exited"
  /\ served' = "err"
  /\ task' = Abort(task)
  /\ ready' = FALSE /\ listener' = FALSE
  /\ CloseListener
  /\ UNCHANGED <<permits, active, overload, stop, main, registration, lateHook>>

StopAccepting ==
  /\ served = "accepting" /\ stop
  /\ served' = "draining"
  /\ ready' = FALSE /\ listener' = FALSE
  /\ UNCHANGED <<tasks, overload, stop, main, registration, lateHook, startup>>

\* Fault: the forced drain returns right after abort_all.
DrainDoneUnjoined ==
  /\ served \in {"draining", "joining"}
  /\ served = "draining" => Idle = Tasks
  /\ served' = "ok"
  /\ CloseListener
  /\ UNCHANGED <<tasks, overload, flags, main, registration, lateHook>>

\* Every task has been joined.
DrainDone ==
  /\ served \in {"draining", "joining"} /\ Idle = Tasks
  /\ served' = "ok"
  /\ CloseListener
  /\ UNCHANGED <<tasks, overload, flags, main, registration, lateHook>>

\* Fault: the drain deadline is noticed but the tasks are not aborted.
DrainTimeoutWaits ==
  /\ served = "draining" /\ Idle # Tasks
  /\ served' = "joining"
  /\ UNCHANGED <<tasks, overload, flags, main, registration, lateHook, startup>>

\* shutdown_timeout: abort_all, then the aborted tasks are joined.
DrainTimeout ==
  /\ served = "draining" /\ Idle # Tasks
  /\ served' = "joining"
  /\ task' = Abort(task)
  /\ UNCHANGED <<permits, active, overload, flags, main, registration, lateHook, startup>>

-----------------------------------------------------------------------------
(* main: startup *)

Starting == {"checking", "probing", "removing", "binding", "http", "registering"}

Proceed(next) ==
  /\ main' = next
  /\ UNCHANGED <<served, tasks, overload, flags, registration, lateHook>>

\* main returns an error: what is bound by now is closed.
StartupFails == Proceed("failed") /\ CloseListener

\* replace_stale_socket: symlink_metadata and is_socket.
CheckPath ==
  /\ main = "checking"
  /\ \/ path = "none" /\ Proceed("binding") /\ UNCHANGED startup
     \/ path \in {"stale", "ours", "rival"} /\ Proceed("probing") /\ UNCHANGED startup
     \/ path = "file" /\ StartupFails

\* The connect is refused by a socket nobody listens on; it succeeds (or times out) with
\* a rival, and fails when the path has gone.
Probe ==
  /\ main = "probing"
  /\ \/ path = "stale" /\ Proceed("removing") /\ UNCHANGED startup
     \/ path # "stale" /\ StartupFails

\* remove_file removes what is there by now.
RemoveStale ==
  /\ main = "removing"
  /\ \/ path = "none" /\ StartupFails
     \/ /\ path # "none" /\ Proceed("binding")
        /\ path' = "none" /\ removedLive' = (removedLive \/ path = "rival")
        /\ UNCHANGED <<config, rival>>

\* Binding a Unix socket fails iff the path exists; a TCP port may be taken, and the
\* permission bits may not be applied.
BindSocket ==
  /\ main = "binding"
  /\ \/ /\ config = "tcp" \/ path = "none"
        /\ Proceed("http")
        /\ path' = IF config = "tcp" THEN path ELSE "ours"
        /\ UNCHANGED <<config, rival, removedLive>>
     \/ (config = "tcp" \/ path # "none") /\ StartupFails
     \/ /\ config # "tcp" /\ path = "none" /\ Proceed("failed")
        /\ path' = "stale" /\ UNCHANGED <<config, rival, removedLive>>

BindHttp ==
  /\ main = "http"
  /\ \/ Proceed("registering") /\ UNCHANGED startup
     \/ StartupFails

\* Fault: the scanner is asked before the sockets are bound.
RegisterFirst(outcome) ==
  /\ main \in {"binding", "registering"}
  /\ registration' = outcome
  /\ IF main = "binding" \/ outcome = "lost"
     THEN UNCHANGED <<main, ready, served>>
     ELSE main' = "serving" /\ ready' = TRUE /\ served' = "spawned"
  /\ UNCHANGED <<tasks, overload, listener, stop, lateHook, startup>>

\* with_options (not in passthrough mode), then serve is spawned.  A registration that
\* fails ends main; the scanner may hold it all the same.
Register(outcome) ==
  /\ main = "registering"
  /\ registration' = outcome
  /\ IF outcome = "lost"
     THEN main' = "failed" /\ CloseListener /\ UNCHANGED <<ready, served>>
     ELSE main' = "serving" /\ ready' = TRUE /\ served' = "spawned" /\ UNCHANGED startup
  /\ UNCHANGED <<tasks, overload, listener, stop, lateHook>>

RegisterFails == main = "registering" /\ StartupFails

-----------------------------------------------------------------------------
(* The other instance, as far as the path is concerned. *)

Rival(next) ==
  /\ rival' = next
  /\ UNCHANGED <<served, tasks, overload, flags, main, registration, lateHook, config>>

\* It was refused, or it starts on a free path.
RivalProbes == /\ rival = "absent" /\ path = "stale" /\ Rival("removing")
               /\ UNCHANGED <<path, removedLive>>

RivalRemoves == /\ rival = "removing" /\ path # "none" /\ Rival("binding")
                /\ path' = "none" /\ removedLive' = (removedLive \/ path = "ours")

RivalBinds == /\ rival \in {"absent", "binding"} /\ path = "none" /\ Rival("listening")
              /\ path' = "rival" /\ UNCHANGED removedLive

RivalEnds == /\ rival # "absent" /\ Rival("absent")
             /\ path' = (IF path = "rival" THEN "stale" ELSE path) /\ UNCHANGED removedLive

-----------------------------------------------------------------------------
(* main: shutdown *)

ServeFinished == served \in {"ok", "err"}

\* A signal, the end of the HTTP server or the end of serve.
LeaveSelect ==
  /\ main = "serving"
  /\ ready' = FALSE
  /\ stop' = TRUE
  /\ main' = "stopping"
  /\ UNCHANGED <<served, tasks, overload, listener, registration, lateHook, startup>>

\* if !milter_task.is_finished() { milter_task.await??; }
CheckServe ==
  /\ main = "stopping"
  /\ main' = IF ServeFinished THEN "deregistering" ELSE "awaiting"
  /\ UNCHANGED <<served, tasks, overload, flags, registration, lateHook, startup>>

\* An error of serve ends main here.
ServeAwaited ==
  /\ main = "awaiting" /\ ServeFinished
  /\ main' = IF served = "ok" THEN "deregistering" ELSE "exited"
  /\ UNCHANGED <<served, tasks, overload, flags, registration, lateHook, startup>>

Deregister ==
  /\ main = "deregistering"
  /\ registration' = IF registration = "held" THEN "released" ELSE registration
  /\ main' = "released"
  /\ UNCHANGED <<served, tasks, overload, flags, lateHook, startup>>

\* The HTTP server is awaited for five seconds at most.
Exit ==
  /\ main = "released"
  /\ main' = "exited"
  /\ UNCHANGED <<served, tasks, overload, flags, registration, lateHook, startup>>

-----------------------------------------------------------------------------
DaemonInit ==
  /\ served = "unborn"
  /\ task = [t \in Tasks |-> "absent"]
  /\ permits = MaxConnections /\ active = 0 /\ overload = 0
  /\ ready = FALSE /\ listener = FALSE /\ stop = FALSE
  /\ config \in {"tcp", "unix", "replace"}
  /\ main = IF config = "replace" THEN "checking" ELSE "binding"
  /\ path \in (IF config = "tcp" THEN {"none"} ELSE {"none", "file", "stale", "rival"})
  /\ rival = IF path = "rival" THEN "listening" ELSE "absent"
  /\ registration = "none" /\ lateHook = FALSE /\ removedLive = FALSE

Serve == \/ \E t \in Tasks : Accept(t) \/ TaskEnds(t) \/ Join(t) \/ SendHook(t)
         \/ ServeStarts \/ Overload \/ AcceptFails \/ StopAccepting \/ DrainDone \/ DrainTimeout
Startup == \/ CheckPath \/ Probe \/ RemoveStale \/ BindSocket \/ BindHttp \/ RegisterFails
           \/ \E outcome \in {"none", "held", "lost"} : Register(outcome)
Other == config # "tcp" /\ (RivalProbes \/ RivalRemoves \/ RivalBinds \/ RivalEnds)
Main == LeaveSelect \/ CheckServe \/ ServeAwaited \/ Deregister \/ Exit

DaemonNext == Startup \/ Serve \/ Main \/ Other

DaemonSpec == DaemonInit /\ [][DaemonNext]_daemonVars

(***************************************************************************)
(* Fairness.  The runtime runs the spawned task.  A cancelled token stays  *)
(* ready, so the unbiased select takes it at some point; the drain         *)
(* deadline fires; an aborted task is dropped at its next await and        *)
(* joined; main is never blocked in its own steps.  Nothing is assumed of  *)
(* a running task: a policy may keep it for ever.                          *)
(***************************************************************************)
FairDaemonSpec ==
  /\ DaemonSpec
  /\ WF_daemonVars(ServeStarts)
  /\ WF_daemonVars(StopAccepting) /\ WF_daemonVars(DrainTimeout) /\ WF_daemonVars(DrainDone)
  /\ WF_daemonVars(CheckServe) /\ WF_daemonVars(ServeAwaited)
  /\ WF_daemonVars(Deregister) /\ WF_daemonVars(Exit)
  /\ \A t \in Tasks : /\ WF_daemonVars(task[t] = "aborting" /\ TaskEnds(t))
                      /\ WF_daemonVars(Join(t))

-----------------------------------------------------------------------------
\* Every variable has its type.
DaemonTypeOK ==
  /\ served \in {"unborn", "spawned", "accepting", "draining", "joining", "ok", "err"}
  /\ task \in [Tasks -> {"absent", "running", "aborting", "finished"}]
  /\ permits \in 0 .. MaxConnections /\ active \in 0 .. MaxConnections
  /\ overload \in 0 .. MaxOverload
  /\ ready \in BOOLEAN /\ listener \in BOOLEAN /\ stop \in BOOLEAN
  /\ main \in Starting \cup {"serving", "stopping", "awaiting", "deregistering", "released",
                            "exited", "failed"}
  /\ registration \in {"none", "lost", "held", "released"} /\ lateHook \in BOOLEAN
  /\ config \in {"tcp", "unix", "replace"} /\ path \in {"none", "file", "stale", "ours", "rival"}
  /\ rival \in {"absent", "removing", "binding", "listening"} /\ removedLive \in BOOLEAN

\* The semaphore and the gauge account for exactly the tasks that are alive, through
\* normal ends, panics, aborts and forced drains (the permit and Active live in the task).
PermitsBalance == /\ active = Cardinality(Live)
                  /\ permits + Cardinality(Live) = MaxConnections

\* /readyz never reports ready when new connections are not served: they wait in the
\* listener until serve starts and are accepted from then on; not ready while draining, nor
\* after an accept error, whichever of main and serve comes first.
ReadyMeansAccepting ==
  ready => /\ ~stop
           /\ served = "spawned" \/ (served = "accepting" /\ listener)

\* Once serve has returned normally every task is gone, so the registration is given back
\* after the last hook; only a failed accept loop can leave one behind.
NoHookAfterDrain == /\ served = "ok" => Live = {}
                    /\ lateHook => served = "err"

\* A shutdown completes: neither a task that never ends nor one that ignores the stop
\* can keep the process alive.
ShutdownCompletes == stop ~> main = "exited"

\* "Bind listeners before registering so a socket problem never leaves a scanner
\* registration behind" (main), whichever step of the start fails; and whoever is
\* registered and alive can be told to stop.
SocketsBeforeRegistration ==
  /\ registration = "held" => served # "unborn"
  /\ main = "failed" => registration # "held"

\* README: "On shutdown, after milter connections have drained, the bridge sends a DELETE
\* to the deregistration endpoint".
ExitReleasesRegistration == main = "exited" => registration # "held"

\* README: --milter-unix-replace-stale removes the path "only when it is a socket that
\* refuses connections".
OnlyRefusingSocketRemoved == ~removedLive
=============================================================================
