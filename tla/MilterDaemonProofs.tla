------------------------- MODULE MilterDaemonProofs -------------------------
(***************************************************************************)
(* Proofs about MilterDaemon, for any set of tasks and any number of       *)
(* permits.  The safety properties of the daemon rest on one another and   *)
(* on LifeCycle, which ties main's place, the state of serve and the       *)
(* flags together; DaemonIInv is their conjunction.                        *)
(***************************************************************************)
EXTENDS MilterDaemon, FiniteSetTheorems, TLAPS

BeforeServe == Starting \cup {"failed"}
Stopped == {"stopping", "awaiting", "deregistering", "released", "exited"}

\* How far main and serve are tells what the flags, the tasks and the registration may
\* be: serve is spawned once main has started up, the token is cancelled once main has
\* left its select, serve ends normally only without tasks, and the registration is
\* given back only after serve has ended.
LifeCycle ==
  /\ main \in BeforeServe <=> served = "unborn"
  /\ main \in Starting => registration = "none"
  /\ main = "failed" => registration \in {"none", "lost"}
  /\ stop <=> main \in Stopped
  /\ served = "unborn" => ~ready /\ Idle = Tasks /\ ~lateHook
  /\ served = "accepting" => listener
  /\ served \in {"draining", "joining", "ok", "err"} => ~ready
  /\ served = "ok" => Idle = Tasks
  /\ main \in {"deregistering", "released", "exited"} => ServeFinished
  /\ registration = "released" => main \in {"released", "exited"}

DaemonIInv ==
  /\ DaemonTypeOK
  /\ PermitsBalance
  /\ ReadyMeansAccepting
  /\ NoHookAfterDrain
  /\ SocketsBeforeRegistration
  /\ LifeCycle

-----------------------------------------------------------------------------
\* The tasks that are alive are finitely many, and counting them gives a number.
LEMMA LiveIsFinite ==
  /\ IsFiniteSet(Live) /\ Cardinality(Live) \in Nat
  /\ Cardinality(Live) = 0 <=> Live = {}
<1>1. Live \in SUBSET Tasks
  BY DEF Live
<1>2. IsFiniteSet(Live)
  BY <1>1, FS_Subset, DaemonAssumption
<1> QED
  BY <1>2, FS_CardinalityType, FS_EmptySet

\* A task that starts is one more alive (Accept's task').
LEMMA LiveGrows ==
  ASSUME DaemonTypeOK, NEW t \in Tasks, task[t] = "absent",
         task' = [task EXCEPT ![t] = "running"]
  PROVE  Cardinality(Live') = Cardinality(Live) + 1
<1>1. Live' = Live \cup {t} /\ t \notin Live
  BY DEF Live, DaemonTypeOK
<1> QED
  BY <1>1, LiveIsFinite, FS_AddElement

\* A task that ends is one fewer (TaskEnds' task').
LEMMA LiveShrinks ==
  ASSUME DaemonTypeOK, NEW t \in Tasks, task[t] \in {"running", "aborting"},
         task' = [task EXCEPT ![t] = "finished"]
  PROVE  Cardinality(Live') = Cardinality(Live) - 1 /\ Cardinality(Live) >= 1
<1>1. Live' = Live \ {t} /\ t \in Live
  BY DEF Live, DaemonTypeOK
<1>2. Cardinality(Live') = Cardinality(Live) - 1
  BY <1>1, LiveIsFinite, FS_RemoveElement
<1>3. Cardinality(Live) # 0
  BY <1>1, LiveIsFinite
<1> QED
  BY <1>2, <1>3, LiveIsFinite

\* abort_all and a dropped JoinSet leave the same tasks alive and the same ones idle.
LEMMA AbortKeepsLive ==
  ASSUME DaemonTypeOK, task' = Abort(task)
  PROVE  /\ task' \in [Tasks -> {"absent", "running", "aborting", "finished"}]
         /\ Live' = Live /\ Idle' = Idle
BY DEF Abort, Live, Idle, DaemonTypeOK

-----------------------------------------------------------------------------
(* The steps of serve. *)

\* A connection that is accepted takes a permit and counts in the gauge.
LEMMA AcceptStep ==
  ASSUME DaemonIInv, NEW t \in Tasks, Accept(t)
  PROVE  DaemonIInv'
<1>1. Cardinality(Live') = Cardinality(Live) + 1
  BY LiveGrows DEF DaemonIInv, Accept
<1>2. task' \in [Tasks -> {"absent", "running", "aborting", "finished"}]
  BY DEF DaemonIInv, DaemonTypeOK, Accept
<1>3. PermitsBalance' /\ permits' \in 0 .. MaxConnections /\ active' \in 0 .. MaxConnections
  BY <1>1, LiveIsFinite, DaemonAssumption
     DEF DaemonIInv, PermitsBalance, DaemonTypeOK, Accept
<1>4. DaemonTypeOK'
  BY <1>2, <1>3 DEF DaemonIInv, DaemonTypeOK, Accept, flags, startup
<1>5. ReadyMeansAccepting' /\ NoHookAfterDrain' /\ SocketsBeforeRegistration' /\ LifeCycle'
  BY DEF DaemonIInv, ReadyMeansAccepting, NoHookAfterDrain, SocketsBeforeRegistration,
         LifeCycle, Accept, flags, startup, ServeFinished
<1> QED
  BY <1>3, <1>4, <1>5 DEF DaemonIInv

\* A task that ends, however it ends, gives back its permit and its share of the gauge.
LEMMA TaskEndsStep ==
  ASSUME DaemonIInv, NEW t \in Tasks, TaskEnds(t)
  PROVE  DaemonIInv'
<1>1. Cardinality(Live') = Cardinality(Live) - 1 /\ Cardinality(Live) >= 1
  BY LiveShrinks DEF DaemonIInv, TaskEnds
<1>2. task' \in [Tasks -> {"absent", "running", "aborting", "finished"}]
  BY DEF DaemonIInv, DaemonTypeOK, TaskEnds
<1>3. PermitsBalance' /\ permits' \in 0 .. MaxConnections /\ active' \in 0 .. MaxConnections
  BY <1>1, LiveIsFinite, DaemonAssumption
     DEF DaemonIInv, PermitsBalance, DaemonTypeOK, TaskEnds
<1>4. DaemonTypeOK'
  BY <1>2, <1>3 DEF DaemonIInv, DaemonTypeOK, TaskEnds, flags, startup
<1>5. served # "ok" /\ served # "unborn"
  BY DEF DaemonIInv, LifeCycle, Idle, TaskEnds, DaemonTypeOK
<1>6. ReadyMeansAccepting' /\ NoHookAfterDrain' /\ SocketsBeforeRegistration' /\ LifeCycle'
  BY <1>5 DEF DaemonIInv, ReadyMeansAccepting, NoHookAfterDrain, SocketsBeforeRegistration,
         LifeCycle, TaskEnds, flags, startup, ServeFinished
<1> QED
  BY <1>3, <1>4, <1>6 DEF DaemonIInv

\* join_next changes which slots are free, not who is alive.
LEMMA JoinStep ==
  ASSUME DaemonIInv, NEW t \in Tasks, Join(t)
  PROVE  DaemonIInv'
<1>1. Live' = Live /\ Idle \subseteq Idle'
  BY DEF Live, Idle, DaemonIInv, DaemonTypeOK, Join
<1>2. PermitsBalance'
  BY <1>1 DEF DaemonIInv, PermitsBalance, Join
<1>3. DaemonTypeOK'
  BY DEF DaemonIInv, DaemonTypeOK, Join, flags, startup
<1>4. Idle = Tasks => Idle' = Tasks
  BY <1>1 DEF Idle
<1>5. ReadyMeansAccepting' /\ NoHookAfterDrain' /\ SocketsBeforeRegistration' /\ LifeCycle'
  BY <1>1, <1>4 DEF DaemonIInv, ReadyMeansAccepting, NoHookAfterDrain,
       SocketsBeforeRegistration,
         LifeCycle, Join, flags, startup, ServeFinished
<1> QED
  BY <1>2, <1>3, <1>5 DEF DaemonIInv

\* A hook sent by a live task after the registration was given back: serve failed.
LEMMA SendHookStep ==
  ASSUME DaemonIInv, NEW t \in Tasks, SendHook(t)
  PROVE  DaemonIInv'
<1>1. Live' = Live /\ Idle' = Idle
  BY DEF Live, Idle, SendHook, tasks
<1>2. served # "ok" /\ served # "unborn"
  BY DEF DaemonIInv, LifeCycle, Idle, SendHook, DaemonTypeOK
<1>3. lateHook' => served = "err"
  BY <1>2 DEF DaemonIInv, LifeCycle, NoHookAfterDrain, SendHook, ServeFinished
<1>4. DaemonTypeOK'
  BY DEF DaemonIInv, DaemonTypeOK, SendHook, flags, startup, tasks
<1>5. PermitsBalance'
  BY <1>1 DEF DaemonIInv, PermitsBalance, SendHook, tasks
<1>6. ReadyMeansAccepting' /\ NoHookAfterDrain' /\ SocketsBeforeRegistration' /\ LifeCycle'
  BY <1>1, <1>2, <1>3 DEF DaemonIInv, ReadyMeansAccepting, NoHookAfterDrain,
         SocketsBeforeRegistration, LifeCycle, SendHook, flags, startup, ServeFinished
<1> QED
  BY <1>4, <1>5, <1>6 DEF DaemonIInv

\* Serve announces its listener when it first runs.
LEMMA ServeStartsStep ==
  ASSUME DaemonIInv, ServeStarts
  PROVE  DaemonIInv'
<1>1. Live' = Live /\ Idle' = Idle
  BY DEF Live, Idle, tasks, ServeStarts
<1>2. DaemonTypeOK'
  BY DEF DaemonIInv, DaemonTypeOK, tasks, flags, startup, Starting, ServeStarts
<1>3. PermitsBalance'
  BY <1>1 DEF DaemonIInv, PermitsBalance, tasks, ServeStarts
<1>4. ReadyMeansAccepting' /\ NoHookAfterDrain' /\ SocketsBeforeRegistration' /\ LifeCycle'
  BY <1>1 DEF DaemonIInv, ReadyMeansAccepting, NoHookAfterDrain, SocketsBeforeRegistration,
         LifeCycle, BeforeServe, Stopped, Starting, ServeFinished, DaemonTypeOK,
         tasks, flags, startup, ServeStarts
<1> QED
  BY <1>2, <1>3, <1>4 DEF DaemonIInv

\* A connection without a permit is counted and dropped.
LEMMA OverloadStep ==
  ASSUME DaemonIInv, Overload
  PROVE  DaemonIInv'
<1>1. Live' = Live /\ Idle' = Idle
  BY DEF Live, Idle, tasks, Overload
<1>2. DaemonTypeOK'
  BY DaemonAssumption DEF DaemonIInv, DaemonTypeOK, tasks, flags, startup, Starting, Overload
<1>3. PermitsBalance'
  BY <1>1 DEF DaemonIInv, PermitsBalance, tasks, Overload
<1>4. ReadyMeansAccepting' /\ NoHookAfterDrain' /\ SocketsBeforeRegistration' /\ LifeCycle'
  BY <1>1 DEF DaemonIInv, ReadyMeansAccepting, NoHookAfterDrain, SocketsBeforeRegistration,
         LifeCycle, BeforeServe, Stopped, Starting, ServeFinished, DaemonTypeOK,
         tasks, flags, startup, Overload
<1> QED
  BY <1>2, <1>3, <1>4 DEF DaemonIInv

\* An accept error ends serve with its tasks aborted but alive.
LEMMA AcceptFailsStep ==
  ASSUME DaemonIInv, AcceptFails
  PROVE  DaemonIInv'
<1>1. task' \in [Tasks -> {"absent", "running", "aborting", "finished"}] /\ Live' = Live /\ Idle' = Idle
  BY AbortKeepsLive DEF DaemonIInv, AcceptFails
<1>2. ready' \in BOOLEAN /\ listener' \in BOOLEAN
  BY Zenon DEF DaemonIInv, DaemonTypeOK, flags, startup, AcceptFails
<1>3. DaemonTypeOK'
  BY <1>1, <1>2 DEF DaemonIInv, DaemonTypeOK, tasks, flags, startup, Starting, AcceptFails,
       CloseListener, Closed
<1>4. PermitsBalance'
  BY <1>1 DEF DaemonIInv, PermitsBalance, tasks, AcceptFails, CloseListener, Closed
<1>5. ReadyMeansAccepting' /\ NoHookAfterDrain' /\ SocketsBeforeRegistration' /\ LifeCycle'
  BY <1>1 DEF DaemonIInv, ReadyMeansAccepting, NoHookAfterDrain, SocketsBeforeRegistration,
         LifeCycle, BeforeServe, Stopped, Starting, ServeFinished, DaemonTypeOK,
         tasks, flags, startup, AcceptFails, CloseListener, Closed
<1> QED
  BY <1>3, <1>4, <1>5 DEF DaemonIInv

\* The drain deadline aborts the tasks and serve waits for them.
LEMMA DrainTimeoutStep ==
  ASSUME DaemonIInv, DrainTimeout
  PROVE  DaemonIInv'
<1>1. task' \in [Tasks -> {"absent", "running", "aborting", "finished"}] /\ Live' = Live /\ Idle' = Idle
  BY AbortKeepsLive DEF DaemonIInv, DrainTimeout
<1>2. DaemonTypeOK'
  BY <1>1 DEF DaemonIInv, DaemonTypeOK, tasks, flags, startup, Starting, DrainTimeout
<1>3. PermitsBalance'
  BY <1>1 DEF DaemonIInv, PermitsBalance, tasks, DrainTimeout
<1>4. ReadyMeansAccepting' /\ NoHookAfterDrain' /\ SocketsBeforeRegistration' /\ LifeCycle'
  BY <1>1 DEF DaemonIInv, ReadyMeansAccepting, NoHookAfterDrain, SocketsBeforeRegistration,
         LifeCycle, BeforeServe, Stopped, Starting, ServeFinished, DaemonTypeOK,
         tasks, flags, startup, DrainTimeout
<1> QED
  BY <1>2, <1>3, <1>4 DEF DaemonIInv

\* The drain begins with the readiness flag and the listener cleared.
LEMMA StopAcceptingStep ==
  ASSUME DaemonIInv, StopAccepting
  PROVE  DaemonIInv'
<1>1. Live' = Live /\ Idle' = Idle
  BY DEF Live, Idle, tasks, StopAccepting
<1>2. ready' \in BOOLEAN /\ listener' \in BOOLEAN
  BY Zenon DEF DaemonIInv, DaemonTypeOK, flags, startup, StopAccepting
<1>3. DaemonTypeOK'
  BY <1>2 DEF DaemonIInv, DaemonTypeOK, tasks, flags, startup, Starting, StopAccepting
<1>4. PermitsBalance'
  BY <1>1 DEF DaemonIInv, PermitsBalance, tasks, StopAccepting
<1>5. ReadyMeansAccepting' /\ NoHookAfterDrain' /\ SocketsBeforeRegistration' /\ LifeCycle'
  BY <1>1 DEF DaemonIInv, ReadyMeansAccepting, NoHookAfterDrain, SocketsBeforeRegistration,
         LifeCycle, BeforeServe, Stopped, Starting, ServeFinished, DaemonTypeOK,
         tasks, flags, startup, StopAccepting
<1> QED
  BY <1>3, <1>4, <1>5 DEF DaemonIInv

\* Serve returns normally only once every slot is idle.
LEMMA DrainDoneStep ==
  ASSUME DaemonIInv, DrainDone
  PROVE  DaemonIInv'
<1>1. Live' = Live /\ Idle' = Idle
  BY DEF Live, Idle, tasks, DrainDone, CloseListener, Closed
<1>2. DaemonTypeOK'
  BY DEF DaemonIInv, DaemonTypeOK, tasks, flags, startup, Starting, DrainDone, CloseListener,
       Closed
<1>3. PermitsBalance'
  BY <1>1 DEF DaemonIInv, PermitsBalance, tasks, DrainDone, CloseListener, Closed
<1>4. Live = {} /\ Idle = Tasks
  BY DEF Live, Idle, DrainDone
<1>5. ReadyMeansAccepting' /\ NoHookAfterDrain' /\ SocketsBeforeRegistration' /\ LifeCycle'
  BY <1>1, <1>4 DEF DaemonIInv, ReadyMeansAccepting, NoHookAfterDrain,
       SocketsBeforeRegistration,
         LifeCycle, BeforeServe, Stopped, Starting, ServeFinished, DaemonTypeOK,
         tasks, flags, startup, DrainDone, CloseListener, Closed
<1> QED
  BY <1>2, <1>3, <1>5 DEF DaemonIInv

-----------------------------------------------------------------------------
(* The steps of main and of the other instance. *)

\* Looking at the path changes only where main is.
LEMMA CheckPathStep ==
  ASSUME DaemonIInv, CheckPath
  PROVE  DaemonIInv'
<1>1. Live' = Live /\ Idle' = Idle
  BY DEF Live, Idle, tasks, CheckPath, Proceed, StartupFails, CloseListener, Closed
<1>2. DaemonTypeOK'
  BY DEF DaemonIInv, DaemonTypeOK, tasks, flags, startup, Starting, CheckPath, Proceed,
       StartupFails, CloseListener, Closed
<1>3. PermitsBalance'
  BY <1>1 DEF DaemonIInv, PermitsBalance, tasks, CheckPath, Proceed, StartupFails,
       CloseListener, Closed
<1>4. ReadyMeansAccepting' /\ NoHookAfterDrain' /\ SocketsBeforeRegistration' /\ LifeCycle'
  BY <1>1 DEF DaemonIInv, ReadyMeansAccepting, NoHookAfterDrain, SocketsBeforeRegistration,
         LifeCycle, BeforeServe, Stopped, Starting, ServeFinished, DaemonTypeOK,
         tasks, flags, startup, CheckPath, Proceed, StartupFails, CloseListener, Closed
<1> QED
  BY <1>2, <1>3, <1>4 DEF DaemonIInv

\* Probing the path decides whether main goes on.
LEMMA ProbeStep ==
  ASSUME DaemonIInv, Probe
  PROVE  DaemonIInv'
<1>1. Live' = Live /\ Idle' = Idle
  BY DEF Live, Idle, tasks, Probe, Proceed, StartupFails, CloseListener, Closed
<1>2. DaemonTypeOK'
  BY DEF DaemonIInv, DaemonTypeOK, tasks, flags, startup, Starting, Probe, Proceed,
       StartupFails, CloseListener, Closed
<1>3. PermitsBalance'
  BY <1>1 DEF DaemonIInv, PermitsBalance, tasks, Probe, Proceed, StartupFails, CloseListener,
       Closed
<1>4. ReadyMeansAccepting' /\ NoHookAfterDrain' /\ SocketsBeforeRegistration' /\ LifeCycle'
  BY <1>1 DEF DaemonIInv, ReadyMeansAccepting, NoHookAfterDrain, SocketsBeforeRegistration,
         LifeCycle, BeforeServe, Stopped, Starting, ServeFinished, DaemonTypeOK,
         tasks, flags, startup, Probe, Proceed, StartupFails, CloseListener, Closed
<1> QED
  BY <1>2, <1>3, <1>4 DEF DaemonIInv

\* The leftover path is removed.
LEMMA RemoveStaleStep ==
  ASSUME DaemonIInv, RemoveStale
  PROVE  DaemonIInv'
<1>1. Live' = Live /\ Idle' = Idle
  BY DEF Live, Idle, tasks, RemoveStale, Proceed, StartupFails, CloseListener, Closed
<1>2. removedLive' \in BOOLEAN
  BY Zenon DEF DaemonIInv, DaemonTypeOK, flags, startup, RemoveStale, StartupFails,
       CloseListener
<1>3. DaemonTypeOK'
  BY <1>2 DEF DaemonIInv, DaemonTypeOK, tasks, flags, startup, Starting, RemoveStale, Proceed,
       StartupFails, CloseListener, Closed
<1>4. PermitsBalance'
  BY <1>1 DEF DaemonIInv, PermitsBalance, tasks, RemoveStale, Proceed, StartupFails,
       CloseListener, Closed
<1>5. ReadyMeansAccepting' /\ NoHookAfterDrain' /\ SocketsBeforeRegistration' /\ LifeCycle'
  BY <1>1 DEF DaemonIInv, ReadyMeansAccepting, NoHookAfterDrain, SocketsBeforeRegistration,
         LifeCycle, BeforeServe, Stopped, Starting, ServeFinished, DaemonTypeOK,
         tasks, flags, startup, RemoveStale, Proceed, StartupFails, CloseListener, Closed
<1> QED
  BY <1>3, <1>4, <1>5 DEF DaemonIInv

\* The milter socket is bound, or main fails.
LEMMA BindSocketStep ==
  ASSUME DaemonIInv, BindSocket
  PROVE  DaemonIInv'
<1>1. Live' = Live /\ Idle' = Idle
  BY DEF Live, Idle, tasks, BindSocket, Proceed, StartupFails, CloseListener, Closed
<1>2. DaemonTypeOK'
  BY DEF DaemonIInv, DaemonTypeOK, tasks, flags, startup, Starting, BindSocket, Proceed,
       StartupFails, CloseListener, Closed
<1>3. PermitsBalance'
  BY <1>1 DEF DaemonIInv, PermitsBalance, tasks, BindSocket, Proceed, StartupFails,
       CloseListener, Closed
<1>4. ReadyMeansAccepting' /\ NoHookAfterDrain' /\ SocketsBeforeRegistration' /\ LifeCycle'
  BY <1>1 DEF DaemonIInv, ReadyMeansAccepting, NoHookAfterDrain, SocketsBeforeRegistration,
         LifeCycle, BeforeServe, Stopped, Starting, ServeFinished, DaemonTypeOK,
         tasks, flags, startup, BindSocket, Proceed, StartupFails, CloseListener, Closed
<1> QED
  BY <1>2, <1>3, <1>4 DEF DaemonIInv

\* The HTTP socket is bound, or main fails.
LEMMA BindHttpStep ==
  ASSUME DaemonIInv, BindHttp
  PROVE  DaemonIInv'
<1>1. Live' = Live /\ Idle' = Idle
  BY DEF Live, Idle, tasks, BindHttp, Proceed, StartupFails, CloseListener, Closed
<1>2. DaemonTypeOK'
  BY DEF DaemonIInv, DaemonTypeOK, tasks, flags, startup, Starting, BindHttp, Proceed,
       StartupFails, CloseListener, Closed
<1>3. PermitsBalance'
  BY <1>1 DEF DaemonIInv, PermitsBalance, tasks, BindHttp, Proceed, StartupFails,
       CloseListener, Closed
<1>4. ReadyMeansAccepting' /\ NoHookAfterDrain' /\ SocketsBeforeRegistration' /\ LifeCycle'
  BY <1>1 DEF DaemonIInv, ReadyMeansAccepting, NoHookAfterDrain, SocketsBeforeRegistration,
         LifeCycle, BeforeServe, Stopped, Starting, ServeFinished, DaemonTypeOK,
         tasks, flags, startup, BindHttp, Proceed, StartupFails, CloseListener, Closed
<1> QED
  BY <1>2, <1>3, <1>4 DEF DaemonIInv

\* A refused registration ends main with none held.
LEMMA RegisterFailsStep ==
  ASSUME DaemonIInv, RegisterFails
  PROVE  DaemonIInv'
<1>1. Live' = Live /\ Idle' = Idle
  BY DEF Live, Idle, tasks, RegisterFails, Proceed, StartupFails, CloseListener, Closed
<1>2. DaemonTypeOK'
  BY DEF DaemonIInv, DaemonTypeOK, tasks, flags, startup, Starting, RegisterFails, Proceed,
       StartupFails, CloseListener, Closed
<1>3. PermitsBalance'
  BY <1>1 DEF DaemonIInv, PermitsBalance, tasks, RegisterFails, Proceed, StartupFails,
       CloseListener, Closed
<1>4. ReadyMeansAccepting' /\ NoHookAfterDrain' /\ SocketsBeforeRegistration' /\ LifeCycle'
  BY <1>1 DEF DaemonIInv, ReadyMeansAccepting, NoHookAfterDrain, SocketsBeforeRegistration,
         LifeCycle, BeforeServe, Stopped, Starting, ServeFinished, DaemonTypeOK,
         tasks, flags, startup, RegisterFails, Proceed, StartupFails, CloseListener, Closed
<1> QED
  BY <1>2, <1>3, <1>4 DEF DaemonIInv

\* Registering is the last step before serve is spawned.
LEMMA RegisterStep ==
  ASSUME DaemonIInv, NEW outcome \in {"none", "held", "lost"}, Register(outcome)
  PROVE  DaemonIInv'
<1>1. Live' = Live /\ Idle' = Idle
  BY DEF Live, Idle, tasks, Register, CloseListener, Closed
<1>2. ready' \in BOOLEAN /\ removedLive' \in BOOLEAN
  BY Zenon DEF DaemonIInv, DaemonTypeOK, flags, startup, Register, CloseListener
<1>3. DaemonTypeOK'
  BY <1>2 DEF DaemonIInv, DaemonTypeOK, tasks, flags, startup, Starting, Register,
       CloseListener, Closed
<1>4. PermitsBalance'
  BY <1>1 DEF DaemonIInv, PermitsBalance, tasks, Register, CloseListener, Closed
<1>5. ReadyMeansAccepting' /\ NoHookAfterDrain' /\ SocketsBeforeRegistration' /\ LifeCycle'
  BY <1>1 DEF DaemonIInv, ReadyMeansAccepting, NoHookAfterDrain, SocketsBeforeRegistration,
         LifeCycle, BeforeServe, Stopped, Starting, ServeFinished, DaemonTypeOK,
         tasks, flags, startup, Register, CloseListener, Closed
<1> QED
  BY <1>3, <1>4, <1>5 DEF DaemonIInv

\* Any reason to stop clears the readiness flag and cancels the token.
LEMMA LeaveSelectStep ==
  ASSUME DaemonIInv, LeaveSelect
  PROVE  DaemonIInv'
<1>1. Live' = Live /\ Idle' = Idle
  BY DEF Live, Idle, tasks, LeaveSelect
<1>2. ready' \in BOOLEAN /\ stop' \in BOOLEAN
  BY Zenon DEF DaemonIInv, DaemonTypeOK, flags, startup, LeaveSelect
<1>3. DaemonTypeOK'
  BY <1>2 DEF DaemonIInv, DaemonTypeOK, tasks, flags, startup, Starting, LeaveSelect
<1>4. PermitsBalance'
  BY <1>1 DEF DaemonIInv, PermitsBalance, tasks, LeaveSelect
<1>5. ReadyMeansAccepting' /\ NoHookAfterDrain' /\ SocketsBeforeRegistration' /\ LifeCycle'
  BY <1>1 DEF DaemonIInv, ReadyMeansAccepting, NoHookAfterDrain, SocketsBeforeRegistration,
         LifeCycle, BeforeServe, Stopped, Starting, ServeFinished, DaemonTypeOK,
         tasks, flags, startup, LeaveSelect
<1> QED
  BY <1>3, <1>4, <1>5 DEF DaemonIInv

\* Main goes on to deregister only if serve has ended.
LEMMA CheckServeStep ==
  ASSUME DaemonIInv, CheckServe
  PROVE  DaemonIInv'
<1>1. Live' = Live /\ Idle' = Idle
  BY DEF Live, Idle, tasks, CheckServe
<1>2. DaemonTypeOK'
  BY DEF DaemonIInv, DaemonTypeOK, tasks, flags, startup, Starting, CheckServe
<1>3. PermitsBalance'
  BY <1>1 DEF DaemonIInv, PermitsBalance, tasks, CheckServe
<1>4. ReadyMeansAccepting' /\ NoHookAfterDrain' /\ SocketsBeforeRegistration' /\ LifeCycle'
  BY <1>1 DEF DaemonIInv, ReadyMeansAccepting, NoHookAfterDrain, SocketsBeforeRegistration,
         LifeCycle, BeforeServe, Stopped, Starting, ServeFinished, DaemonTypeOK,
         tasks, flags, startup, CheckServe
<1> QED
  BY <1>2, <1>3, <1>4 DEF DaemonIInv

\* Main has waited for serve to end.
LEMMA ServeAwaitedStep ==
  ASSUME DaemonIInv, ServeAwaited
  PROVE  DaemonIInv'
<1>1. Live' = Live /\ Idle' = Idle
  BY DEF Live, Idle, tasks, ServeAwaited
<1>2. DaemonTypeOK'
  BY DEF DaemonIInv, DaemonTypeOK, tasks, flags, startup, Starting, ServeAwaited
<1>3. PermitsBalance'
  BY <1>1 DEF DaemonIInv, PermitsBalance, tasks, ServeAwaited
<1>4. ReadyMeansAccepting' /\ NoHookAfterDrain' /\ SocketsBeforeRegistration' /\ LifeCycle'
  BY <1>1 DEF DaemonIInv, ReadyMeansAccepting, NoHookAfterDrain, SocketsBeforeRegistration,
         LifeCycle, BeforeServe, Stopped, Starting, ServeFinished, DaemonTypeOK,
         tasks, flags, startup, ServeAwaited
<1> QED
  BY <1>2, <1>3, <1>4 DEF DaemonIInv

\* The registration is given back after serve has ended.
LEMMA DeregisterStep ==
  ASSUME DaemonIInv, Deregister
  PROVE  DaemonIInv'
<1>1. Live' = Live /\ Idle' = Idle
  BY DEF Live, Idle, tasks, Deregister
<1>2. DaemonTypeOK'
  BY DEF DaemonIInv, DaemonTypeOK, tasks, flags, startup, Starting, Deregister
<1>3. PermitsBalance'
  BY <1>1 DEF DaemonIInv, PermitsBalance, tasks, Deregister
<1>4. ReadyMeansAccepting' /\ NoHookAfterDrain' /\ SocketsBeforeRegistration' /\ LifeCycle'
  BY <1>1 DEF DaemonIInv, ReadyMeansAccepting, NoHookAfterDrain, SocketsBeforeRegistration,
         LifeCycle, BeforeServe, Stopped, Starting, ServeFinished, DaemonTypeOK,
         tasks, flags, startup, Deregister
<1> QED
  BY <1>2, <1>3, <1>4 DEF DaemonIInv

\* The process ends.
LEMMA ExitStep ==
  ASSUME DaemonIInv, Exit
  PROVE  DaemonIInv'
<1>1. Live' = Live /\ Idle' = Idle
  BY DEF Live, Idle, tasks, Exit
<1>2. DaemonTypeOK'
  BY DEF DaemonIInv, DaemonTypeOK, tasks, flags, startup, Starting, Exit
<1>3. PermitsBalance'
  BY <1>1 DEF DaemonIInv, PermitsBalance, tasks, Exit
<1>4. ReadyMeansAccepting' /\ NoHookAfterDrain' /\ SocketsBeforeRegistration' /\ LifeCycle'
  BY <1>1 DEF DaemonIInv, ReadyMeansAccepting, NoHookAfterDrain, SocketsBeforeRegistration,
         LifeCycle, BeforeServe, Stopped, Starting, ServeFinished, DaemonTypeOK,
         tasks, flags, startup, Exit
<1> QED
  BY <1>2, <1>3, <1>4 DEF DaemonIInv

\* The other instance finds a path nobody listens on.
LEMMA RivalProbesStep ==
  ASSUME DaemonIInv, RivalProbes
  PROVE  DaemonIInv'
<1>1. Live' = Live /\ Idle' = Idle
  BY DEF Live, Idle, tasks, RivalProbes, Rival
<1>2. DaemonTypeOK'
  BY DEF DaemonIInv, DaemonTypeOK, tasks, flags, startup, Starting, RivalProbes, Rival
<1>3. PermitsBalance'
  BY <1>1 DEF DaemonIInv, PermitsBalance, tasks, RivalProbes, Rival
<1>4. ReadyMeansAccepting' /\ NoHookAfterDrain' /\ SocketsBeforeRegistration' /\ LifeCycle'
  BY <1>1 DEF DaemonIInv, ReadyMeansAccepting, NoHookAfterDrain, SocketsBeforeRegistration,
         LifeCycle, BeforeServe, Stopped, Starting, ServeFinished, DaemonTypeOK,
         tasks, flags, startup, RivalProbes, Rival
<1> QED
  BY <1>2, <1>3, <1>4 DEF DaemonIInv

\* The other instance removes the path.
LEMMA RivalRemovesStep ==
  ASSUME DaemonIInv, RivalRemoves
  PROVE  DaemonIInv'
<1>1. Live' = Live /\ Idle' = Idle
  BY DEF Live, Idle, tasks, RivalRemoves, Rival
<1>2. DaemonTypeOK'
  BY DEF DaemonIInv, DaemonTypeOK, tasks, flags, startup, Starting, RivalRemoves, Rival
<1>3. PermitsBalance'
  BY <1>1 DEF DaemonIInv, PermitsBalance, tasks, RivalRemoves, Rival
<1>4. ReadyMeansAccepting' /\ NoHookAfterDrain' /\ SocketsBeforeRegistration' /\ LifeCycle'
  BY <1>1 DEF DaemonIInv, ReadyMeansAccepting, NoHookAfterDrain, SocketsBeforeRegistration,
         LifeCycle, BeforeServe, Stopped, Starting, ServeFinished, DaemonTypeOK,
         tasks, flags, startup, RivalRemoves, Rival
<1> QED
  BY <1>2, <1>3, <1>4 DEF DaemonIInv

\* The other instance binds the path.
LEMMA RivalBindsStep ==
  ASSUME DaemonIInv, RivalBinds
  PROVE  DaemonIInv'
<1>1. Live' = Live /\ Idle' = Idle
  BY DEF Live, Idle, tasks, RivalBinds, Rival
<1>2. DaemonTypeOK'
  BY DEF DaemonIInv, DaemonTypeOK, tasks, flags, startup, Starting, RivalBinds, Rival
<1>3. PermitsBalance'
  BY <1>1 DEF DaemonIInv, PermitsBalance, tasks, RivalBinds, Rival
<1>4. ReadyMeansAccepting' /\ NoHookAfterDrain' /\ SocketsBeforeRegistration' /\ LifeCycle'
  BY <1>1 DEF DaemonIInv, ReadyMeansAccepting, NoHookAfterDrain, SocketsBeforeRegistration,
         LifeCycle, BeforeServe, Stopped, Starting, ServeFinished, DaemonTypeOK,
         tasks, flags, startup, RivalBinds, Rival
<1> QED
  BY <1>2, <1>3, <1>4 DEF DaemonIInv

\* The other instance ends.
LEMMA RivalEndsStep ==
  ASSUME DaemonIInv, RivalEnds
  PROVE  DaemonIInv'
<1>1. Live' = Live /\ Idle' = Idle
  BY DEF Live, Idle, tasks, RivalEnds, Rival
<1>2. DaemonTypeOK'
  BY DEF DaemonIInv, DaemonTypeOK, tasks, flags, startup, Starting, RivalEnds, Rival
<1>3. PermitsBalance'
  BY <1>1 DEF DaemonIInv, PermitsBalance, tasks, RivalEnds, Rival
<1>4. ReadyMeansAccepting' /\ NoHookAfterDrain' /\ SocketsBeforeRegistration' /\ LifeCycle'
  BY <1>1 DEF DaemonIInv, ReadyMeansAccepting, NoHookAfterDrain, SocketsBeforeRegistration,
         LifeCycle, BeforeServe, Stopped, Starting, ServeFinished, DaemonTypeOK,
         tasks, flags, startup, RivalEnds, Rival
<1> QED
  BY <1>2, <1>3, <1>4 DEF DaemonIInv

-----------------------------------------------------------------------------
\* The invariant holds when main starts.
LEMMA DaemonStarts == DaemonInit => DaemonIInv
<1> SUFFICES ASSUME DaemonInit PROVE DaemonIInv
  OBVIOUS
<1>1. Idle = Tasks /\ Live = {}
  BY DEF DaemonInit, Idle, Live
<1>2. DaemonTypeOK
  <2>1. ready \in BOOLEAN /\ listener \in BOOLEAN /\ stop \in BOOLEAN /\ lateHook \in BOOLEAN
        /\ removedLive \in BOOLEAN
    BY Zenon DEF DaemonInit
  <2> QED
    BY <2>1, DaemonAssumption DEF DaemonInit, DaemonTypeOK, Starting
<1>3. PermitsBalance
  BY <1>1, FS_EmptySet, DaemonAssumption DEF DaemonInit, PermitsBalance
<1>4. ReadyMeansAccepting /\ NoHookAfterDrain /\ SocketsBeforeRegistration
  BY DEF DaemonInit, ReadyMeansAccepting, NoHookAfterDrain, SocketsBeforeRegistration
<1>5. LifeCycle
  BY <1>1 DEF DaemonInit, LifeCycle, BeforeServe, Stopped, Starting, ServeFinished
<1> QED
  BY <1>2, <1>3, <1>4, <1>5 DEF DaemonIInv

\* Every step of serve, of main and of the other instance preserves it.
LEMMA DaemonStep == DaemonIInv /\ [DaemonNext]_daemonVars => DaemonIInv'
<1> SUFFICES ASSUME DaemonIInv, [DaemonNext]_daemonVars PROVE DaemonIInv'
  OBVIOUS
<1>1. CASE Startup
  BY <1>1, CheckPathStep, ProbeStep, RemoveStaleStep, BindSocketStep, BindHttpStep,
     RegisterFailsStep, RegisterStep DEF Startup
<1>2. CASE Serve
  BY <1>2, AcceptStep, TaskEndsStep, JoinStep, SendHookStep, ServeStartsStep, OverloadStep,
     AcceptFailsStep, StopAcceptingStep, DrainDoneStep, DrainTimeoutStep DEF Serve
<1>3. CASE Main
  BY <1>3, LeaveSelectStep, CheckServeStep, ServeAwaitedStep, DeregisterStep, ExitStep DEF Main
<1>4. CASE Other
  BY <1>4, RivalProbesStep, RivalRemovesStep, RivalBindsStep, RivalEndsStep DEF Other
<1>5. CASE UNCHANGED daemonVars
  <2>1. Live' = Live /\ Idle' = Idle
    BY <1>5 DEF Live, Idle, daemonVars, tasks
  <2>2. DaemonTypeOK' /\ PermitsBalance'
    BY <1>5, <2>1 DEF DaemonIInv, DaemonTypeOK, PermitsBalance, daemonVars, tasks, flags, startup
  <2>3. ReadyMeansAccepting' /\ NoHookAfterDrain' /\ SocketsBeforeRegistration' /\ LifeCycle'
    BY <1>5, <2>1 DEF DaemonIInv, ReadyMeansAccepting, NoHookAfterDrain,
       SocketsBeforeRegistration, LifeCycle, ServeFinished, daemonVars, tasks, flags, startup
  <2> QED
    BY <2>2, <2>3 DEF DaemonIInv
<1> QED
  BY <1>1, <1>2, <1>3, <1>4, <1>5 DEF DaemonNext

\* The inductive invariant holds in every reachable state of the daemon.
THEOREM DaemonInvariant == DaemonSpec => []DaemonIInv
BY DaemonStarts, DaemonStep, PTL DEF DaemonSpec

\* Types: in particular the semaphore never goes below zero or above max_connections
\* (serve, try_acquire_owned).
THEOREM DaemonTypeCorrect == DaemonSpec => []DaemonTypeOK
<1>1. DaemonIInv => DaemonTypeOK
  BY DEF DaemonIInv
<1> QED
  BY <1>1, DaemonInvariant, PTL

\* Permits and the active gauge account for exactly the live tasks, for any number of
\* tasks and permits, through panics, aborts and forced drains (serve).
THEOREM PermitsAreBalanced == DaemonSpec => []PermitsBalance
<1>1. DaemonIInv => PermitsBalance
  BY DEF DaemonIInv
<1> QED
  BY <1>1, DaemonInvariant, PTL

\* /readyz reports ready only while new connections are served (serve, main).
THEOREM ReadyIsHonest == DaemonSpec => []ReadyMeansAccepting
<1>1. DaemonIInv => ReadyMeansAccepting
  BY DEF DaemonIInv
<1> QED
  BY <1>1, DaemonInvariant, PTL

\* After a normal drain no task is left that could send a hook (serve, main).
THEOREM DrainLeavesNoHook == DaemonSpec => []NoHookAfterDrain
<1>1. DaemonIInv => NoHookAfterDrain
  BY DEF DaemonIInv
<1> QED
  BY <1>1, DaemonInvariant, PTL

\* Whichever step of the start fails, no registration is left behind (main).
THEOREM FailedStartLeavesNothing == DaemonSpec => []SocketsBeforeRegistration
<1>1. DaemonIInv => SocketsBeforeRegistration
  BY DEF DaemonIInv
<1> QED
  BY <1>1, DaemonInvariant, PTL
=============================================================================
