----------------------------- MODULE HooksClient -----------------------------
(***************************************************************************)
(* The HTTP policy client (src/src/hooks.rs, HooksClient): concurrent hook *)
(* invocations that share one cached scanner registration behind an async  *)
(* mutex, recover once from a forgotten registration, retry transient      *)
(* failures and may be cancelled by their deadline at every await.         *)
(*                                                                         *)
(* An invocation is one evaluate() call.  The scanner is outside the       *)
(* repository: it issues registrations, forgets them when they expire or   *)
(* when it restarts, answers 404/410 to a registration it does not know,   *)
(* and may fail or lose an answer.  Ids are numbers in order of issue.     *)
(***************************************************************************)
EXTENDS Integers, Sequences, FiniteSets

CONSTANTS
  Invocations,    \* concurrent callers of evaluate()
  Retries,        \* HooksOptions.retries
  MaxIds,         \* bound: registrations the scanner issues
  MaxRestarts     \* bound: scanner restarts

Nobody == "nobody"

ASSUME ClientAssumption ==
  /\ IsFiniteSet(Invocations) /\ Nobody \notin Invocations
  /\ Retries \in Nat /\ MaxIds \in Nat \ {0} /\ MaxRestarts \in Nat

(***************************************************************************)
(* A registration is its id and what is left of its life: "never" expires, *)
(* "fresh", "near" (at most five seconds left) or "expired".               *)
(***************************************************************************)
Lives == {"never", "fresh", "near", "expired"}
NoRegistration == [id |-> 0, life |-> "never"]
Registrations == [id : 0 .. MaxIds, life : Lives]

VARIABLES
  phase,      \* starting, up, closing, closed, failed
  cached,     \* the content of the registration mutex
  holder,     \* who holds the mutex, or "nobody"
  queue,      \* who waits for it, in order
  gauge,      \* OperationStats.active of the operations an invocation is observed in
  pc,         \* where each invocation is
  reg,        \* the registration id it works with
  body,       \* its request, as the registration whose properties it was built from
  recovered,  \* it has used its one recovery
  retries,    \* retries used
  attempts,   \* history: hooks it posted
  known,      \* ids the scanner knows
  issued,     \* ids issued so far
  restarts,   \* scanner restarts so far
  refused,    \* history: ids the scanner answered 404 or 410 to
  causes      \* history: events that make one more registration necessary

mutex == <<holder, queue>>
locals == <<reg, body, recovered, retries, attempts>>
scanner == <<known, issued, restarts>>
history == <<refused, causes>>
hooksVars == <<phase, cached, mutex, gauge, pc, locals, scanner, history>>

Waiting == {"want", "wantClear"}             \* awaiting the mutex
Holding == {"check", "registering", "clear"} \* holding it
Awaiting == Waiting \cup {"registering", "hook", "backoff"}  \* where a deadline can strike
Places == Awaiting \cup Holding \cup {"idle", "relock", "request"}

-----------------------------------------------------------------------------
(* Stats: an Observation counts in its gauge from begin until it is dropped, by finish *)
(* or with the future that owns it.                                                  *)

Operations == {"registration_wait", "registration", "hook"}
Begin(g, op) == [g EXCEPT ![op] = @ + 1]
Drop(g, op) == [g EXCEPT ![op] = @ - 1]

-----------------------------------------------------------------------------
(* The mutex: tokio's is fair, a release hands it to the first waiter. *)

Lock(p) == IF holder = Nobody
           THEN holder' = p /\ UNCHANGED queue
           ELSE queue' = Append(queue, p) /\ UNCHANGED holder

Release == IF queue = <<>>
           THEN holder' = Nobody /\ UNCHANGED queue
           ELSE holder' = Head(queue) /\ queue' = Tail(queue)

\* Its place in the queue is given up.
Without(p) == IF \E i \in 1 .. Len(queue) : queue[i] = p
              THEN LET i == CHOOSE i \in 1 .. Len(queue) : queue[i] = p
                   IN SubSeq(queue, 1, i - 1) \o SubSeq(queue, i + 1, Len(queue))
              ELSE queue

\* registration_lock observes the wait, if there is one.
Waits(g) == IF holder = Nobody THEN g ELSE Begin(g, "registration_wait")

\* A guard or a queued lock future that is dropped.
Cancel(p) == IF holder = p THEN Release
             ELSE queue' = Without(p) /\ UNCHANGED holder

Goto(p, where) == pc' = [pc EXCEPT ![p] = where]

\* The future is finished or dropped, its local variables with it.
Ends(p) ==
  /\ Goto(p, "idle")
  /\ reg' = [reg EXCEPT ![p] = 0] /\ body' = [body EXCEPT ![p] = 0]
  /\ recovered' = [recovered EXCEPT ![p] = FALSE] /\ retries' = [retries EXCEPT ![p] = 0]
  /\ attempts' = [attempts EXCEPT ![p] = 0]

-----------------------------------------------------------------------------
(* with_options: the first registration. *)

StartupRegisters(life) ==
  /\ phase = "starting" /\ issued < MaxIds
  /\ issued' = issued + 1
  /\ known' = known \cup {issued'}
  /\ IF life = "expired"
     THEN phase' = "failed" /\ UNCHANGED cached
     ELSE phase' = "up" /\ cached' = [id |-> issued', life |-> life]
  /\ causes' = causes + (IF life = "near" THEN 1 ELSE 0)
  /\ UNCHANGED <<mutex, gauge, pc, locals, restarts, refused>>

\* A transient failure is retried; the scanner may have registered us all the same.
StartupRetries ==
  /\ phase = "starting" /\ issued < MaxIds
  /\ issued' = issued + 1
  /\ known' = known \cup {issued'}
  /\ causes' = causes + 1
  /\ UNCHANGED <<phase, cached, mutex, gauge, pc, locals, restarts, refused>>

StartupFails ==
  /\ phase = "starting"
  /\ phase' = "failed"
  /\ UNCHANGED <<cached, mutex, gauge, pc, locals, scanner, history>>

-----------------------------------------------------------------------------
(* invoke *)

\* evaluate() is called; the first thing it does is registered().
Invoke(p) ==
  /\ phase = "up" /\ pc[p] = "idle"
  /\ Lock(p)
  /\ Goto(p, IF holder = Nobody THEN "check" ELSE "want")
  /\ gauge' = Waits(gauge)
  /\ UNCHANGED <<phase, cached, locals, scanner, history>>

\* Fault: whoever had to wait for the mutex registers without looking at the cache again.
GrantedRegisters(p) ==
  /\ holder = p /\ pc[p] \in Waiting
  /\ Goto(p, IF pc[p] = "want" THEN "registering" ELSE "clear")
  /\ gauge' = IF pc[p] = "want" THEN Begin(Drop(gauge, "registration_wait"), "registration")
              ELSE Drop(gauge, "registration_wait")
  /\ UNCHANGED <<phase, cached, mutex, locals, scanner, history>>

\* The mutex was handed over.
Granted(p) ==
  /\ holder = p /\ pc[p] \in Waiting
  /\ Goto(p, IF pc[p] = "want" THEN "check" ELSE "clear")
  /\ gauge' = Drop(gauge, "registration_wait")
  /\ UNCHANGED <<phase, cached, mutex, locals, scanner, history>>

Usable(r) == r.id # 0 /\ r.life \in {"never", "fresh"}

Obtain(p, id) ==
  /\ Goto(p, "request")
  /\ reg' = [reg EXCEPT ![p] = id]
  /\ UNCHANGED <<body, recovered, retries, attempts>>

\* registered(): a usable registration is shared, otherwise register() runs under the lock.
CheckCache(p) ==
  /\ pc[p] = "check"
  /\ \/ Usable(cached) /\ Obtain(p, cached.id) /\ Release /\ UNCHANGED gauge
     \/ /\ ~Usable(cached) /\ Goto(p, "registering")
        /\ gauge' = Begin(gauge, "registration")
        /\ UNCHANGED <<locals, mutex>>
  /\ UNCHANGED <<phase, cached, scanner, history>>

\* The scanner registers us and register() accepts the answer, unless it is already expired.
Registered(p, life) ==
  /\ pc[p] = "registering" /\ issued < MaxIds
  /\ issued' = issued + 1
  /\ known' = known \cup {issued'}
  /\ Release
  /\ gauge' = Drop(gauge, "registration")
  /\ IF life = "expired"
     THEN Ends(p) /\ UNCHANGED cached
     ELSE cached' = [id |-> issued', life |-> life] /\ Obtain(p, issued')
  /\ causes' = causes + (IF life \in {"near", "expired"} THEN 1 ELSE 0)
  /\ UNCHANGED <<phase, restarts, refused>>

\* register() fails, the scanner having issued a registration (lost) or not: so does the
\* invocation.
RegisterFails(p, lost) ==
  /\ pc[p] = "registering"
  /\ lost => issued < MaxIds
  /\ issued' = issued + (IF lost THEN 1 ELSE 0)
  /\ known' = IF lost THEN known \cup {issued'} ELSE known
  /\ causes' = causes + (IF lost THEN 1 ELSE 0)
  /\ Release
  /\ gauge' = Drop(gauge, "registration")
  /\ Ends(p)
  /\ UNCHANGED <<phase, cached, restarts, refused>>

PostHook(p) ==
  /\ Goto(p, "hook")
  /\ attempts' = [attempts EXCEPT ![p] = @ + 1]
  /\ gauge' = Begin(gauge, "hook")

\* Fault: the request that was built first is sent to every registration.
BuildOnce(p) ==
  /\ pc[p] = "request"
  /\ body' = IF recovered[p] THEN body ELSE [body EXCEPT ![p] = reg[p]]
  /\ PostHook(p)
  /\ UNCHANGED <<phase, cached, mutex, reg, recovered, retries, scanner, history>>

\* The request is built from the properties of this registration, and posted.
BuildRequest(p) ==
  /\ pc[p] = "request"
  /\ body' = [body EXCEPT ![p] = reg[p]]
  /\ PostHook(p)
  /\ UNCHANGED <<phase, cached, mutex, reg, recovered, retries, scanner, history>>

\* Something of the session cannot be projected.
RequestFails(p) ==
  /\ pc[p] = "request"
  /\ Ends(p)
  /\ UNCHANGED <<phase, cached, mutex, gauge, scanner, history>>

\* 200, 204 or an error that is final.
HookEnds(p) ==
  /\ pc[p] = "hook"
  /\ Ends(p)
  /\ gauge' = Drop(gauge, "hook")
  /\ UNCHANGED <<phase, cached, mutex, scanner, history>>

Recover(p) ==
  /\ recovered' = [recovered EXCEPT ![p] = TRUE]
  /\ Lock(p)
  /\ Goto(p, IF holder = Nobody THEN "clear" ELSE "wantClear")
  /\ gauge' = Waits(Drop(gauge, "hook"))
  /\ UNCHANGED <<reg, body, retries, attempts>>

\* Fault: every 404 is recovered from, not only the first.
RecoverEveryTime(p) ==
  /\ pc[p] = "hook" /\ reg[p] \notin known
  /\ refused' = refused \cup {reg[p]}
  /\ Recover(p)
  /\ UNCHANGED <<phase, cached, scanner, causes>>

\* 404 or 410: recover once, by way of the mutex; a second one is final.
HookRefused(p) ==
  /\ pc[p] = "hook" /\ reg[p] \notin known
  /\ refused' = refused \cup {reg[p]}
  /\ \/ ~recovered[p] /\ Recover(p)
     \/ recovered[p] /\ Ends(p) /\ gauge' = Drop(gauge, "hook") /\ UNCHANGED mutex
  /\ UNCHANGED <<phase, cached, scanner, causes>>

\* Fault: whatever is cached is dropped, a newer registration included.
ClearAnything(p) ==
  /\ pc[p] = "clear"
  /\ cached' = NoRegistration
  /\ Release
  /\ Goto(p, "relock")
  /\ UNCHANGED <<phase, gauge, locals, scanner, history>>

\* Fault: the refused registration stays in the cache.
ClearNothing(p) ==
  /\ pc[p] = "clear"
  /\ Release
  /\ Goto(p, "relock")
  /\ UNCHANGED <<phase, cached, gauge, locals, scanner, history>>

\* The registration that was refused is dropped, a newer one is kept.
ClearRefused(p) ==
  /\ pc[p] = "clear"
  /\ cached' = IF cached.id = reg[p] THEN NoRegistration ELSE cached
  /\ Release
  /\ Goto(p, "relock")
  /\ UNCHANGED <<phase, gauge, locals, scanner, history>>

\* Between dropping the guard and registered() another caller may have come first.
Relock(p) ==
  /\ pc[p] = "relock"
  /\ Lock(p)
  /\ Goto(p, IF holder = Nobody THEN "check" ELSE "want")
  /\ gauge' = Waits(gauge)
  /\ UNCHANGED <<phase, cached, locals, scanner, history>>

\* Fault: one retry too many.
RetryOffByOne(p) ==
  /\ pc[p] = "hook"
  /\ retries[p] <= Retries
  /\ retries' = [retries EXCEPT ![p] = @ + 1]
  /\ Goto(p, "backoff")
  /\ gauge' = Drop(gauge, "hook")
  /\ UNCHANGED <<phase, cached, mutex, reg, body, recovered, attempts, scanner, history>>

\* 429, 5xx or a failed connect: back off, if a retry and the time for it are left.
HookTransient(p) ==
  /\ pc[p] = "hook"
  /\ retries[p] < Retries
  /\ retries' = [retries EXCEPT ![p] = @ + 1]
  /\ Goto(p, "backoff")
  /\ gauge' = Drop(gauge, "hook")
  /\ UNCHANGED <<phase, cached, mutex, reg, body, recovered, attempts, scanner, history>>

\* The pause is over: the same request goes to the same registration.
Retry(p) ==
  /\ pc[p] = "backoff"
  /\ PostHook(p)
  /\ UNCHANGED <<phase, cached, mutex, reg, body, recovered, retries, scanner, history>>

\* The observations a future owns at the await it is in.
Observed(place) == CASE place \in Waiting -> {"registration_wait"}
                     [] place = "registering" -> {"registration"}
                     [] place = "hook" -> {"hook"}
                     [] OTHER -> {}

Cancelled(p) == [op \in Operations |-> gauge[op] - (IF op \in Observed(pc[p]) THEN 1 ELSE 0)]

\* Fault: a cancelled invocation takes the mutex with it.
DeadlineKeepsLock(p) ==
  /\ pc[p] \in Awaiting
  /\ Ends(p)
  /\ gauge' = Cancelled(p)
  /\ UNCHANGED <<phase, cached, mutex, scanner, history>>

\* Fault: only finish releases the gauge.
DeadlineKeepsGauge(p) ==
  /\ pc[p] \in Awaiting
  /\ Cancel(p)
  /\ Ends(p)
  /\ UNCHANGED <<phase, cached, gauge, scanner, history>>

\* timeout(self.timeout, invoke) fires: the future is dropped at the await it is in, the
\* guard or the place in the queue with it, and the observation.  A registration under
\* way may still reach the scanner.
Deadline(p) ==
  /\ pc[p] \in Awaiting
  /\ Cancel(p)
  /\ Ends(p)
  /\ gauge' = Cancelled(p)
  /\ \/ UNCHANGED <<scanner, causes>>
     \/ /\ pc[p] = "registering" /\ issued < MaxIds
        /\ issued' = issued + 1
        /\ known' = known \cup {issued'}
        /\ causes' = causes + 1
        /\ UNCHANGED restarts
  /\ UNCHANGED <<phase, cached, refused>>

-----------------------------------------------------------------------------
(* deregister, called once the connections have drained. *)

Close ==
  /\ phase = "up" /\ \A p \in Invocations : pc[p] = "idle"
  /\ phase' = "closing"
  /\ UNCHANGED <<cached, mutex, gauge, pc, locals, scanner, history>>

\* The registration is taken out of the cache and deleted at the scanner; a failure is
\* reported and changes nothing.
Deregister(succeeds) ==
  /\ phase = "closing"
  /\ phase' = "closed"
  /\ cached' = NoRegistration
  /\ known' = IF succeeds THEN known \ {cached.id} ELSE known
  /\ UNCHANGED <<mutex, gauge, pc, locals, issued, restarts, history>>

-----------------------------------------------------------------------------
(* Time and the scanner. *)

\* Time passes for the cached registration; the scanner forgets it when it expires.
Age ==
  /\ cached.id # 0 /\ cached.life \in {"fresh", "near"}
  /\ cached' = [cached EXCEPT !.life = IF @ = "fresh" THEN "near" ELSE "expired"]
  /\ known' = IF cached.life = "near" THEN known \ {cached.id} ELSE known
  /\ causes' = causes + (IF cached.life = "fresh" THEN 1 ELSE 0)
  /\ UNCHANGED <<phase, mutex, gauge, pc, locals, issued, restarts, refused>>

Restart ==
  /\ restarts < MaxRestarts /\ known # {}
  /\ restarts' = restarts + 1
  /\ known' = {}
  /\ causes' = causes + 1
  /\ UNCHANGED <<phase, cached, mutex, gauge, pc, locals, issued, refused>>

-----------------------------------------------------------------------------
HooksInit ==
  /\ phase = "starting" /\ cached = NoRegistration
  /\ holder = Nobody /\ queue = <<>>
  /\ pc = [p \in Invocations |-> "idle"]
  /\ reg = [p \in Invocations |-> 0] /\ body = [p \in Invocations |-> 0]
  /\ recovered = [p \in Invocations |-> FALSE]
  /\ retries = [p \in Invocations |-> 0]
  /\ gauge = [op \in Operations |-> 0]
  /\ known = {} /\ issued = 0 /\ restarts = 0
  /\ attempts = [p \in Invocations |-> 0]
  /\ refused = {} /\ causes = 0

\* What an invocation does by itself or on an answer; reqwest's own timeout turns a
\* missing answer into a failure.
Step(p) ==
  \/ Granted(p) \/ CheckCache(p) \/ HookEnds(p) \/ HookRefused(p) \/ HookTransient(p)
  \/ BuildRequest(p) \/ RequestFails(p) \/ ClearRefused(p) \/ Relock(p) \/ Retry(p)
  \/ \E life \in Lives : Registered(p, life)
  \/ \E lost \in BOOLEAN : RegisterFails(p, lost)

HooksNext ==
  \/ StartupRetries \/ StartupFails \/ Close \/ Age \/ Restart
  \/ \E life \in Lives : StartupRegisters(life)
  \/ \E ok \in BOOLEAN : Deregister(ok)
  \/ \E p \in Invocations : Invoke(p) \/ Step(p) \/ Deadline(p)

HooksSpec == HooksInit /\ [][HooksNext]_hooksVars
FairHooksSpec == HooksSpec /\ \A p \in Invocations : WF_hooksVars(Step(p))

-----------------------------------------------------------------------------
\* Every variable has its type.
HooksTypeOK ==
  /\ phase \in {"starting", "up", "closing", "closed", "failed"}
  /\ cached \in Registrations
  /\ holder \in Invocations \cup {Nobody}
  /\ queue \in Seq(Invocations)
  /\ pc \in [Invocations -> Places]
  /\ reg \in [Invocations -> 0 .. MaxIds] /\ body \in [Invocations -> 0 .. MaxIds]
  /\ recovered \in [Invocations -> BOOLEAN]
  /\ retries \in [Invocations -> 0 .. Retries] /\ gauge \in [Operations -> Nat]
  /\ known \subseteq 1 .. MaxIds /\ issued \in 0 .. MaxIds /\ restarts \in 0 .. MaxRestarts
  /\ attempts \in [Invocations -> Nat]
  /\ refused \subseteq 1 .. MaxIds /\ causes \in Nat

\* The mutex is never lost and never held by a call that ended, also when a deadline
\* drops a future that holds it or waits for it: whoever waits is queued once behind a
\* holder that is in its critical section or about to enter it.
LockConsistent ==
  /\ holder = Nobody => queue = <<>>
  /\ \A p \in Invocations :
       /\ pc[p] \in Holding => holder = p
       /\ holder = p => pc[p] \in Holding \cup Waiting
       /\ pc[p] \in Waiting =>
            holder = p \/ Cardinality({i \in DOMAIN queue : queue[i] = p}) = 1
       /\ pc[p] \notin Waiting => \A i \in DOMAIN queue : queue[i] # p

\* After its recovery an invocation never goes back to a registration that the scanner
\* refused to it (invoke, "One recovery attempt").
RecoveryUsesAnother ==
  [][\A p \in Invocations :
       pc[p] \in {"check", "registering"} /\ pc'[p] = "request" /\ recovered[p] =>
         reg'[p] # reg[p]]_hooksVars

\* A registration is dropped from the cache only when the scanner refused that very
\* registration, or at deregistration: a late 404 for an old one never discards its
\* replacement.
OnlyRefusedIsDropped ==
  [][cached.id # 0 /\ cached'.id = 0 => cached.id \in refused \/ phase = "closing"]_hooksVars

\* A request carries the properties that were negotiated with the registration it is sent
\* to, also after a recovery gave the invocation another one (invoke builds it again).
RequestMatchesRegistration == \A p \in Invocations : pc[p] \in {"hook", "backoff"} => body[p] = reg[p]

\* The gauges count exactly the invocations that wait, register or have a hook under way,
\* wherever a deadline drops them (stats.rs: "Dropped futures still release their gauge").
GaugesBalance ==
  \A op \in Operations : gauge[op] = Cardinality({p \in Invocations : op \in Observed(pc[p])})

\* One invocation posts its request at most once per retry and recovery.
BoundedAttempts == \A p \in Invocations : attempts[p] <= Retries + 2

\* Invocations share a registration: however many of them find it gone at once, the
\* scanner is asked for one registration per event that makes one necessary (a restart,
\* an expiry, an answer that was lost, unusable or nearly expired).
NoRegistrationHerd == issued <= 1 + causes

\* Every invocation ends, also without its deadline: nobody waits for the mutex for ever.
InvocationEnds == \A p \in Invocations : pc[p] # "idle" ~> pc[p] = "idle"
=============================================================================
