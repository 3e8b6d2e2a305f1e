# A TLA+ model of mta-hooks-milter

mta-hooks-milter is a daemon between an MTA and a mail scanner. The MTA speaks
the milter protocol (version 6) to it over a socket; the daemon keeps the state
of the SMTP conversation, asks a *policy* for a decision at the stages the policy
subscribed to, and turns the decision into milter reply frames. The production
policy is an HTTP client that registers with a scanner and posts hooks to it.

This directory models that control flow in TLA+, checks it with TLC on small
instances and proves with TLAPS, for all instances, nearly all of the safety
properties of the session, the connection, the hooks client, the daemon and the hook
request, and the first ones of the response translation.

## The system

| Part (source) | State | Operations | Module |
|---|---|---|---|
| Session (`src/session.rs`) | protocol state, negotiated options, connection and HELO metadata, current message with its byte counts, active and waiting macro batches, pending callback | `receive` (one case per command), `complete` (one per verdict) | `MilterSession` |
| Modifications (`src/protocol.rs`) | none | `capability`, `payload_bytes`, `frames` | `MilterModifications` |
| Connection driver (`src/server.rs`, `handle_connection`, `evaluate_with_progress`, `read_next_frame`) | place in its loop, frames still to be written | read a frame, run the callback with keepalives and a deadline, fall back, write, stop | `MilterConnection` |
| Accept loop (`src/server.rs`, `serve`) | semaphore, JoinSet, gauges, readiness | accept, refuse on overload, join, drain, abort | `MilterDaemon` |
| Process (`src/main.rs`) | sockets, cancellation token, task handles | replace a stale socket, bind, register, wait for a reason to stop, stop, await, deregister, exit | `MilterDaemon` |
| Hooks client (`src/hooks.rs`) | cached registration behind an async mutex; per invocation: registration, retry and recovery state | `registered`, `register`, `invoke`, `hook`, `deregister`, startup loop | `HooksClient` |
| Frame codec and `Command::decode` (`src/protocol.rs`) | none | decode, encode | abstracted (see *Not modelled*) |
| Hook request (`src/hooks.rs`, `request`) | none; reads the session | project the negotiated properties | `HookRequest` |
| Hook response translation (`src/hooks.rs`, `translate`, `Edits`, `insert_slot`, `raw_replacement`) | the edits accumulated from one answer | set, add and delete operations, resolution to modifications | `HookTranslation` on `RawMessage`, implementing `EditedMessage` |
| Statistics (`src/stats.rs`) | gauges, counters | `begin`, `finish`, drop of an observation | gauges in `HooksClient`, flags in `MilterDaemon` |
| HTTP endpoints, transport, command line | none | render, build | only the flags others depend on |

How they interact. `main` binds its sockets, registers through `HooksClient::with_options`, sets
`ready` and spawns `serve`. `serve` spawns one task per connection, each running
`handle_connection` with its own `Session` and the shared policy. A task feeds
frames to `receive`; if a callback is pending it awaits `policy.evaluate` (for the
scanner: an invocation of the shared `HooksClient`) and passes the decision to
`complete`. One cancellation token stops everything; a forced drain aborts tasks
at whatever await they are in, which drops their futures, the registration mutex
guard included.

What is hard here: the reply discipline (which commands are answered depends on
negotiated bits and on the subscription, while the MTA may run ahead); transaction
and macro state across refused recipients, aborts and new connections; limits
that are tested at one place and consumed at another; the race between a policy,
its deadline, keepalives and the stop token; concurrent invocations sharing a
registration that expires, is refused or is lost; futures cancelled while they
hold a lock; the order of drain, abort and deregistration; two instances on one
socket path; and edits whose positions shift while the MTA applies them. `PROJECT.json`
lists these hazards with their source lines and the properties aimed at them.

## Modules

**MilterModifications** holds the pure operators on edits. A modification is its
variant, the lengths of its strings and whether the validators accept them;
`PayloadBytes`, `Serializable` and `ModificationFrames` follow `payload_bytes` and
`frames` case by case, body chunking included.

**MilterSession** has one action per milter command (`Negotiate`, `Macro`,
`Connect`, ... `Unknown`), `Refuse` for every error of `receive`, and `Complete(d)`
for a policy decision that `complete` accepts. Variables are the fields of
`Session`; `frames` is what the call returned, `error` the error it returned (its
only caller then gives the session up, so partial assignments before an error are
not observable and are not kept). `owed` is a history variable: the replies the
MTA waits for under the negotiated bits. An address or header keeps identity and
size, a body piece and a macro batch their size.

**MilterConnection** extends it with the driver's loop, both byte streams and the
MTA. `pc` is the place in `handle_connection`: `read` (awaiting the first byte),
`partial` (inside a frame), `evaluate`, `write`, `done`. Deadlines are actions that
may fire wherever the code has that deadline. `torn` records that part of a frame
was written without the rest; whatever follows is garbage to the MTA. The MTA is
external: it sends commands in SMTP order, goes on without waiting where a
no-reply bit was agreed, waits for exactly one reply otherwise, keeps its own
account of the message and may disappear.

**HooksClient** models concurrent `evaluate` calls over one registration cache.
The mutex is tokio's: first come, first served, handed to the next waiter on
release. `Deadline` drops an invocation at any await together with its guard or
its place in the queue. A registration has an id and a remaining life (`never`,
`fresh`, `near`: within the five-second margin, `expired`). The scanner is
external: it issues ids, forgets them on expiry or restart and may lose answers.
The properties negotiated with a registration are represented by its id, since any
two may differ; `body` is the registration a request was built for. `gauge` follows
the `Observation` guards of `src/stats.rs`: begun where the code begins them, dropped
by `finish` or with the future.

**HookRequest** extends the session with `request`: for every offered property, the
parts of the session its value is taken from (nothing, if it is `null`) and the two
errors that depend on the session. Which macro batch carries a macro is up to the
MTA, so a value from macros may come from any active batch.

**RawMessage** holds the pure operators on message text, over one letter per
character class the code tells apart: what `raw_message` writes, what
`raw_replacement` reads, what `header_value` accepts. `Ascending` lists a finite set of
positions in increasing order, by rank; the loops of the code over the positions that
satisfy a condition are written with it.

**HookTranslation** has one action per operation of a scanner's answer (`SetHeader`,
`AddHeader`, `DeleteHeader`, `SetFrom`, `AddTo`, `DeleteTo`, `SetRaw`, `SetAction`, ...),
in the order the code takes them: all sets, then all adds, then all deletes. `edits`
is the struct `Edits` with its slots. `Decide` is the end of `translate`; the MTA, which
is external, then applies the modifications one by one to its own copy, where an
index or an occurrence means what it means at that moment (`WithModification`).

**EditedMessage** is the abstract specification: the operations apply one after the
other to the message and envelope the scanner saw, and the result is delivered as a
whole or not at all. `HookTranslation` implements it (`DeliversEdits`) under this
mapping: the abstract message is read off the slots (an original header with its last
change, an added header with its value); a replacement is what its modifications make
of the message; the abstract `delivered` keeps its initial value while the MTA is still
applying and then is the MTA's message; an answer that `translate` refuses and a
message that is rejected or discarded both map to `refused`.

**MilterDaemon** models `serve` and `main` with connection tasks seen from
outside: absent, running, aborting (told to stop but not yet dropped) or finished
(not yet joined). The start is one action per step that can fail or that another
process can get in between of: `CheckPath`, `Probe` and `RemoveStale` are
`replace_stale_socket`, then `BindSocket`, `BindHttp` and `Register`. `path` is what is at
the socket path, `rival` another instance of the same program on that path,
`registration` what the scanner holds of ours (`lost`: it registered us, but the start
failed on its answer).

Definitions whose comment starts with "Fault:" are wrong variants of the
definition that follows. No specification uses them: each is substituted for the
right one to confirm that a property notices (`PROJECT.json`, `mutants`).

## Runs

| Run | Question | Result |
|---|---|---|
| `session_transactions` | all command and verdict sequences, five subscriptions, offers of version 2 and 6 with three protocol masks, every limit met and exceeded | `TypeOK`, `ReplyBalance`, `TransactionShape`, `CallbackHasContext`, `RawMessageFits`, `RefusalIsFinal` hold (73,080 states) |
| `session_edits` | macro batches of two sizes, two of them held at once, for every stage at every moment, with pairs and triples of sixteen sample edits, every reply, two offers that differ in capabilities and leading space | `OutputFits`, `MacroScope`, `MacroBudget`, `RequestIsCurrent`, `TransactionEndResets`, `EditsOnlyAtAcceptedEom` hold (40,940 states) |
| `session_stopped` | does a stopped session accept only ABORT and QUIT? | no: UNKNOWN is accepted and answered |
| `connection_driver` | driver, session and MTA, two commands under way, failing policy, broken writes, timeouts, stop, with fairness | `ConnTypeOK`, `OneReplyPerCommand`, `MessageAgreement`, `ConformingNeverRefused`, `FailClosed`, `StopKeepsReplies`, `AnsweredOrEnded`, `StopEndsConnection` hold (617,512 states) |
| `connection_keepalive` | is a failed keepalive fatal for the connection? | no: the fallback is written and the next frame read |
| `hooks_safety` | three invocations, one retry, three registrations, one scanner restart | `HooksTypeOK`, `LockConsistent`, `BoundedAttempts`, `NoRegistrationHerd`, `RequestMatchesRegistration`, `GaugesBalance`, `RecoveryUsesAnother`, `OnlyRefusedIsDropped` hold (about 865,000 states) |
| `hooks_liveness` | two invocations with fairness | `InvocationEnds` holds |
| `daemon_lifecycle` | three task slots, two permits, failures of every step of the start, a second instance, accept errors, drain, with fairness | `DaemonTypeOK`, `PermitsBalance`, `ReadyMeansAccepting`, `NoHookAfterDrain`, `SocketsBeforeRegistration`, `ShutdownCompletes` hold (26,381 states) |
| `daemon_release` | does every exit release the registration? | no: not when `serve` fails while `main` awaits it |
| `daemon_stale` | is only a refusing socket ever removed? | no: not when two instances replace the same stale one |
| `translation_edits` | answers of up to three operations, or a replacement and one more operation, on 20 sessions | `TranslateTypeOK`, `EchoIsNoop`, `OneFieldEach`, `CountsHeld`, `DeliversEdits` hold (387,529 states) |
| `translation_empty` | the same with empty header values: do indexes stay valid? | no: not behind a header that is set to nothing |

Deadlock checking is off everywhere because every one of these systems may
legitimately stop: a session is closed or dropped, a connection ends, the client
is closed, the process exits, a translation is over.

### Bounds

The byte limits are a handful of bytes, so each is reached exactly and exceeded
within one transaction: the message limit fits two short header fields, the end of
headers and one body piece exactly, a third field is refused for the number of
fields and a longer one for its bytes; the envelope limit fits a sender and two short
recipients but not two long ones. Two recipients are enough for "the last one was
refused, another remains"; two transactions in a row are reached because nothing
counts transactions. Two commands under way let the MTA be one command ahead of
the one being processed, which is all the session can tell apart; one keepalive
per callback is enough because keepalives leave the state as it was. Three
invocations give a holder, a waiter and a latecomer; three registrations give an
old one, its replacement and a lost one. Once the scanner has issued its last id a
registration can only fail (`RegisterFails`), so the bound blocks nobody. More
task slots than permits let finished tasks wait to be joined while permits are
free again. `MaxOverload` caps a counter nothing reads.

`MaxOperations` is three without a replacement: enough for a change, an addition
before it and a deletion of either, in every order of positions, which is where
indexes shift. With a replacement it is two, because operations on the structured
message are ignored then and only the envelope is left to edit. Sessions have up to
three headers whose names agree, differ in case only or differ, with the leading-space
option, and up to two with folded, plain and empty values without it. One replacement
exceeds the message limit, some the header or modification limits.

Symmetry is used in the safety run of `HooksClient`, whose invocations are
interchangeable, and never with liveness.

### Fairness

*Connection.* Weak fairness for reading what has arrived, for the end of a
callback (`timeout_at` bounds the policy; the assumption is only that it answers
**or** its deadline fires, taken as `PolicyFails \/ DefaultAnswer`), for writing
and for the MTA reading its socket. Strong fairness for `StopAtRead`: the select in
`handle_connection` is unbiased, so a token that is ready at every read wins at
some point although each single read may win against it. Nothing is assumed of
the MTA's sending.

*Hooks client.* Weak fairness for each invocation's own steps: every HTTP call ends
with an answer or with reqwest's timeout. The invocation's own deadline is **not**
assumed to fire, so `InvocationEnds` also says that the mutex is passed on.

*Daemon.* Weak fairness for the steps of `serve` and `main`, for an aborted task
to be dropped and for finished tasks to be joined. Nothing is assumed of a running
task.

## What the disagreements mean

Five runs end in a counterexample; each contrasts a sentence of the documentation
or a comment with what the code does (`PROJECT.json`, `findings`).

* `session_stopped`: the README says that after `Shutdown` "the state machine
  accepts only ABORT/QUIT"; `receive` takes UNKNOWN in every state after
  negotiation. The property already leaves QUIT_NC and macro batches aside.
* `connection_keepalive`: "A failed keepalive write is fatal for the connection"
  (`src/server.rs`), but the error is handled like any policy failure. If the
  keepalive was written in part, everything after it is misframed. What does hold
  all the same is `FailClosed`: a broken keepalive never lets a message through.
* `daemon_release`: `milter_task.await??` leaves `main` before `deregister`.
* `daemon_stale`: the connect that is refused and the removal are two steps. Of two
  instances that find the same stale socket, the slower one removes the socket the
  faster one has bound; the README says the path is removed "only when it is a socket
  that refuses connections".
* `translation_empty`: a header set to the empty value is deleted by the MTA, but its
  slot still counts when the indexes of later insertions are computed. With other
  values the indexes are right (`DeliversEdits`).

A related case has no run of its own: the README says that no hook is sent after the
deregistration, which fails when the accept loop ended with an error, because dropping
the JoinSet aborts the tasks without joining them. `NoHookAfterDrain` states what does
hold: such an error is the only way.

## Proofs

Eight modules hold 43 theorems. Each invariant a theorem states is one that a run also
checks, and every inductive invariant named below was first checked by TLC as an
invariant of the corresponding run.

| Module | Theorems (property) |
|---|---|
| `MilterSessionProofs` | `SessionInvariant` (inductive: `IInv`), `TypeCorrect`, `RepliesBalance`, `TransactionsAreSeparate`, `CallbacksHaveContext`, `MacrosAreCurrent`; action properties `RefusalsAreFinal`, `EditsAreNegotiated`, `TransactionsEndClean` |
| `SumLemmas`, `MilterLimitsProofs` | `MacrosStayWithinBudget`, `RawMessagesFit`, `OutputsFit`, `RequestsAreCurrent` |
| `MilterConnectionProofs` | `ConnInvariant` (`ConnIInv`), `ConnTypeCorrect`, `RepliesNeverInterleave`, `MessagesAgree`, `ConformingIsServed`, `FailsClosed`, `StopsKeepReplies` |
| `HooksClientProofs` | `HooksInvariant` (`HooksIInv`), `HooksTypeCorrect`, `MutexIsNeverLost`, `GaugesAreBalanced`, `RequestsMatch`, `AttemptsAreBounded`, `RegistrationIsShared`; action properties `ReplacementIsKept`, `RecoveryMakesProgress` |
| `MilterDaemonProofs` | `DaemonInvariant` (`DaemonIInv`), `DaemonTypeCorrect`, `PermitsAreBalanced`, `ReadyIsHonest`, `DrainLeavesNoHook`, `FailedStartLeavesNothing` |
| `HookTranslationProofs` | `MessageReadBack`, `OneFieldReadBack`, `TranslateInvariant` (`TranslateIInv`), `TranslateTypeCorrect`, `HeaderEditsAreOneField`, `EchoChangesNothing` |
| `HookReplayProofs` | `CountInvariant` (`CountIInv`), `CountsAreHeld` |

The assumptions are those of the modules (TLC evaluates them in every run): limits
and sizes are natural numbers (a frame and a body chunk at least one byte),
subscriptions, offers, decisions, sessions and replacements have the shape of their Rust
types, texts are sequences of the character classes, no address is the absent one, and
`Nobody`, the absent holder of the mutex, is no invocation. The bounds of the runs
(`MaxInFlight`, `MaxIds`, `MaxOperations`, ...) are constants of the theorems, which hold
for every value of them.

### Session

None of the session's invariants is inductive alone. `ReplyBalance` needs
`HonestNegotiation` (the no-reply bit of a subscribed stage was not agreed on) for the
step that leaves a callback pending, and that a callback's stage is known when
`complete` answers it. `TransactionShape` needs `CallbackHasContext`: refusing a
recipient pops the list, which is sound only because a pending `Recipient` means the
state is `Recipients` and so the list is not empty. `CallbackHasContext` needs
`TransactionShape` for the connection to be present. `MacroScope` needs both for the
resets. `IInv` is their conjunction with `TypeOK`; the proof has one lemma per action
and, under it, one step per conjunct, with lemmas on the batch operators
(`RetainBatches`, `PutBatches`, `ActivateBatches`), on the end of `receive`
(`ConcludeBalances`), on the reset (`ResetOK`) and on dropping a refused recipient
(`RefusedRecipientOK`). The action properties follow from `IInv` step by step, and so does
`RequestIsCurrent`: at connect and ehlo the state is `Ready` (`CallbackHasContext`), so by
`MacroScope` only batches of the connection are active; later stages are inside a
transaction, whose sender and recipients `TransactionShape` provides.

The limits are about sums. The library's induction theorems cannot be instantiated here,
so `SumLemmas` argues by a smallest counterexample (`SmallestNumber`, `SmallestSubset`,
both from well-foundedness): the recursion behind `SumFunction` has a solution, all
solutions agree and any order of summing gives the same (`SumsOfParts`, `SumSetApart`,
`SumOfPart`). With it `MilterLimitsProofs` shows that moving batches between the macro
maps never raises their total (`MacrosStayWithinBudget`); that the fields collected so
far will be written in no more than was charged for them (`Charged`, inductive, from
which `RawMessagesFit`); and that the frames of a list of edits, unfolded modification
by modification (`Wire`), are each within the frame limit and together within what `complete` has
admitted (`OutputsFit`).

### Connection

`ConnIInv` relates four views: session, driver, both streams, MTA. Its core is
`Standing`, with one disjunct for each way the conversation can stand: `Quiet` (nothing
is on its way to the MTA), `Asked` (the policy is being asked about the command the MTA
waits for), `Answered` (its one final reply is still to be written or on the wire),
`Broken` (a write broke off and no final reply can arrive) and `Failed` (`receive`
returned an error). The commands that the MTA sent ahead are the reason for `Path`: an
agreement of the session's state with the MTA's is not inductive while commands are
under way, so `Quiet` says that there is a sequence of views, one per command sent
ahead, that leads from where the session is to where the MTA is. Reading a command takes
the first step off this path, sending one adds a last step. `Place` says what each place
in the loop implies for the frames still to be written, `PassedByPolicy` extends
`FailClosed` to frames that are not written yet.

`ConformingIsServed` has one hypothesis, `CurrentVersion`: every offer has at least the
milter's version. With an older one the negotiation itself is refused.

### Hooks client

`HooksIInv` adds to the properties: `LockShape` (the queue has no repetition, holder and
waiters are exactly the invocations whose place in the code says so, and nobody waits
for a free mutex), which dropping a future at any await must restore; `RegistrationUse`
(an invocation past `registered` works with an id that was issued; one that recovers was
refused that very id, and from then on the cache does not hold it); `AttemptsPaid` and `CausesPaid`, which pay for
every request and for every registration with the event that made it necessary. The
count in `NoRegistrationHerd` is not inductive without saying whether the present
registration has already been paid for.

### Daemon

`DaemonIInv` adds `LifeCycle`: which states of `serve`, the token and the registration go
with which place in `main`. Counting permits uses the library's facts on cardinality.

### Response translation

`MessageReadBack` is about the pure operators: what `raw_message` writes for any number of
header fields (a name the validator accepts, a value whose line feeds are folds) and any
body, the parser of `raw_replacement` reads back as those fields in that order and that
body. The text is the fields' lines one behind the other, the empty line and the body
(`TextIsMessage`, `OffsetsGrow`). A line feed in front of the body either folds a value, and
a blank follows it, or ends a field's line (`MessageFeeds`); hence the numbers of the lines
at which the fields start and of the empty line (`LinesOf`, `HeaderLinesOK`, `BlankLineIs`,
`FieldStartsAre`), and for each field its first colon, its name and its value
(`FieldRead`, `NameRead`, `ValueRead`). `OneFieldReadBack` is the case of one field.
`AscendingOK` says what `Ascending` returns, `TextIsText` and `ParsedIsText` that writing and
reading stay within text. `TranslateIInv` says that the slots of `edits` name entries that
exist, that the modifications made of them and of a replacement have their types, and
that those of a decision passed `CanSend`; with `OneFieldReadBack` it gives
`HeaderEditsAreOneField`.

`EchoChangesNothing` follows the cursor of `raw_replacement` through a message that comes
back as it was sent. By `MessageReadBack` its fields are the session's headers, each value
behind its colon as the negotiation settled the leading space; what `raw_replacement` looks
up for it is the session's value (`LookedUp`). A field matches the next equal header behind
the cursor, so field k, read with the cursor at k - 1, matches header k and not a later
twin (`EchoMatches`), and the cursor moves to k (`EchoCursors`): nothing is left over to
delete and nothing is new (`EchoReplacesNothing`). `EchoInv`, that such a replacement has no
modification, is kept by every step beside `TranslateIInv` (`EchoStep`). One hypothesis is
part of the property: the MTA's headers are header fields. The session stores what the MTA
sends without a check (`session.rs:370-376`), and a name that holds a colon, say, would come
back as another field.

`CountsAreHeld` is about two lists kept on two sides: the slots, to which the limits are
applied while the answer is read, and the MTA's message, to which the modifications are
applied afterwards, each at a place or an occurrence that the earlier ones may have
moved. `HookReplayProofs` says what a decision's modifications are, a `Plan`: some that
leave the headers alone, then changes and deletions at a set of places, from the last to
the first, then insertions. Going down, the occurrence of a header that is still to come
is the one it had in the session (`DescendingOK`, `DescendingGaps`, `ChangeDown`), so
after each modification the MTA's list is `Down`: untouched in front of the place it has
reached, with the cut headers gone behind it (`ReplayStep`). At the bottom exactly the headers
outside `cut` are left, and each insertion adds one; `Fits` says that this is within the
limit. `SlotsInv` is what makes it so for edits (`EditsFit`): every original header has its slot
or is on the list of deletions, so the headers outside `cut` and those to insert have
slots of their own. For a replacement it follows from the count of the parsed fields,
since the cursor of `raw_replacement` never matches a header twice (`ReplacementFits`).
Recipients are a set at the MTA; each one at the end has a slot of its own
(`RecipientsFit`). `CountIInv` is the conjunction for edits, replacement and MTA.

### Only model-checked

* Liveness (`AnsweredOrEnded`, `StopEndsConnection`, `InvocationEnds`, `ShutdownCompletes`):
  fairness is out of the proof system's reach.
* `DeliversEdits`, the refinement of the translation. It needs the contents of the inserted
  headers and what a fold over them gives, and holds only for scanners that set no empty
  value on an added header and sessions whose recipients differ.
* The five properties that the code violates.

## Not modelled

* The byte grammar of frames: framing, `Command::decode`, `clean`. A frame is one of the
  commands or `malformed`; `clean` is a flag of a decision or an edit.
* In `HookTranslation`: JSON shapes, ESMTP parameters and the texts of SMTP responses,
  which can only lead to a refusal (`RefuseOperation`, `RefuseDecision`); the limits that
  `complete` applies to the modifications once more, which are those of `MilterSession`;
  recipients given twice, since what deleting one of them by address means is the MTA's
  choice. UTF-8 checks are part of `RequestFails` and the refusals.
* Values of macros (only batch sizes and sources), log output, counters and histograms.
* Overflow of `usize` sums: `checked_add` turns it into the same error as a limit.
* Argument parsing, beyond the choice of listener it makes. A signal during the start
  ends the process at once and is not an action. Encoding of the requested macro lists,
  which are fixed and valid.
* Transport construction and authentication headers, example scanner, interop tests.

## Plan

Done: the session, its edits, the connection driver with the MTA, the hooks
client, the whole life of the daemon, the hook request, the response translation with
its refinement; proofs of every safety invariant of the passing runs.

Next, in this order:

1. The steps of `DeliversEdits`, from the `Plan` of `HookReplayProofs` with the contents of
   the inserted headers.
2. *Abstract reply protocol*: what a milter promises an MTA (one answer per awaited
   command, in order, or the end of the connection), with `MilterConnection` shown
   to implement it by a refinement mapping; `Standing` is most of that mapping already.
3. *Composition* of `MilterDaemon` with `HooksClient`, so that the late hook is
   followed to the registration it creates.
4. *Codec*: `strings` and framing as operators over short sequences of byte classes.
