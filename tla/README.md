# TLA+ verification of pisshoff

pisshoff is an SSH honeypot. It accepts SSH connections through `thrussh` and records
everything an attacker tries in an audit log. Acceptance is random, but a password
that was accepted once is always accepted again. This directory holds:

- TLA+ models of the honeypot's control logic,
- the TLC configurations that model-check them,
- an abstract specification of the credential store and the proof that the
  handlers implement it,
- the TLAPS proofs of their main safety properties.

Sources: `src/main.rs` (process start, `select!` and shutdown) and `src/server.rs`
(the per-connection handler). `audit.rs`, `state.rs`, `command.rs` and `config.rs`
are not in this snapshot. Where they matter (the audit writer task, the password
store), they are modelled from `spec.md` and marked `spec_modelled` in
`PROJECT.json`.

## 1. Inventory

### Components

| Component | Code | State | Operations |
|---|---|---|---|
| SessionController | `Connection`, `impl Handler for Connection` (server.rs) | one `AuditLog` per connection (`actions`, `environment_variables`) and the connection's authentication phase (kept by thrussh) | `auth_password`, `auth_publickey`, `auth_none`, `auth_keyboard_interactive`, `channel_open_*`, `data`, `exec_request`, `shell_request`, `pty_request`, `x11_request`, `env_request`, `subsystem_request`, `window_change_request`, `window_adjusted`, `signal`, `tcpip_forward`, `cancel_tcpip_forward`, `channel_close/eof`, `Drop` |
| CredentialAcceptancePolicy | `Connection::try_login` (server.rs:80-109) and `State` (state.rs, not in snapshot) | `previously_accepted_passwords`, shared by every connection | `seen(p)`, draw `fastrand::f64() <= access_probability`, `store(p)` |
| AuditEventPipeline | `mpsc::unbounded_channel` from `audit::start_audit_writer` (main.rs:50) and `Drop for Connection` | the channel buffer, the set of live senders, the writer task's state, and the written file | `send` (in `Drop`), the writer loop, writer failure, writer end |
| ShutdownCoordinator | `run()` in main.rs | which `select!` branch fired, and the process exit status | accept loop returns, audit handle returns, ctrl-c, final `audit_handle.await` |
| Command emulator | `command::run_command` (not in snapshot) | none that the model observes | writes fabricated output |
| Transport engine | `thrussh` (external) | key exchange, channels, timeouts | calls the handlers |

### How the components interact

Each accepted connection runs as its own task on the multi-threaded tokio runtime.
The components interact in four ways:

- **Shared store.** All connections share one password store through `Arc<State>`.
- **Two separate store calls.** `try_login` calls `seen` and then, on a random
  accept, `store`. These are two separate operations, so two connections can
  interleave between them.
- **Senders keep the channel open.** Every `Connection` holds a clone of `Server`,
  and each clone holds an `UnboundedSender<AuditLog>`. The `Server` owned by
  `thrussh::server::run` holds one more. The writer's `recv()` returns `None` only
  after every sender has been dropped.
- **Records are sent on `Drop`.** A connection's `AuditLog` is sent when the
  connection is dropped. The result of `send` is ignored.

`run()` races three things with `tokio::select!`:

- the accept loop,
- the fused audit handle,
- ctrl-c.

After ctrl-c, `run()` awaits the audit handle. A bind failure of
`thrussh::server::run`, or an error of the writer, ends the process with
`exit(1)`. An accept error does not: thrussh's accept loop then returns `Ok(())`,
and `run()` drains and exits 0.

### What is hard

- **Interleaved logins.** `seen` and `store` are not atomic with respect to other
  connections.
- **Shutdown order.** The process may exit only after the audit writer has drained.
  Draining needs every live connection to drop its sender, and ctrl-c closes no
  connection.
- **Exit paths.** Each `select!` branch reaches exit by its own route, and none
  may leave a finished log in the channel. An accept error takes the route of a
  normal end and loses the error.
- **Fused handle.** The audit handle is a `Fuse` that is polled twice: once in the
  `select!` and once after it.
- **Writer failure.** After the writer fails, further sends are silently lost.
- **The random draw at its boundary.** `f64()` can return exactly `0.0`.

### Properties that make each component correct

- **CredentialAcceptancePolicy:** replay consistency. Once a password has been
  granted, every later check of it accepts. With probability 0, nothing is ever
  accepted. Spec 4.2 asks for the membership test and the insert to be one
  atomic step; the code makes two calls, and the refinement shows that every
  behaviour is still one of the atomic store (linearizability).
- **SessionController + pipeline:** each connection's log is handed over exactly
  once, after its last action, and complete; the unbounded channel holds exactly
  the logs of ended connections not yet written.
- **Pipeline + coordinator:**
  - a graceful shutdown loses no log;
  - the process never exits with logs still queued;
  - a started shutdown ends once every client has stopped sending (the code
    does not close a busy connection, so this is checked only for clients
    with finitely many events);
  - an engine error is the exit cause (violated, see Findings).

The hazards, each at its line, are listed under `hazards` in `PROJECT.json`.

## 2. Modules

### `Pisshoff.tla`: the core model

One module composes all four components, because they share the sender count and
the phase of each connection.

**Constants:**

| Constant | Meaning |
|---|---|
| `Conn` | the connections |
| `Password` | the passwords an attacker may submit |
| `NoPassword` | sentinel for "no password" |
| `Resolution` | `f64()` returns `k / Resolution` for `k \in 0..Resolution-1` |
| `AccessNumerator` | `access_probability = AccessNumerator / Resolution` |
| `MaxEvents` | the number of client events per connection |

`ConstAssumption` states the assumptions on these constants.

**How the variables correspond to the code:**

| Variable | Code |
|---|---|
| `phase[c]` | the connection's lifetime: not yet created, authenticating, inside `try_login`, authenticated, dropped |
| `login[c]` | the locals of `try_login` between `seen` and `store` |
| `actions[c]`, `envs[c]` | `AuditLog.actions`, `AuditLog.environment_variables` |
| `accepted` | `state.previously_accepted_passwords` |
| `chan` | the mpsc buffer |
| `written` | the lines of the audit file |
| `writer` | the writer task: running, done or failed |
| `serverAlive` | the `Server` inside the accept future, which holds a sender |
| `main` | where `run()` is |
| `granted` | ghost: the passwords some connection has been answered `Auth::Accept` for |
| `events[c]` | bounds the client |

**Actions.** Each handler is one action with the handler's name.

- `try_login` is split at the point where other threads can interleave:
  - `TryLoginCheck` is `seen` plus the draw;
  - `TryLoginFinish` is `store`, the pushed `LoginAttempt` and the reply.
- A connection cannot be dropped between the two steps, because `try_login` is
  synchronous.
- Handlers that only reply or log change no state and are not actions:
  `auth_none`, `auth_keyboard_interactive`, `channel_close`, `channel_eof`,
  `channel_open_session`, `extended_data` and `adjust_window`.
- `data` and `exec_request` differ only in their replies, so both use `RunParsed`.
  `RunParsed` chooses the outcome of `shlex::split` nondeterministically.

**Writer task** (modelled from spec 4.3):

- `WriteAuditLog` is FIFO: it writes and flushes one record at a time.
- `AuditWriterFails` drops the receiver and its buffer.
- `AuditWriterFinishes` fires when the buffer is empty and every sender is gone.

**`run()`:**

- `ServerBindFails`: `thrussh::server::run` returns `Err` only when binding the
  listen address fails, before any connection exists; `?` exits.
- `AcceptLoopEnds`: thrussh accepts in `while let Ok(..) = accept().await`
  and then returns `Ok(())`, so an accept error ends the future with `Ok`.
  `res?` yields `()`, the future and its `Server` (a sender) are dropped, and
  `run()` goes on to drain. The ghost variable `acceptErr` records that the
  accept loop ended on an error.
- `AuditHandleReturns`: the writer ends first. An error exits. Ok continues to the
  second await of a completed `Fuse`, which never returns (`"hung"`).
- `CtrlC`: starts the drain.
- `AwaitAuditHandle`: gives the exit status.

**Deadlock checking is off.** Every configuration sets `CHECK_DEADLOCK FALSE`,
because the process stops for real once it has exited. A real hang (`"hung"`, or a
drain that never ends) is a violation of `EventuallyExits` instead.

**Refinement mapping** (end of the module). `CS == INSTANCE CredentialStore`
maps the connections' state to the abstract credential store:

| Abstract | Mapped from |
|---|---|
| `store` | `accepted` |
| `tried` | `Tried`: the `LoginPassword` actions of every connection (`LoginPairs`), plus the calls in flight in `Decided` |
| `authed` | `Authed`: connections in `"session"`, plus decided calls in flight that accept |

`Decided` is the set of calls in flight whose outcome `seen` already fixed: a
hit, or a miss whose draw rejects. Such a call takes effect at `TryLoginCheck`,
and its `TryLoginFinish` is a stutter. A miss that accepts takes effect at its
`store`, in `TryLoginFinish`. `Drop` of an authenticated connection is
`Logout`. Every other step is a stutter.

### `CredentialStore.tla`: what `try_login` promises

The abstract specification of the credential acceptance policy. One atomic
`Login(c, p)` step either accepts (the password is stored, or the draw
`k <= AccessNumerator` succeeds) and stores the password, or rejects; either
way the pair `<<c, p>>` is recorded as answered. `Logout(c)` ends an
authenticated connection. A rejection is not a stutter, because it adds to
`tried`, so "a stored password is never rejected" has force.

`AuthedByStored` is its invariant: every authenticated connection has been
answered for a password that the store holds.

### Other modules

- **`MCPisshoff.tla`:** defines the model values and the symmetry sets. `Conn`
  and `Password` are symmetric in every definition. `MCConn3` and
  `MCPassword1` give the three-connection instance.
- **`PisshoffProofs.tla`, `PisshoffRefinementProofs.tla`,
  `PisshoffAuditProofs.tla`, `PisshoffBacklogProofs.tla`,
  `PisshoffExitProofs.tla`, `CredentialStoreProofs.tla`:** the TLAPS proofs (section 4).

## 3. Runs

| Run | Config | Expect | Checks |
|---|---|---|---|
| safety | `MCPisshoff.cfg` | pass | `ExitOnlyAfterDrain`, `ReplayConsistency`, `LogsHandedOverOnce`, `GracefulShutdownLossless`, `AuditBacklogAccounted`, `SessionLoggedPassword`, and the action property `AcceptedPasswordStored` |
| liveness | `MCPisshoffLiveness.cfg` | pass | `EventuallyExits` under `FairSpec` |
| accept_error_lost | `MCPisshoffAcceptErr.cfg` | violation | `AcceptErrorIsExitCause` |
| zero_probability | `MCPisshoffZeroProb.cfg` | violation | `ZeroProbabilityRejects` with `AccessNumerator = 0` |
| refinement | `MCPisshoffRefinement.cfg` | pass | `CredentialStoreRefined` (the abstract `CS!Spec` as a `PROPERTY`) |
| three_connections | `MCPisshoffThree.cfg` | pass | `ReplayConsistency`, `AuditBacklogAccounted`, `CredentialStoreRefined` |

### What each property says

- **`ReplayConsistency`.** A login check that starts after the password was granted
  to any connection decides to accept. To break it, one connection must grant the
  password and another must then miss in `seen`.
- **`LogsHandedOverOnce`.** Every log in the channel or the file belongs to a
  dropped connection and equals that connection's final actions and environment. No
  connection appears twice.
- **`GracefulShutdownLossless`.** At exit status 0, every accepted connection's log
  is in the file. Breaking it needs several steps: ctrl-c, the connections
  closing, the writer draining, and the writer ending.
- **`AuditBacklogAccounted`.** While the writer has not failed, the number of
  logs written plus the number queued equals the number of ended connections.
  So the unbounded channel grows by exactly one entry per ended connection, and
  no ended connection's log is missing. A skipped or repeated send breaks it.
- **`CredentialStoreRefined`.** `CS!Spec`: every behaviour is one of the atomic
  credential store under the mapping. It fails if a stored password is ever
  rejected at its linearization point, or if an accepted password is not stored
  when the call takes effect.
- **`AcceptedPasswordStored`** (an action property). Every step that ends a
  password check in a session leaves the submitted password in the store. On
  a `seen` hit this rests on earlier steps: the store must not have lost the
  entry while other connections ran between the check and the answer.
- **`SessionLoggedPassword`.** For every connection in a session, the last
  `LoginPassword` action of its AuditLog (the attempt answered `Accept`) has
  its password in the store. It ties the audit log of one connection to the
  shared store that all connections write, across the gap between `seen` and
  `store` in which other connections run.
- **`ExitOnlyAfterDrain`.** The process never exits while a finished AuditLog
  waits in the channel, whichever `select!` branch ended first: a bind
  failure happens before any connection, a failed writer has dropped its
  buffer, and every other path awaits the writer's drain.
- **`AcceptErrorIsExitCause`** (violation run). After the accept loop ended
  on an error, the process does not exit with status 0.
- **`EventuallyExits`.** `(main = "draining" \/ writer # "running") ~> main \in Exited`.
  It holds only under the model's bound on each client's events (see
  Fairness): a client that never stops sending is never dropped by the
  inactivity timeout, keeps its sender, and blocks the drain forever. The
  run shows that a shutdown ends once every client has gone quiet, not that
  every shutdown ends.

### Bounds

- Two connections are the least that can interleave on the store and on the
  channel.
- Two passwords separate a hit from a miss.
- The safety run allows three events per connection. That is enough for a
  rejected login, a retry, and a session request after acceptance. It explores
  about 6.4M distinct states in about 95s.
- The liveness run allows two events per connection and uses no symmetry. It
  explores about 0.2M states.
- `Resolution = 4` and `AccessNumerator = 1` let a fresh password be either
  accepted or rejected.
- The refinement run allows two events per connection: a check, a retry after
  a rejection, and checks of the other connection in between. Three events
  make the check of the temporal property take about 3 minutes.
- The three-connection run gives all three connections the same password, with
  two events each. Every login then races on the same store entry: two misses
  and a hit, or a check between another connection's `seen` and `store`. It
  explores about 0.76M states in about 40s.

### Fairness (`Fairness`)

Fairness is weak and covers only these steps:

- `Drop` of each connection: thrussh's default `connection_timeout`, left in place
  by `..Default::default()` at main.rs:47, closes idle connections. The model bounds
  the client's events (`MaxEvents`), so every connection eventually goes idle.
  This is an assumption about clients, not something the code enforces: a
  connection that stays busy is never closed.
- `TryLoginFinish`: synchronous code runs to its end.
- The writer's steps and the two exits of `run()`: tokio keeps polling the writer
  task and the main future.

There is no fairness on the following, because none of them is guaranteed to
happen: client events, new connections, ctrl-c, accept errors, I/O errors.

### Mutants

Every property of a passing run has a mutant: a plausible bug written as an
operator just before the definition it replaces.

| Mutant | Plausible bug | Property it breaks |
|---|---|---|
| `TryLoginFinishNoStore` | `store` is forgotten after a random accept | `ReplayConsistency`, `CredentialStoreRefined`, `AcceptedPasswordStored`, `SessionLoggedPassword` |
| `DropOnlyAuthenticated` | only sessions that logged in send their log | `AuditBacklogAccounted` |
| `DropNotIdempotent` | the log is sent a second time | `LogsHandedOverOnce` |
| `AcceptLoopReturnsErr` | the accept error is returned from `thrussh::server::run`, so `res?` leaves before the drain | `ExitOnlyAfterDrain` |
| `AuditWriterFinishesWhenEmpty` | the writer stops on an empty buffer | `GracefulShutdownLossless` |
| `CtrlCKeepsSender` | `run()` keeps a clone of `Server` | `EventuallyExits` |

### Findings

1. **main.rs:59 loses an accept error.** thrussh's accept loop ends with
   `Ok(())` when `accept()` fails, so `res?` yields `()`, `run()` drains the
   audit channel and the process exits with status 0. The error is never
   reported as the failure cause, as spec 4.4 and 7 require. TLC's trace: the
   accept loop ends on an error, the writer drains, and `AwaitAuditHandle`
   exits with `"exitOk"`.
2. **server.rs:89 accepts at probability 0.** `f64() <= p` accepts when the draw is
   `0.0`, which happens once in 2^52 draws. So `access_probability = 0` does not
   mean "never", as spec section 8 requires. Writing `<` would fix it.

## 4. Proofs

Every theorem assumes only `ConstAssumption`. Each holds for every set of
connections and passwords and every access probability.

### `PisshoffProofs.tla`

#### `TypeCorrect == Spec => []TypeOK`

`TypeOK` includes the fact that a check in flight carries a real password.

- The proof has one step per action.
- It rests on the lemmas `AppendAt` (an `EXCEPT`/`Append` keeps a function of
  sequences), `ClientEventTypeOK` and `PushTypeOK`.
- The step lemma is `TypeStep`; `InitTypeOK` proves the initial state well
  typed conjunct by conjunct.

#### `Replay == Spec => []ReplayConsistency`

`ReplayConsistency` is not inductive by itself. The inductive invariant is

```
IInv == TypeOK /\ GrantedStored /\ CheckInFlight
```

- **`GrantedStored`:** `granted \subseteq accepted`. A password is stored before
  any connection is answered Accept for it.
- **`CheckInFlight`:** for a check in flight, a known password implies a `seen`
  hit. A hit implies accept, and the password is still stored.

TLC confirmed `IInv` as an invariant on the safety instance without symmetry
(21.5M states).

**Argument:**

- `TryLoginCheck` copies `p \in granted`, and `granted \subseteq accepted` turns
  that into a hit.
- The store only grows, so a hit stays valid until `TryLoginFinish`.
- `TryLoginFinish` either stores the password or already has it stored, so
  `granted` stays inside `accepted`.

`ReplayFrame` handles every action that leaves the login state alone.

### `PisshoffRefinementProofs.tla`

#### `Linearizable == Spec => CredentialStoreRefined`

This is the standard refinement proof: `Init => CS!Init`, and
`IInv /\ [Next]_vars => [CS!Next]_CS!vars` (`RefinementStep`), combined with
`[]IInv` (`IInvInvariant`) by PTL.

`RefinementStep` has one step per action:

- `TryLoginCheck` is `CS!Login` with the same draw when the call is decided.
  Otherwise it is a stutter.
- `TryLoginFinish` is `CS!Login` with the draw `0` for a miss that accepts;
  `0 <= AccessNumerator` always holds. Otherwise it is a stutter: the pushed
  `LoginPassword` replaces the call's entry in `Decided`.
- `Drop` of a session is `CS!Logout`.

`IInv` is needed for two facts. A decided call that accepts is a hit, so the
store already holds its password. And a check carries a real password.

The lemmas:

- `LoginPairsAppend`: appending an action adds its password attempt, if it is
  one. It uses `SequenceTheorems`-style facts about `Append`.
- `TriedUpdate`, `OtherConn`, `MappedStutter`, `PushStutter`: the mapping
  changes only through the connection that steps.

### `PisshoffAuditProofs.tla`

#### `HandedOverOnce == Spec => []LogsHandedOverOnce`

`LogsHandedOverOnce` speaks of `written \o chan`. The inductive invariant
`AuditInv == TypeOK /\ LogsInv` states the same facts on `written` and `chan`
separately, plus the absence of shared connections between them.

**Argument:**

- A log is created only by the `Drop` of a connection that has not ended. No
  existing log can belong to it, because every log's connection has ended.
- An ended connection records nothing more, so every log stays equal to its
  connection's final state (`LogsFrame`, `HandlerFrame`).
- `WriteLogs`: the writer moves the oldest log from the channel to the file.
  This uses `HeadTailProperties` and `AppendProperties` from `SequenceTheorems`.
- `ConcatProperties` turns `LogsInv` into the statement on `written \o chan`.

#### `Lossless == Spec => []GracefulShutdownLossless`

The inductive invariant `ShutdownInv` has four parts:

- **`ServerAlive`:** the accept future's `Server` lives exactly while the
  `select!` does.
- **`DoneDrained`:** a writer that ended Ok has an empty channel, and no live
  connection or `Server` is left. So no connection can be accepted or dropped
  afterwards.
- **`ExitOkDone`:** `run()` returns Ok only after the writer ended Ok.
- **`EndedLogged`:** while the writer has not failed, every ended connection's
  log is written or queued.

At exit 0 the writer is done, so the channel is empty and every accepted
connection has ended. Each therefore has its log in the file. TLC confirmed
`AuditInv` and `ShutdownInv` on the safety instance before the proofs.

### Accept answers and sessions

#### `AcceptStored == Spec => AcceptedPasswordStored` (in `PisshoffProofs.tla`)

This action property follows from the same `IInv` as `Replay`.

- `SessionOnlyByFinish` is a case split over `Next`. Only `TryLoginFinish(c)`
  moves `c` from `"checking"` to `"session"`.
- `AcceptStep` covers that step. A miss that accepts stores the password. A
  hit finds it already stored, by `CheckInFlight`.
- The action `[A]_vars` holds on every `IInv` step, so PTL gives `[][A]_vars`.

#### `SessionLogged == Spec => []SessionLoggedPassword` (in `PisshoffAuditProofs.tla`)

The inductive invariant is `IInv /\ SessInv`, where `SessInv` says that
for every connection in a session `LastLoginStored(c)` holds: the last
`LoginPassword` action of its AuditLog has its password in the store.

**Argument** (`SessStep`, one step per handler of the connection that moves):

- `TryLoginFinish` enters a session only when the call accepts. It pushes
  that attempt last (`SessLogin`), and its password is stored: by the
  `store` of the same call on a miss, or, on a `seen` hit, by
  `CheckInFlight` from `IInv`.
- In a session, the handlers push only actions of other kinds
  (`SessAppend`), or nothing (`SessKeep`).
- The store only grows (`StoreGrows`), and a step of another connection
  leaves this connection's phase and log alone.

`IInv` is needed for the hit case, which rests on earlier steps of other
connections.

#### `StoreJustifiesSessions == CS!Spec => []AuthedByStored` (in `CredentialStoreProofs.tla`)

On the atomic credential store, every authenticated connection was answered
for a password the store holds. `AuthedByStored` is inductive there: `Login`
adds a connection only together with the pair it tried and the stored
password, the store and the answered attempts only grow, and `Logout` only
removes a connection.

### `PisshoffExitProofs.tla`

#### `ExitDrained == Spec => []ExitOnlyAfterDrain`

The inductive invariant is
`ExitInv == AuditInv /\ ShutdownInv /\ FailedEmpty /\ ExitOnlyAfterDrain`,
where `FailedEmpty` says that a failed writer has an empty channel.

**Argument** (`ExitStep`, one case per `select!` outcome):

- `ServerBindFails` fires while every connection is unborn. The channel holds
  only logs of ended connections (`LogsInv`), so it is empty
  (`NoLogWhileUnborn`).
- `AuditHandleReturns` and `AwaitAuditHandle` exit only once the writer has
  ended. A done writer has an empty channel (`DoneDrained`), and a failed one
  has dropped its buffer (`FailedEmpty`).
- `AcceptLoopEnds` and `CtrlC` only start the drain.
- After a failure no step adds to the channel, because `Drop` sends only to
  a running writer. After exit no step changes it.

### `PisshoffBacklogProofs.tla`

#### `BacklogAccounted == Spec => []AuditBacklogAccounted`

This theorem holds for every set of connections, finite or not. The accept
loop may hand out any number of connections, but only finitely many have
ended in a reachable state.

The inductive invariant is:

```
BacklogInv == ShutdownInv /\ IsFiniteSet(Closed) /\ BacklogCount
```

**Argument:**

- `Drop` is the only step that ends a connection. By `FS_AddElement`, it
  adds one element to the finite set `Closed`.
- While the writer runs, `Drop` appends exactly one log to the channel
  (`BacklogDrop`).
- A writer that ended Ok has no live connection left to drop. This is
  `DoneDrained` from `ShutdownInv`, the proof of `Lossless`. So a `Drop`
  never meets a finished writer.
- A failed writer makes the count vacuous, and a failed writer never runs
  again.
- `WriteAuditLog` keeps the sum of the two lengths (`BacklogWrite`).
- Every other handler leaves `Closed`, the channel and the file alone
  (`BacklogHandler`, `BacklogFrame`).

TLC confirmed `BacklogInv` on the safety instance (5.4M states) before the
proof.

### Only model-checked

- `EventuallyExits`: a liveness property under fairness. TLAPS here cannot
  prove liveness or reason about `ENABLED`.

Every invariant and action property of the passing runs has a theorem.

## 5. Not modelled

- **The emulator's output, replies, spans and logging.** They change no state the
  properties observe.
- **thrussh's internals.** They are assumed instead:
  - the handlers of one connection run one at a time;
  - channel requests come after `Auth::Accept`;
  - the inactivity timeout closes idle connections;
  - `server::run` returns `Err` only when binding fails, and its accept loop
    ends with `Ok(())` on an accept error.
- **Memory growth** of the unbounded channel and of the store. Memory is out of
  TLC's reach; the model bounds connections and events instead.
  `AuditBacklogAccounted` bounds the channel by the connections accepted.

## 6. Plan

1. **Done (sitting 1):** `Pisshoff.tla` as the core, four runs, two theorems.
2. **Done (sitting 2):**
   - `AuditBacklogAccounted` for the unbounded channel;
   - `CredentialStore.tla` and the refinement, checked by TLC and proved
     (`Linearizable`);
   - the three-connection run;
   - the proofs of `LogsHandedOverOnce` and `GracefulShutdownLossless`.
3. **Done (sitting 3):** proofs of `AuditBacklogAccounted` (without assuming
   a finite `Conn`), the action property `AcceptedPasswordStored`, and
   `SessionLoggedPassword`.
4. **Done (sitting 4):** the accept loop's `Ok(())` on an accept error
   (`AcceptLoopEnds`, the `accept_error_lost` finding), `ExitOnlyAfterDrain`
   checked and proved (`ExitDrained`), and `SessionLoggedPassword`
   strengthened to the attempt answered `Accept`.
5. **Abstract audit log.** An abstract specification in which each ended
   connection's log is appended once, in hand-off order. It would be shown
   implemented by the channel-and-writer model.
6. **Component modules.** Split the connection, channel and shutdown state
   into modules composed by `INSTANCE`, once a second refinement needs them
   separately.
7. **Replies.** Model the replies (channel success or failure, `Auth::Partial`)
   if a property about the reply protocol turns out to be worth stating.
