------------------------------ MODULE Pisshoff ------------------------------
(***************************************************************************)
(* The pisshoff SSH honeypot: the per-connection handler (server.rs,       *)
(* `Connection` and its `thrussh::server::Handler` impl), the shared       *)
(* store of previously accepted passwords (`State`), the audit channel     *)
(* and its writer task (`audit::start_audit_writer`), and the top-level    *)
(* `tokio::select!` of main.rs that decides when the process exits.        *)
(*                                                                         *)
(* Every connection runs as its own tokio task on a multi-threaded         *)
(* runtime, so the steps of different connections interleave freely.      *)
(* `try_login` calls `seen` and `store` on the shared store as two         *)
(* separate operations, so it is split into a check step and a finish     *)
(* step between which other connections may run.                          *)
(***************************************************************************)
EXTENDS Naturals, Sequences, FiniteSets

CONSTANTS
    Conn,            \* connections the accept loop may hand to Server::new
    Password,        \* passwords an attacker may submit
    NoPassword,      \* sentinel: no password attempt in progress
    Resolution,      \* fastrand::f64() returns k / Resolution, k \in 0..Resolution-1
    AccessNumerator, \* config.access_probability = AccessNumerator / Resolution
    MaxEvents        \* bound on the client events one connection sends

ASSUME ConstAssumption ==
    /\ Resolution \in Nat \ {0}
    /\ AccessNumerator \in 0 .. Resolution
    /\ MaxEvents \in Nat
    /\ NoPassword \notin Password

VARIABLES
    phase,       \* per connection: "unborn", "auth", "checking", "session", "closed"
    login,       \* per connection: the try_login in progress (between seen and store)
    actions,     \* per connection: AuditLog.actions
    envs,        \* per connection: AuditLog.environment_variables
    events,      \* per connection: client events received so far (bounded)
    accepted,    \* state.previously_accepted_passwords
    chan,        \* the unbounded mpsc channel of finished AuditLogs
    written,     \* the AuditLogs the writer task has written to the audit file
    writer,      \* the writer task: "running", "done" or "failed"
    serverAlive, \* the Server value owned by the thrussh accept future (holds a sender)
    main,        \* main.rs run(): "select", "draining", "hung" or one of Exited
    granted,     \* ghost: passwords some connection has been answered Auth::Accept for
    acceptErr    \* ghost: the accept loop of thrussh::server::run ended on an error

connVars == <<phase, login, actions, envs, events>>
pipeVars == <<chan, written, writer>>
vars == <<connVars, accepted, pipeVars, serverAlive, main, acceptErr, granted>>

-----------------------------------------------------------------------------
(* Data.                                                                   *)

\* The audit action kinds of AuditLogAction that the handlers push.
Kinds == {"LoginPassword", "LoginPublicKey", "OpenX11", "OpenDirectTcpIp",
          "ExecCommand", "WindowAdjusted", "PtyRequest", "X11Request",
          "ShellRequested", "SubsystemRequest", "WindowChangeRequest",
          "Signal", "TcpIpForward", "CancelTcpIpForward"}

\* An audit action; only a password attempt carries data the properties use.
Action == [kind : Kinds, pw : Password \cup {NoPassword}]

Act(k) == [kind |-> k, pw |-> NoPassword]

\* An environment variable pair (name and value are opaque to the model).
EnvPair == {"EnvPair"}

\* A finished AuditLog as sent on the channel and written to the file.
Record == [conn : Conn, actions : Seq(Action), envs : Seq(EnvPair)]

\* The state of a try_login between its `seen` check and its `store`;
\* `known` is ghost: the password had already been granted when checked.
LoginState == [pw : Password \cup {NoPassword}, hit : BOOLEAN,
               accept : BOOLEAN, known : BOOLEAN]

NoLogin == [pw |-> NoPassword, hit |-> FALSE, accept |-> FALSE, known |-> FALSE]

\* The values fastrand::f64() can return, scaled by Resolution.
Samples == 0 .. (Resolution - 1)

Live == {"auth", "checking", "session"}

\* How run() ended: Ok, or the error it returned (the accept loop's or the
\* writer's), which main() reports before process::exit(1).
Exited == {"exitOk", "exitServerErr", "exitAuditErr"}

\* The process is still running: after exit no task takes a step.
Running == main \notin Exited

\* tokio's UnboundedReceiver::recv returns None once every sender is gone:
\* the Server in the accept future and the clone inside every live Connection.
AllSendersDropped == ~serverAlive /\ \A c \in Conn : phase[c] \notin Live

-----------------------------------------------------------------------------
Init ==
    /\ phase = [c \in Conn |-> "unborn"]
    /\ login = [c \in Conn |-> NoLogin]
    /\ actions = [c \in Conn |-> << >>]
    /\ envs = [c \in Conn |-> << >>]
    /\ events = [c \in Conn |-> 0]
    /\ accepted = {}
    /\ chan = << >>
    /\ written = << >>
    /\ writer = "running"
    /\ serverAlive = TRUE
    /\ main = "select"
    /\ granted = {}
    /\ acceptErr = FALSE

-----------------------------------------------------------------------------
(* Connection handlers (server.rs).                                        *)

\* Server::new: the accept loop hands a new peer a Connection with an empty
\* AuditLog; only while the accept future is still being polled.
NewConnection(c) ==
    /\ main = "select"
    /\ phase[c] = "unborn"
    /\ phase' = [phase EXCEPT ![c] = "auth"]
    /\ UNCHANGED <<login, actions, envs, events, accepted, pipeVars,
                   serverAlive, main, acceptErr, granted>>

\* A client event for connection c in one of the phases ph: counted against
\* MaxEvents.
ClientEvent(c, ph) ==
    /\ Running
    /\ phase[c] \in ph
    /\ events[c] < MaxEvents
    /\ events' = [events EXCEPT ![c] = @ + 1]

\* auth_password, first half of try_login: `seen` on the shared store and,
\* on a miss, the draw `fastrand::f64() <= access_probability` (the draw k
\* does not matter on a hit).
TryLoginCheck(c, p) ==
    /\ ClientEvent(c, {"auth"})
    /\ \E k \in Samples :
          login' = [login EXCEPT ![c] =
                      [pw |-> p, hit |-> p \in accepted,
                       accept |-> p \in accepted \/ k <= AccessNumerator,
                       known |-> p \in granted]]
    /\ phase' = [phase EXCEPT ![c] = "checking"]
    /\ UNCHANGED <<actions, envs, accepted, pipeVars, serverAlive, main, acceptErr,
                   granted>>

\* Mutant: the random-accept branch of try_login forgets to `store`.
TryLoginFinishNoStore(c) ==
    LET l == login[c] IN
    /\ Running
    /\ phase[c] = "checking"
    /\ accepted' = accepted
    /\ actions' = [actions EXCEPT ![c] = Append(@, [kind |-> "LoginPassword",
                                                    pw |-> l.pw])]
    /\ phase' = [phase EXCEPT ![c] = IF l.accept THEN "session" ELSE "auth"]
    /\ granted' = IF l.accept THEN granted \cup {l.pw} ELSE granted
    /\ login' = [login EXCEPT ![c] = NoLogin]
    /\ UNCHANGED <<envs, events, pipeVars, serverAlive, main, acceptErr>>

\* auth_password, rest of try_login: `store` on a random accept, push the
\* LoginAttempt, answer Auth::Accept or Auth::Partial (retry).
TryLoginFinish(c) ==
    LET l == login[c] IN
    /\ Running
    /\ phase[c] = "checking"
    /\ accepted' = IF l.accept /\ ~l.hit THEN accepted \cup {l.pw} ELSE accepted
    /\ actions' = [actions EXCEPT ![c] = Append(@, [kind |-> "LoginPassword",
                                                    pw |-> l.pw])]
    /\ phase' = [phase EXCEPT ![c] = IF l.accept THEN "session" ELSE "auth"]
    /\ granted' = IF l.accept THEN granted \cup {l.pw} ELSE granted
    /\ login' = [login EXCEPT ![c] = NoLogin]
    /\ UNCHANGED <<envs, events, pipeVars, serverAlive, main, acceptErr>>

\* auth_publickey: push the LoginAttempt, answer Auth::Reject.
AuthPublickey(c) ==
    /\ ClientEvent(c, {"auth"})
    /\ actions' = [actions EXCEPT ![c] = Append(@, Act("LoginPublicKey"))]
    /\ UNCHANGED <<phase, login, envs, accepted, pipeVars, serverAlive, main, acceptErr,
                   granted>>

\* A channel-level handler that pushes one audit action of kind k and then
\* answers channel_success, channel_failure or false.
Push(c, k) ==
    /\ ClientEvent(c, {"session"})
    /\ actions' = [actions EXCEPT ![c] = Append(@, Act(k))]
    /\ UNCHANGED <<phase, login, envs, accepted, pipeVars, serverAlive, main, acceptErr,
                   granted>>

ChannelOpenX11(c) == Push(c, "OpenX11")
ChannelOpenDirectTcpip(c) == Push(c, "OpenDirectTcpIp")
WindowAdjusted(c) == Push(c, "WindowAdjusted")
PtyRequest(c) == Push(c, "PtyRequest")
X11Request(c) == Push(c, "X11Request")
ShellRequest(c) == Push(c, "ShellRequested")
SubsystemRequest(c) == Push(c, "SubsystemRequest")
WindowChangeRequest(c) == Push(c, "WindowChangeRequest")
Signal(c) == Push(c, "Signal")
TcpipForward(c) == Push(c, "TcpIpForward")
CancelTcpipForward(c) == Push(c, "CancelTcpIpForward")

\* data and exec_request: shlex::split of the bytes; when it parses, the
\* command is emulated and then an ExecCommand is pushed; when it does not,
\* nothing is recorded (exec answers channel_failure).
RunParsed(c) ==
    /\ ClientEvent(c, {"session"})
    /\ \E parsed \in BOOLEAN :
          actions' = IF parsed
                     THEN [actions EXCEPT ![c] = Append(@, Act("ExecCommand"))]
                     ELSE actions
    /\ UNCHANGED <<phase, login, envs, accepted, pipeVars, serverAlive, main, acceptErr,
                   granted>>

Data(c) == RunParsed(c)
ExecRequest(c) == RunParsed(c)

\* env_request: the pair goes to environment_variables, not to actions.
EnvRequest(c) ==
    /\ ClientEvent(c, {"session"})
    /\ envs' = [envs EXCEPT ![c] = Append(@, "EnvPair")]
    /\ UNCHANGED <<phase, login, actions, accepted, pipeVars, serverAlive, main, acceptErr,
                   granted>>

\* Mutant: finalisation is not idempotent; a second close path sends the
\* AuditLog again.
DropNotIdempotent(c) ==
    /\ Running
    /\ phase[c] \in {"auth", "session", "closed"}
    /\ phase' = [phase EXCEPT ![c] = "closed"]
    /\ chan' = IF writer = "running"
               THEN Append(chan, [conn |-> c, actions |-> actions[c],
                                  envs |-> envs[c]])
               ELSE chan
    /\ UNCHANGED <<login, actions, envs, events, accepted, written, writer,
                   serverAlive, main, acceptErr, granted>>

\* Mutant: only connections that reached a session hand their AuditLog over.
DropOnlyAuthenticated(c) ==
    /\ Running
    /\ phase[c] \in {"auth", "session"}
    /\ phase' = [phase EXCEPT ![c] = "closed"]
    /\ chan' = IF writer = "running" /\ phase[c] = "session"
               THEN Append(chan, [conn |-> c, actions |-> actions[c],
                                  envs |-> envs[c]])
               ELSE chan
    /\ UNCHANGED <<login, actions, envs, events, accepted, written, writer,
                   serverAlive, main, acceptErr, granted>>

\* impl Drop for Connection: the connection ends (client disconnect, error or
\* inactivity timeout) and its AuditLog is sent; `send` fails, and the error
\* is ignored, once the writer task has ended and dropped the receiver.
\* try_login is synchronous, so a connection is never dropped inside it.
Drop(c) ==
    /\ Running
    /\ phase[c] \in {"auth", "session"}
    /\ phase' = [phase EXCEPT ![c] = "closed"]
    /\ chan' = IF writer = "running"
               THEN Append(chan, [conn |-> c, actions |-> actions[c],
                                  envs |-> envs[c]])
               ELSE chan
    /\ UNCHANGED <<login, actions, envs, events, accepted, written, writer,
                   serverAlive, main, acceptErr, granted>>

-----------------------------------------------------------------------------
(* The audit writer task (audit.rs, modelled from the spec, section 4.3).  *)

\* Receive the oldest AuditLog, write it as one line and flush.
WriteAuditLog ==
    /\ Running
    /\ writer = "running"
    /\ chan # << >>
    /\ written' = Append(written, Head(chan))
    /\ chan' = Tail(chan)
    /\ UNCHANGED <<connVars, accepted, writer, serverAlive, main, acceptErr, granted>>

\* An I/O error ends the task; the receiver and what it still buffers are
\* dropped.
AuditWriterFails ==
    /\ Running
    /\ writer = "running"
    /\ writer' = "failed"
    /\ chan' = << >>
    /\ UNCHANGED <<connVars, accepted, written, serverAlive, main, acceptErr, granted>>

\* Mutant: the writer stops as soon as its buffer is empty.
AuditWriterFinishesWhenEmpty ==
    /\ Running
    /\ writer = "running"
    /\ chan = << >>
    /\ writer' = "done"
    /\ UNCHANGED <<connVars, accepted, chan, written, serverAlive, main, acceptErr, granted>>

\* recv() returns None: the buffer is empty and every sender is gone.
AuditWriterFinishes ==
    /\ Running
    /\ writer = "running"
    /\ chan = << >>
    /\ AllSendersDropped
    /\ writer' = "done"
    /\ UNCHANGED <<connVars, accepted, chan, written, serverAlive, main, acceptErr, granted>>

-----------------------------------------------------------------------------
(* main.rs run(): the select! and the final await of the audit handle.     *)

\* `res = fut => res?` when thrussh::server::run fails to bind the listen
\* address: it returns Err before the accept loop hands out any connection,
\* and `?` returns it from run() at once.
ServerBindFails ==
    /\ main = "select"
    /\ \A c \in Conn : phase[c] = "unborn"
    /\ main' = "exitServerErr"
    /\ serverAlive' = FALSE
    /\ UNCHANGED <<connVars, accepted, pipeVars, acceptErr, granted>>

\* Mutant: the accept loop's error is returned from thrussh::server::run,
\* so `res?` leaves run() at once, before the audit drain.
AcceptLoopReturnsErr ==
    /\ main = "select"
    /\ main' = "exitServerErr"
    /\ serverAlive' = FALSE
    /\ acceptErr' = TRUE
    /\ UNCHANGED <<connVars, accepted, pipeVars, granted>>

\* `res = fut => res?` when accept() fails: thrussh's loop
\* `while let Ok(..) = socket.accept().await` ends and run returns Ok(()),
\* so `res?` yields () and run() goes on to drain the audit handle; the
\* future and its Server (a sender) are dropped.
AcceptLoopEnds ==
    /\ main = "select"
    /\ main' = "draining"
    /\ serverAlive' = FALSE
    /\ acceptErr' = TRUE
    /\ UNCHANGED <<connVars, accepted, pipeVars, granted>>

\* `res = &mut audit_handle => res??`: the writer task ended first.  An
\* error leaves run(); Ok goes on to `audit_handle.await` on a Fuse that has
\* already completed, which never returns.
AuditHandleReturns ==
    /\ main = "select"
    /\ writer # "running"
    /\ main' = IF writer = "failed" THEN "exitAuditErr" ELSE "hung"
    /\ serverAlive' = FALSE
    /\ UNCHANGED <<connVars, accepted, pipeVars, acceptErr, granted>>

\* Mutant: run() keeps its own clone of the Server, so a sender outlives
\* the accept future.
CtrlCKeepsSender ==
    /\ main = "select"
    /\ main' = "draining"
    /\ UNCHANGED <<connVars, accepted, pipeVars, serverAlive, acceptErr,
                   granted>>

\* `tokio::signal::ctrl_c()`: shutdown starts; `fut` is dropped.
CtrlC ==
    /\ main = "select"
    /\ main' = "draining"
    /\ serverAlive' = FALSE
    /\ UNCHANGED <<connVars, accepted, pipeVars, acceptErr, granted>>

\* `audit_handle.await??` after the select: exit 0 once the writer is done,
\* exit 1 (main's process::exit(1)) if it failed.
AwaitAuditHandle ==
    /\ main = "draining"
    /\ writer # "running"
    /\ main' = IF writer = "done" THEN "exitOk" ELSE "exitAuditErr"
    /\ UNCHANGED <<connVars, accepted, pipeVars, serverAlive, acceptErr,
                   granted>>

-----------------------------------------------------------------------------
ConnStep(c) ==
    \/ NewConnection(c)
    \/ \E p \in Password : TryLoginCheck(c, p)
    \/ TryLoginFinish(c)
    \/ AuthPublickey(c)
    \/ ChannelOpenX11(c)
    \/ ChannelOpenDirectTcpip(c)
    \/ Data(c)
    \/ WindowAdjusted(c)
    \/ PtyRequest(c)
    \/ X11Request(c)
    \/ EnvRequest(c)
    \/ ShellRequest(c)
    \/ ExecRequest(c)
    \/ SubsystemRequest(c)
    \/ WindowChangeRequest(c)
    \/ Signal(c)
    \/ TcpipForward(c)
    \/ CancelTcpipForward(c)
    \/ Drop(c)

Next ==
    \/ \E c \in Conn : ConnStep(c)
    \/ WriteAuditLog
    \/ AuditWriterFails
    \/ AuditWriterFinishes
    \/ ServerBindFails
    \/ AcceptLoopEnds
    \/ AuditHandleReturns
    \/ CtrlC
    \/ AwaitAuditHandle

Spec == Init /\ [][Next]_vars

\* Fairness the code justifies: thrussh closes idle connections after its
\* default connection_timeout; a try_login runs to its end; tokio keeps
\* polling the writer task and the main future.  No fairness for the
\* client's events, for ctrl-c, for the accept loop or for I/O errors.
Fairness ==
    /\ \A c \in Conn : WF_vars(Drop(c)) /\ WF_vars(TryLoginFinish(c))
    /\ WF_vars(WriteAuditLog)
    /\ WF_vars(AuditWriterFinishes)
    /\ WF_vars(AuditHandleReturns)
    /\ WF_vars(AwaitAuditHandle)

FairSpec == Spec /\ Fairness

-----------------------------------------------------------------------------
(* Refinement of the atomic credential store (CredentialStore).           *)

\* The try_login calls in flight whose outcome was already fixed by `seen`
\* (server.rs:81-99): a hit, or a miss whose draw rejects.  They take effect
\* at the check; a miss that accepts takes effect at its `store`.
Decided ==
    {c \in Conn : phase[c] = "checking" /\ (login[c].hit \/ ~login[c].accept)}

\* The password attempts recorded in an audit action sequence s of
\* connection c: the LoginAttempt actions try_login pushes
\* (server.rs:101-106).
LoginPairs(c, s) ==
    {<<c, s[i].pw>> : i \in {j \in 1 .. Len(s) : s[j].kind = "LoginPassword"}}

\* The password attempts connection c has had answered: those it recorded,
\* and a decided call in flight.
TriedBy(c) ==
    LoginPairs(c, actions[c])
    \cup (IF c \in Decided THEN {<<c, login[c].pw>>} ELSE {})

Tried == UNION {TriedBy(c) : c \in Conn}

\* The live connections answered Auth::Accept (server.rs:154-155).
Authed ==
    {c \in Conn : phase[c] = "session"} \cup {c \in Decided : login[c].accept}

CS == INSTANCE CredentialStore WITH store <- accepted, tried <- Tried,
                                    authed <- Authed

-----------------------------------------------------------------------------
(* Properties.                                                             *)

TypeOK ==
    /\ phase \in [Conn -> {"unborn", "closed"} \cup Live]
    /\ login \in [Conn -> LoginState]
    /\ actions \in [Conn -> Seq(Action)]
    /\ envs \in [Conn -> Seq(EnvPair)]
    /\ events \in [Conn -> 0 .. MaxEvents]
    /\ accepted \subseteq Password
    /\ chan \in Seq(Record)
    /\ written \in Seq(Record)
    /\ writer \in {"running", "done", "failed"}
    /\ serverAlive \in BOOLEAN
    /\ main \in {"select", "draining", "hung"} \cup Exited
    /\ granted \subseteq Password
    /\ acceptErr \in BOOLEAN
    /\ \A c \in Conn : phase[c] = "checking" => login[c].pw \in Password

\* Replay consistency of try_login (server.rs:80-99): although `seen` and
\* `store` are separate calls that other connections interleave with, a
\* password check that starts after some connection has been answered
\* Auth::Accept for that password always decides to accept.
ReplayConsistency ==
    \A c \in Conn : phase[c] = "checking" /\ login[c].known => login[c].accept

\* try_login answers Auth::Accept only for a stored password
\* (server.rs:80-99, answered at server.rs:154-155): every step in which a
\* connection's password check ends in a session leaves the submitted
\* password in previously_accepted_passwords, whether `seen` found it there
\* before other connections ran or the draw accepted it and `store` added it.
AcceptedPasswordStored ==
    [][\A c \in Conn :
          phase[c] = "checking" /\ phase'[c] = "session" =>
              login[c].pw \in accepted']_vars

\* Every session was let in by a password its AuditLog records and the
\* shared store holds (try_login pushes the LoginAttempt at
\* server.rs:101-106 and answers Auth::Accept at server.rs:154-155): the
\* last LoginPassword action of a connection in a session, the attempt
\* that was answered Accept, has its password in
\* previously_accepted_passwords, however the connections' checks and
\* stores interleaved.
SessionLoggedPassword ==
    \A c \in Conn : phase[c] = "session" =>
        \E i \in 1 .. Len(actions[c]) :
            /\ actions[c][i].kind = "LoginPassword"
            /\ actions[c][i].pw \in accepted
            /\ \A j \in (i + 1) .. Len(actions[c]) :
                  actions[c][j].kind # "LoginPassword"

\* The AuditLog hand-off in Drop (server.rs:568-579): every AuditLog in the
\* channel or in the file belongs to a connection that has ended, holds all
\* the actions and environment pairs that connection recorded, and no
\* connection's log is handed over twice.
LogsHandedOverOnce ==
    LET logs == written \o chan IN
    /\ \A i \in 1 .. Len(logs) :
          /\ phase[logs[i].conn] = "closed"
          /\ logs[i].actions = actions[logs[i].conn]
          /\ logs[i].envs = envs[logs[i].conn]
    /\ \A i, j \in 1 .. Len(logs) : i # j => logs[i].conn # logs[j].conn

\* Graceful shutdown is lossless (main.rs:61-68 with Drop and the writer):
\* when the process exits with status 0, every connection it accepted has
\* its AuditLog written to the audit file.
GracefulShutdownLossless ==
    main = "exitOk" =>
        \A c \in Conn : phase[c] # "unborn" =>
            \E i \in 1 .. Len(written) : written[i].conn = c

\* The unbounded audit channel (main.rs:50, Drop at server.rs:575-578) holds
\* exactly the backlog of ended connections: while the writer task has not
\* failed, the AuditLogs written plus those still queued are as many as the
\* connections that have ended, so the channel grows by one entry per ended
\* connection and by nothing else, and no ended connection's log is missing.
AuditBacklogAccounted ==
    writer # "failed" =>
        Len(written) + Len(chan) = Cardinality({c \in Conn : phase[c] = "closed"})

\* try_login is linearizable (server.rs:80-108): although `seen` and `store`
\* are separate calls on the shared store, every behaviour of the
\* connections is one of the atomic credential store, with the store of
\* previously accepted passwords, the answered attempts and the accepted
\* connections as its state.
CredentialStoreRefined == CS!Spec

\* Shutdown terminates (main.rs:58-68): once ctrl-c or the accept loop has
\* started the drain, or the writer task has ended, the process exits; it
\* never waits forever on the audit handle.
EventuallyExits ==
    (main = "draining" \/ writer # "running") ~> (main \in Exited)

\* Spec 4.3 and 4.4: the process does not exit before the audit pipeline
\* has drained: it never exits while a finished AuditLog still waits in the
\* channel, whichever of the select! branches (main.rs:58-64) ended first.
ExitOnlyAfterDrain ==
    main \in Exited => chan = << >>

\* Spec 4.4: the first error surfaced by the engine becomes the process's
\* failure cause: after the accept loop of thrussh::server::run ended on an
\* error, run() (main.rs:59, 66-70) does not report success.
AcceptErrorIsExitCause ==
    acceptErr => main # "exitOk"

\* Spec section 8: with access_probability = 0 no password is ever accepted
\* (server.rs:89 compares fastrand::f64() <= access_probability).
ZeroProbabilityRejects ==
    AccessNumerator = 0 => granted = {}

=============================================================================
