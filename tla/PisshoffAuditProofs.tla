------------------------- MODULE PisshoffAuditProofs -------------------------
(***************************************************************************)
(* Proof that the AuditLog hand-off of Drop (server.rs:568-579) is         *)
(* exactly-once and complete for every number of connections: every log   *)
(* in the audit channel or the audit file belongs to an ended connection,  *)
(* holds everything that connection recorded, and no connection's log     *)
(* appears twice.                                                          *)
(***************************************************************************)
EXTENDS PisshoffProofs, SequenceTheorems

USE ConstAssumption

\* An AuditLog r as Drop handed it over: its connection has ended, and the
\* connection's actions and environment pairs are those in the log.
HandedOver(r) ==
    /\ phase[r.conn] = "closed"
    /\ r.actions = actions[r.conn]
    /\ r.envs = envs[r.conn]

\* No two logs of the sequence s belong to the same connection.
OnePerConn(s) == \A i, j \in 1 .. Len(s) : i # j => s[i].conn # s[j].conn

\* The inductive strengthening of LogsHandedOverOnce, stated on the file and
\* the channel separately: a log is only created by the Drop of a
\* connection that has not ended, and an ended connection records nothing
\* more, so every log stays equal to its connection's final state.
LogsInv ==
    /\ \A i \in 1 .. Len(written) : HandedOver(written[i])
    /\ \A i \in 1 .. Len(chan) : HandedOver(chan[i])
    /\ OnePerConn(written)
    /\ OnePerConn(chan)
    /\ \A i \in 1 .. Len(written), j \in 1 .. Len(chan) :
          written[i].conn # chan[j].conn

AuditInv == TypeOK /\ LogsInv

-----------------------------------------------------------------------------

\* Every log in the file and in the channel names a connection.
LEMMA LogConns ==
    ASSUME TypeOK
    PROVE  /\ \A i \in 1 .. Len(written) : written[i].conn \in Conn
           /\ \A i \in 1 .. Len(chan) : chan[i].conn \in Conn
<1>1. \A i \in 1 .. Len(written) : written[i] \in Record
  BY DEF TypeOK
<1>2. \A i \in 1 .. Len(chan) : chan[i] \in Record
  BY DEF TypeOK
<1>3. QED
  BY <1>1, <1>2 DEF Record

\* A step that leaves the channel and the file alone, and every ended
\* connection's phase, actions and environment pairs as they were, keeps
\* the logs handed over.
LEMMA LogsFrame ==
    ASSUME TypeOK, LogsInv, UNCHANGED <<chan, written>>,
           \A d \in Conn : phase[d] = "closed" =>
              /\ phase'[d] = "closed"
              /\ actions'[d] = actions[d]
              /\ envs'[d] = envs[d]
    PROVE  LogsInv'
<1>1. \A i \in 1 .. Len(written) : written[i].conn \in Conn
  BY LogConns
<1>2. \A i \in 1 .. Len(chan) : chan[i].conn \in Conn
  BY LogConns
<1>3. QED
  BY <1>1, <1>2 DEF LogsInv, HandedOver, OnePerConn

\* A connection handler other than Drop steps a connection that has not
\* ended and does not end it.
LEMMA HandlerFrame ==
    ASSUME TypeOK, LogsInv, NEW c \in Conn,
           phase[c] # "closed", phase'[c] # "closed",
           phase' = [phase EXCEPT ![c] = phase'[c]],
           \A d \in Conn \ {c} : actions'[d] = actions[d] /\ envs'[d] = envs[d],
           UNCHANGED <<chan, written>>
    PROVE  LogsInv'
<1>1. \A d \in Conn : phase[d] = "closed" =>
         /\ phase'[d] = "closed"
         /\ actions'[d] = actions[d]
         /\ envs'[d] = envs[d]
  BY DEF TypeOK
<1>2. QED
  BY <1>1, LogsFrame

-----------------------------------------------------------------------------

\* Drop of connection c hands over a log that no other log shares a
\* connection with, and ends c.
LEMMA DropLogs ==
    ASSUME TypeOK, LogsInv, NEW c \in Conn, Drop(c)
    PROVE  LogsInv'
<1> DEFINE r == [conn |-> c, actions |-> actions[c], envs |-> envs[c]]
<1>1. /\ phase[c] \in {"auth", "session"} /\ phase' = [phase EXCEPT ![c] = "closed"]
      /\ UNCHANGED <<actions, envs, written>>
      /\ chan' = IF writer = "running" THEN Append(chan, r) ELSE chan
  BY DEF Drop
<1>2. /\ \A i \in 1 .. Len(written) : written[i].conn \in Conn \ {c}
      /\ \A i \in 1 .. Len(chan) : chan[i].conn \in Conn \ {c}
  BY <1>1, LogConns DEF LogsInv, HandedOver
<1>3. \A d \in Conn \ {c} : phase'[d] = phase[d]
  BY <1>1 DEF TypeOK
<1>4. CASE writer = "running"
  <2>1. r \in Record
    BY DEF TypeOK, Record
  <2>2. /\ Len(chan') = Len(chan) + 1
        /\ \A i \in 1 .. Len(chan) : chan'[i] = chan[i]
        /\ chan'[Len(chan) + 1] = r
    BY <1>1, <1>4, <2>1, AppendProperties DEF TypeOK
  <2>3. HandedOver(r)'
    BY <1>1 DEF HandedOver, TypeOK
  <2>4. \A i \in 1 .. Len(chan') : chan'[i] = r \/ (chan'[i] = chan[i] /\ i \in 1 .. Len(chan))
    BY <2>2
  <2>5. QED
    BY <1>1, <1>2, <1>3, <2>2, <2>3, <2>4 DEF LogsInv, HandedOver, OnePerConn
<1>5. CASE writer # "running"
  BY <1>1, <1>2, <1>3, <1>5 DEF LogsInv, HandedOver, OnePerConn
<1>6. QED
  BY <1>4, <1>5

\* The writer moves the oldest log from the channel to the file.
LEMMA WriteLogs ==
    ASSUME TypeOK, LogsInv, WriteAuditLog
    PROVE  LogsInv'
<1>1. /\ chan # << >>
      /\ written' = Append(written, Head(chan)) /\ chan' = Tail(chan)
      /\ UNCHANGED <<phase, actions, envs>>
  BY DEF WriteAuditLog, connVars
<1>2. /\ Head(chan) \in Record
      /\ Len(chan') = Len(chan) - 1
      /\ \A i \in 1 .. Len(chan') : chan'[i] = chan[i + 1]
  BY <1>1, HeadTailProperties DEF TypeOK
<1>3. /\ Len(written') = Len(written) + 1
      /\ \A i \in 1 .. Len(written) : written'[i] = written[i]
      /\ written'[Len(written) + 1] = chan[1]
  BY <1>1, <1>2, AppendProperties DEF TypeOK
<1>4. Len(chan) >= 1
  BY <1>1 DEF TypeOK
<1>5. \A i \in 1 .. Len(written') : HandedOver(written'[i])
  BY <1>3, <1>4 DEF LogsInv
<1>6. (\A i \in 1 .. Len(written) : HandedOver(written[i]))'
  BY <1>1, <1>5 DEF HandedOver
<1>7. \A i \in 1 .. Len(chan') : HandedOver(chan'[i])
  BY <1>2, <1>4 DEF LogsInv
<1>8. (\A i \in 1 .. Len(chan) : HandedOver(chan[i]))'
  BY <1>1, <1>7 DEF HandedOver
<1>9. OnePerConn(written')
  BY <1>3, <1>4 DEF LogsInv, OnePerConn
<1>10. OnePerConn(chan')
  BY <1>2, <1>4 DEF LogsInv, OnePerConn
<1>11. \A i \in 1 .. Len(written'), j \in 1 .. Len(chan') :
          written'[i].conn # chan'[j].conn
  BY <1>2, <1>3, <1>4 DEF LogsInv, OnePerConn
<1>12. QED
  BY <1>6, <1>8, <1>9, <1>10, <1>11 DEF LogsInv

\* Every step keeps the logs handed over.
LEMMA AuditStep == AuditInv /\ [Next]_vars => AuditInv'
<1> SUFFICES ASSUME TypeOK, LogsInv, [Next]_vars PROVE LogsInv'
  BY TypeStep DEF AuditInv
<1>1. ASSUME NEW c \in Conn, NewConnection(c) PROVE LogsInv'
  BY <1>1, HandlerFrame DEF NewConnection, TypeOK, pipeVars
<1>2. ASSUME NEW c \in Conn, NEW p \in Password, TryLoginCheck(c, p)
      PROVE  LogsInv'
  BY <1>2, HandlerFrame DEF TryLoginCheck, ClientEvent, TypeOK, pipeVars
<1>3. ASSUME NEW c \in Conn, TryLoginFinish(c) PROVE LogsInv'
  <2>1. /\ phase[c] = "checking"
        /\ phase'[c] \in {"session", "auth"}
        /\ phase' = [phase EXCEPT ![c] = phase'[c]]
    BY <1>3 DEF TryLoginFinish, TypeOK
  <2>2. \A d \in Conn \ {c} : actions'[d] = actions[d] /\ envs'[d] = envs[d]
    BY <1>3 DEF TryLoginFinish, TypeOK
  <2>3. QED
    BY <1>3, <2>1, <2>2, HandlerFrame DEF TryLoginFinish, pipeVars
<1>4. ASSUME NEW c \in Conn,
             \/ AuthPublickey(c)
             \/ \E k \in Kinds : Push(c, k)
             \/ RunParsed(c)
             \/ EnvRequest(c)
      PROVE  LogsInv'
  <2>1. /\ phase[c] \in {"auth", "session"}
        /\ phase' = phase
        /\ \A d \in Conn \ {c} : actions'[d] = actions[d] /\ envs'[d] = envs[d]
        /\ UNCHANGED <<chan, written>>
    BY <1>4 DEF AuthPublickey, Push, RunParsed, EnvRequest, ClientEvent,
       TypeOK, pipeVars
  <2>2. phase' = [phase EXCEPT ![c] = phase'[c]]
    BY <2>1 DEF TypeOK
  <2>3. QED
    BY <2>1, <2>2, HandlerFrame
<1>5. ASSUME NEW c \in Conn, Drop(c) PROVE LogsInv'
  BY <1>5, DropLogs
<1>6. CASE WriteAuditLog
  BY <1>6, WriteLogs
<1>7. CASE AuditWriterFails
  <2>1. chan' = << >> /\ UNCHANGED <<written, phase, actions, envs>>
    BY <1>7 DEF AuditWriterFails, connVars
  <2>2. QED
    BY <2>1 DEF LogsInv, HandedOver, OnePerConn
<1>8. CASE \/ AuditWriterFinishes \/ ServerBindFails \/ AcceptLoopEnds \/ AuditHandleReturns
           \/ CtrlC \/ AwaitAuditHandle \/ UNCHANGED vars
  <2>1. UNCHANGED <<chan, written, phase, actions, envs>>
    BY <1>8 DEF AuditWriterFinishes, ServerBindFails, AcceptLoopEnds, AuditHandleReturns,
       CtrlC, AwaitAuditHandle, vars, connVars, pipeVars
  <2>2. QED
    BY <2>1, LogsFrame
<1>9. QED
  BY <1>1, <1>2, <1>3, <1>4, <1>5, <1>6, <1>7, <1>8
  DEF Next, ConnStep, Data, ExecRequest, ChannelOpenX11,
      ChannelOpenDirectTcpip, WindowAdjusted, PtyRequest, X11Request,
      ShellRequest, SubsystemRequest, WindowChangeRequest, Signal,
      TcpipForward, CancelTcpipForward, Kinds

\* The AuditLog hand-off of Drop (LogsHandedOverOnce), for every number of
\* connections: every log in the audit channel or the audit file belongs to
\* a connection that has ended, holds all the actions and environment pairs
\* that connection recorded, and no connection's log is handed over twice.
THEOREM HandedOverOnce == Spec => []LogsHandedOverOnce
<1>1. Init => AuditInv
  BY InitTypeOK DEF Init, AuditInv, LogsInv, OnePerConn, NoLogin, LoginState, Live
<1>2. AuditInv => LogsHandedOverOnce
  <2> SUFFICES ASSUME TypeOK, LogsInv PROVE LogsHandedOverOnce
    BY DEF AuditInv
  <2> DEFINE logs == written \o chan
  <2>1. /\ Len(logs) = Len(written) + Len(chan)
        /\ \A i \in 1 .. Len(logs) :
              logs[i] = IF i <= Len(written) THEN written[i]
                        ELSE chan[i - Len(written)]
    BY ConcatProperties DEF TypeOK
  <2>2. \A i \in 1 .. Len(logs) : HandedOver(logs[i])
    BY <2>1 DEF LogsInv
  <2>3. \A i, j \in 1 .. Len(logs) : i # j => logs[i].conn # logs[j].conn
    BY <2>1 DEF LogsInv, OnePerConn
  <2>4. QED
    BY <2>2, <2>3 DEF LogsHandedOverOnce, HandedOver
<1>3. QED
  BY <1>1, <1>2, AuditStep, PTL DEF Spec

-----------------------------------------------------------------------------
(* Lossless graceful shutdown.                                             *)

\* The log of connection c is in the audit file or in the channel.
Logged(c) ==
    \/ \E i \in 1 .. Len(written) : written[i].conn = c
    \/ \E i \in 1 .. Len(chan) : chan[i].conn = c

\* The inductive strengthening of GracefulShutdownLossless.  The Server of
\* the accept future lives exactly as long as the select! (ServerAlive); the
\* writer ends Ok only once the channel is empty and every sender is gone
\* (DoneDrained), after which no connection can be accepted or dropped; run()
\* returns Ok only after the writer ended Ok (ExitOkDone); and while the
\* writer has not failed, every ended connection's log is written or queued.
ServerAlive == serverAlive = (main = "select")

DoneDrained ==
    writer = "done" =>
        /\ chan = << >>
        /\ ~serverAlive
        /\ \A c \in Conn : phase[c] \notin Live

ExitOkDone == main = "exitOk" => writer = "done"

EndedLogged ==
    writer # "failed" => \A c \in Conn : phase[c] = "closed" => Logged(c)

ShutdownInv == TypeOK /\ ServerAlive /\ DoneDrained /\ ExitOkDone /\ EndedLogged

\* A handler that keeps connection c live and leaves the pipeline and the
\* select! alone keeps the strengthening.
LEMMA LiveFrame ==
    ASSUME TypeOK, ServerAlive, DoneDrained, ExitOkDone, EndedLogged,
           NEW c \in Conn, phase[c] \in Live, phase'[c] \in Live,
           phase' = [phase EXCEPT ![c] = phase'[c]],
           UNCHANGED <<chan, written, writer, serverAlive, main>>
    PROVE  (ServerAlive /\ DoneDrained /\ ExitOkDone /\ EndedLogged)'
<1>1. writer # "done"
  BY DEF DoneDrained
<1>2. \A d \in Conn : phase'[d] = "closed" => phase[d] = "closed"
  BY DEF TypeOK, Live
<1>3. QED
  BY <1>1, <1>2 DEF ServerAlive, DoneDrained, ExitOkDone, EndedLogged, Logged

\* Every step keeps the strengthening of GracefulShutdownLossless.
LEMMA ShutdownStep == ShutdownInv /\ [Next]_vars => ShutdownInv'
<1> SUFFICES ASSUME TypeOK, ServerAlive, DoneDrained, ExitOkDone, EndedLogged,
                    [Next]_vars
             PROVE  (ServerAlive /\ DoneDrained /\ ExitOkDone /\ EndedLogged)'
  BY TypeStep DEF ShutdownInv
<1>1. ASSUME NEW c \in Conn, NewConnection(c)
      PROVE  (ServerAlive /\ DoneDrained /\ ExitOkDone /\ EndedLogged)'
  <2>1. writer # "done" /\ phase[c] = "unborn" /\ phase'[c] = "auth"
    BY <1>1 DEF NewConnection, ServerAlive, DoneDrained, TypeOK
  <2>2. \A d \in Conn : phase'[d] = "closed" => phase[d] = "closed"
    BY <1>1 DEF NewConnection, TypeOK
  <2>3. QED
    BY <1>1, <2>1, <2>2 DEF NewConnection, pipeVars, ServerAlive, DoneDrained,
       ExitOkDone, EndedLogged, Logged
<1>2. ASSUME NEW c \in Conn, NEW p \in Password, TryLoginCheck(c, p)
      PROVE  (ServerAlive /\ DoneDrained /\ ExitOkDone /\ EndedLogged)'
  BY <1>2, LiveFrame DEF TryLoginCheck, ClientEvent, Live, TypeOK, pipeVars
<1>3. ASSUME NEW c \in Conn, TryLoginFinish(c)
      PROVE  (ServerAlive /\ DoneDrained /\ ExitOkDone /\ EndedLogged)'
  <2>1. /\ phase[c] \in Live /\ phase'[c] \in Live
        /\ phase' = [phase EXCEPT ![c] = phase'[c]]
    BY <1>3 DEF TryLoginFinish, Live, TypeOK
  <2>2. QED
    BY <1>3, <2>1, LiveFrame DEF TryLoginFinish, pipeVars
<1>4. ASSUME NEW c \in Conn,
             \/ AuthPublickey(c)
             \/ \E k \in Kinds : Push(c, k)
             \/ RunParsed(c)
             \/ EnvRequest(c)
      PROVE  (ServerAlive /\ DoneDrained /\ ExitOkDone /\ EndedLogged)'
  <2>1. /\ phase[c] \in Live /\ phase' = phase
        /\ UNCHANGED <<chan, written, writer, serverAlive, main>>
    BY <1>4 DEF AuthPublickey, Push, RunParsed, EnvRequest, ClientEvent,
       Live, pipeVars
  <2>2. phase' = [phase EXCEPT ![c] = phase'[c]]
    BY <2>1 DEF TypeOK
  <2>3. QED
    BY <2>1, <2>2, LiveFrame
<1>5. ASSUME NEW c \in Conn, Drop(c)
      PROVE  (ServerAlive /\ DoneDrained /\ ExitOkDone /\ EndedLogged)'
  <2> DEFINE r == [conn |-> c, actions |-> actions[c], envs |-> envs[c]]
  <2>1. /\ phase[c] \in Live /\ phase' = [phase EXCEPT ![c] = "closed"]
        /\ chan' = IF writer = "running" THEN Append(chan, r) ELSE chan
        /\ UNCHANGED <<written, writer, serverAlive, main>>
    BY <1>5 DEF Drop, Live
  <2>2. writer # "done"
    BY <2>1 DEF DoneDrained
  <2>3. CASE writer = "running"
    <3>1. r \in Record
      BY DEF TypeOK, Record
    <3>2. /\ Len(chan') = Len(chan) + 1
          /\ \A i \in 1 .. Len(chan) : chan'[i] = chan[i]
          /\ chan'[Len(chan) + 1] = r
      BY <2>1, <2>3, <3>1, AppendProperties DEF TypeOK
    <3>3. Logged(c)'
      BY <3>2 DEF Logged
    <3>4. \A d \in Conn : Logged(d) => Logged(d)'
      BY <2>1, <3>2 DEF Logged
    <3>5. EndedLogged'
      BY <2>1, <3>3, <3>4 DEF EndedLogged, TypeOK
    <3>6. QED
      BY <2>1, <2>2, <3>5 DEF ServerAlive, DoneDrained, ExitOkDone
  <2>4. CASE writer = "failed"
    BY <2>1, <2>4 DEF ServerAlive, DoneDrained, ExitOkDone, EndedLogged
  <2>5. QED
    BY <2>2, <2>3, <2>4 DEF TypeOK
<1>6. CASE WriteAuditLog
  <2>1. /\ writer = "running" /\ chan # << >>
        /\ written' = Append(written, Head(chan)) /\ chan' = Tail(chan)
        /\ UNCHANGED <<phase, writer, serverAlive, main>>
    BY <1>6 DEF WriteAuditLog, connVars
  <2>2. /\ Head(chan) \in Record
        /\ Len(chan') = Len(chan) - 1
        /\ \A i \in 1 .. Len(chan') : chan'[i] = chan[i + 1]
        /\ Len(chan) >= 1
    BY <2>1, HeadTailProperties DEF TypeOK
  <2>3. /\ Len(written') = Len(written) + 1
        /\ \A i \in 1 .. Len(written) : written'[i] = written[i]
        /\ written'[Len(written) + 1] = chan[1]
    BY <2>1, <2>2, AppendProperties DEF TypeOK
  <2>4. \A d \in Conn : Logged(d) => Logged(d)'
    <3> SUFFICES ASSUME NEW d \in Conn, Logged(d) PROVE Logged(d)'
      OBVIOUS
    <3>1. CASE \E i \in 1 .. Len(written) : written[i].conn = d
      BY <2>3, <3>1 DEF Logged
    <3>2. CASE chan[1].conn = d
      BY <2>3, <3>2 DEF Logged
    <3>3. CASE \E i \in 2 .. Len(chan) : chan[i].conn = d
      <4>1. PICK i \in 2 .. Len(chan) : chan[i].conn = d
        BY <3>3
      <4>2. i - 1 \in 1 .. Len(chan') /\ chan'[i - 1] = chan[i]
        BY <2>2
      <4>3. QED
        BY <4>1, <4>2 DEF Logged
    <3>4. QED
      BY <2>2, <3>1, <3>2, <3>3 DEF Logged
  <2>5. QED
    BY <2>1, <2>4 DEF ServerAlive, DoneDrained, ExitOkDone, EndedLogged
<1>7. CASE AuditWriterFails
  BY <1>7 DEF AuditWriterFails, connVars, ServerAlive, DoneDrained,
     ExitOkDone, EndedLogged
<1>8. CASE AuditWriterFinishes
  BY <1>8 DEF AuditWriterFinishes, AllSendersDropped, connVars, ServerAlive,
     DoneDrained, ExitOkDone, EndedLogged, Logged
<1>9. CASE ServerBindFails \/ AcceptLoopEnds \/ AuditHandleReturns \/ CtrlC
  BY <1>9 DEF ServerBindFails, AcceptLoopEnds, AuditHandleReturns, CtrlC, connVars,
     pipeVars, ServerAlive, DoneDrained, ExitOkDone, EndedLogged, Logged
<1>10. CASE AwaitAuditHandle
  BY <1>10 DEF AwaitAuditHandle, connVars, pipeVars, ServerAlive,
     DoneDrained, ExitOkDone, EndedLogged, Logged
<1>11. CASE UNCHANGED vars
  BY <1>11 DEF vars, connVars, pipeVars, ServerAlive, DoneDrained,
     ExitOkDone, EndedLogged, Logged
<1>12. QED
  BY <1>1, <1>2, <1>3, <1>4, <1>5, <1>6, <1>7, <1>8, <1>9, <1>10, <1>11
  DEF Next, ConnStep, Data, ExecRequest, ChannelOpenX11,
      ChannelOpenDirectTcpip, WindowAdjusted, PtyRequest, X11Request,
      ShellRequest, SubsystemRequest, WindowChangeRequest, Signal,
      TcpipForward, CancelTcpipForward, Kinds

\* Graceful shutdown is lossless (GracefulShutdownLossless), for every
\* number of connections: when run() returns Ok after ctrl-c and the final
\* await of the audit handle, every connection the accept loop handed a
\* Connection has its AuditLog in the audit file.
THEOREM Lossless == Spec => []GracefulShutdownLossless
<1>1. Init => ShutdownInv
  <2>1. Init => TypeOK
    BY InitTypeOK
  <2>2. Init => ServerAlive /\ DoneDrained /\ ExitOkDone /\ EndedLogged
    BY DEF Init, ServerAlive, DoneDrained, ExitOkDone, EndedLogged
  <2>3. QED
    BY <2>1, <2>2 DEF ShutdownInv
<1>2. ShutdownInv => GracefulShutdownLossless
  <2> SUFFICES ASSUME ShutdownInv, main = "exitOk", NEW c \in Conn,
                      phase[c] # "unborn"
               PROVE  \E i \in 1 .. Len(written) : written[i].conn = c
    BY DEF GracefulShutdownLossless
  <2>1. writer = "done"
    BY DEF ShutdownInv, ExitOkDone
  <2>2. chan = << >> /\ phase[c] \notin Live
    BY <2>1 DEF ShutdownInv, DoneDrained
  <2>3. phase[c] = "closed"
    BY <2>2 DEF ShutdownInv, TypeOK
  <2>4. Logged(c)
    BY <2>1, <2>3 DEF ShutdownInv, EndedLogged
  <2>5. QED
    BY <2>2, <2>4 DEF Logged
<1>3. QED
  BY <1>1, <1>2, ShutdownStep, PTL DEF Spec

-----------------------------------------------------------------------------
(* The password that let a session in.                                     *)

\* The last LoginPassword action of connection c's AuditLog has its password
\* in the store.
LastLoginStored(c) ==
    \E i \in 1 .. Len(actions[c]) :
        /\ actions[c][i].kind = "LoginPassword"
        /\ actions[c][i].pw \in accepted
        /\ \A j \in (i + 1) .. Len(actions[c]) :
              actions[c][j].kind # "LoginPassword"

SessInv == \A c \in Conn : phase[c] = "session" => LastLoginStored(c)

\* A step that leaves c's AuditLog alone and only grows the store keeps it.
LEMMA SessKeep ==
    ASSUME NEW c \in Conn, LastLoginStored(c), actions'[c] = actions[c],
           accepted \subseteq accepted'
    PROVE  LastLoginStored(c)'
BY DEF LastLoginStored

\* Pushing an action other than a password attempt keeps it.
LEMMA SessAppend ==
    ASSUME TypeOK, NEW c \in Conn, NEW a \in Action, LastLoginStored(c),
           a.kind # "LoginPassword", actions'[c] = Append(actions[c], a),
           accepted \subseteq accepted'
    PROVE  LastLoginStored(c)'
<1>1. PICK i \in 1 .. Len(actions[c]) :
          /\ actions[c][i].kind = "LoginPassword"
          /\ actions[c][i].pw \in accepted
          /\ \A j \in (i + 1) .. Len(actions[c]) :
                actions[c][j].kind # "LoginPassword"
  BY DEF LastLoginStored
<1>2. /\ Len(actions'[c]) = Len(actions[c]) + 1
      /\ \A j \in 1 .. Len(actions[c]) : actions'[c][j] = actions[c][j]
      /\ actions'[c][Len(actions[c]) + 1] = a
  BY AppendProperties DEF TypeOK
<1>3. Len(actions[c]) \in Nat
  BY DEF TypeOK
<1>4. QED
  BY <1>1, <1>2, <1>3 DEF LastLoginStored

\* Pushing a password attempt whose password is stored establishes it.
LEMMA SessLogin ==
    ASSUME TypeOK, NEW c \in Conn, NEW a \in Action,
           a.kind = "LoginPassword", a.pw \in accepted',
           actions'[c] = Append(actions[c], a)
    PROVE  LastLoginStored(c)'
<1>1. /\ Len(actions'[c]) = Len(actions[c]) + 1
      /\ actions'[c][Len(actions[c]) + 1] = a
  BY AppendProperties DEF TypeOK
<1>2. Len(actions[c]) \in Nat
  BY DEF TypeOK
<1>3. QED
  BY <1>1, <1>2 DEF LastLoginStored

\* The store never shrinks.
LEMMA StoreGrows == TypeOK /\ [Next]_vars => accepted \subseteq accepted'
BY DEF Next, ConnStep, vars, NewConnection, TryLoginCheck, TryLoginFinish,
   AuthPublickey, ChannelOpenX11, ChannelOpenDirectTcpip, Data, WindowAdjusted,
   PtyRequest, X11Request, EnvRequest, ShellRequest, ExecRequest,
   SubsystemRequest, WindowChangeRequest, Signal, TcpipForward,
   CancelTcpipForward, Drop, Push, RunParsed, WriteAuditLog, AuditWriterFails,
   AuditWriterFinishes, ServerBindFails, AcceptLoopEnds, AuditHandleReturns,
   CtrlC, AwaitAuditHandle

\* Every step keeps the password that let each session in stored and last
\* among the session's password attempts.
LEMMA SessStep == IInv /\ SessInv /\ [Next]_vars => SessInv'
<1> SUFFICES ASSUME IInv, SessInv, [Next]_vars,
                    NEW c \in Conn, phase'[c] = "session"
             PROVE  LastLoginStored(c)'
  BY DEF SessInv
<1>0. /\ TypeOK
      /\ accepted \subseteq accepted'
  BY StoreGrows DEF IInv
<1>1. ASSUME phase[c] = "session", actions'[c] = actions[c]
      PROVE  LastLoginStored(c)'
  BY <1>0, <1>1, SessKeep DEF SessInv
<1>2. ASSUME NEW d \in Conn \ {c}, ConnStep(d)
      PROVE  LastLoginStored(c)'
  <2>1. phase'[c] = phase[c] /\ actions'[c] = actions[c]
    BY <1>0, <1>2 DEF TypeOK, ConnStep, NewConnection, TryLoginCheck,
       TryLoginFinish, AuthPublickey, ChannelOpenX11, ChannelOpenDirectTcpip,
       Data, WindowAdjusted, PtyRequest, X11Request, EnvRequest, ShellRequest,
       ExecRequest, SubsystemRequest, WindowChangeRequest, Signal,
       TcpipForward, CancelTcpipForward, Drop, Push, RunParsed
  <2>2. QED
    BY <2>1, <1>1
<1>3. ASSUME TryLoginFinish(c)
      PROVE  LastLoginStored(c)'
  <2> DEFINE l == login[c]
             a == [kind |-> "LoginPassword", pw |-> l.pw]
  <2>1. /\ phase[c] = "checking"
        /\ actions'[c] = Append(actions[c], a)
        /\ l.accept
    BY <1>0, <1>3 DEF TryLoginFinish, TypeOK
  <2>2. l.pw \in Password
    BY <1>0, <2>1 DEF TypeOK
  <2>3. a \in Action
    BY <2>2 DEF Action, Kinds
  <2>4. l.pw \in accepted'
    <3>1. CASE l.hit
      BY <1>0, <2>1, <3>1 DEF IInv, CheckInFlight
    <3>2. CASE ~l.hit
      BY <1>3, <2>1, <3>2 DEF TryLoginFinish
    <3>3. QED
      BY <3>1, <3>2
  <2>5. QED
    BY <1>0, <2>1, <2>3, <2>4, SessLogin
<1>4. ASSUME NEW k \in Kinds \ {"LoginPassword"}, Push(c, k)
      PROVE  LastLoginStored(c)'
  <2>1. /\ phase[c] = "session"
        /\ actions'[c] = Append(actions[c], Act(k))
    BY <1>0, <1>4 DEF Push, ClientEvent, TypeOK
  <2>2. Act(k) \in Action /\ Act(k).kind # "LoginPassword"
    BY DEF Act, Action
  <2>3. QED
    BY <1>0, <2>1, <2>2, SessAppend DEF SessInv
<1>5. ASSUME RunParsed(c)
      PROVE  LastLoginStored(c)'
  <2>1. phase[c] = "session"
    BY <1>5 DEF RunParsed, ClientEvent
  <2>2. \/ actions'[c] = actions[c]
        \/ actions'[c] = Append(actions[c], Act("ExecCommand"))
    BY <1>0, <1>5 DEF RunParsed, TypeOK
  <2>3. Act("ExecCommand") \in Action
        /\ Act("ExecCommand").kind # "LoginPassword"
    BY DEF Act, Action, Kinds
  <2>4. QED
    BY <1>0, <1>1, <2>1, <2>2, <2>3, SessAppend DEF SessInv
<1>6. ASSUME \/ NewConnection(c) \/ \E p \in Password : TryLoginCheck(c, p)
             \/ Drop(c)
      PROVE  FALSE
  BY <1>0, <1>6 DEF NewConnection, TryLoginCheck, Drop, TypeOK
<1>7. ASSUME AuthPublickey(c) \/ EnvRequest(c)
      PROVE  LastLoginStored(c)'
  <2>1. CASE AuthPublickey(c)
    BY <2>1 DEF AuthPublickey, ClientEvent
  <2>2. CASE EnvRequest(c)
    BY <2>2, <1>1 DEF EnvRequest
  <2>3. QED
    BY <1>7, <2>1, <2>2
<1>8. ASSUME \/ WriteAuditLog \/ AuditWriterFails \/ AuditWriterFinishes
             \/ ServerBindFails \/ AcceptLoopEnds \/ AuditHandleReturns
             \/ CtrlC \/ AwaitAuditHandle \/ UNCHANGED vars
      PROVE  LastLoginStored(c)'
  <2>1. UNCHANGED <<phase, actions>>
    BY <1>8 DEF WriteAuditLog, AuditWriterFails, AuditWriterFinishes,
       ServerBindFails, AcceptLoopEnds, AuditHandleReturns, CtrlC,
       AwaitAuditHandle, vars, connVars
  <2>2. QED
    BY <2>1, <1>1
<1>9. ASSUME ConnStep(c)
      PROVE  LastLoginStored(c)'
  <2>1. \/ NewConnection(c) \/ \E p \in Password : TryLoginCheck(c, p)
        \/ Drop(c) \/ TryLoginFinish(c) \/ RunParsed(c)
        \/ AuthPublickey(c) \/ EnvRequest(c)
        \/ \E k \in Kinds \ {"LoginPassword"} : Push(c, k)
    BY <1>9 DEF ConnStep, ChannelOpenX11, ChannelOpenDirectTcpip, Data,
       WindowAdjusted, PtyRequest, X11Request, ShellRequest, ExecRequest,
       SubsystemRequest, WindowChangeRequest, Signal, TcpipForward,
       CancelTcpipForward, Kinds
  <2>2. QED
    BY <2>1, <1>3, <1>4, <1>5, <1>6, <1>7
<1>10. QED
  BY <1>2, <1>8, <1>9 DEF Next

\* Every session was let in by a password its AuditLog records last among
\* its password attempts and the shared store holds
\* (SessionLoggedPassword), for any number of connections and passwords and
\* any access probability: TryLoginFinish moves a connection into a session
\* only when it pushes the accepted attempt, whose password is stored by the
\* `store` of the same call or was found by `seen` (CheckInFlight); while
\* the session lasts its handlers push no further password attempt, and the
\* store only grows.
THEOREM SessionLogged == Spec => []SessionLoggedPassword
<1>1. Init => IInv /\ SessInv
  BY InitTypeOK DEF Init, IInv, GrantedStored, CheckInFlight, NoLogin,
     SessInv
<1>2. IInv /\ SessInv /\ [Next]_vars => IInv' /\ SessInv'
  BY TypeStep, ReplayStep, SessStep DEF IInv
<1>3. SessInv => SessionLoggedPassword
  BY DEF SessInv, LastLoginStored, SessionLoggedPassword
<1>4. QED
  BY <1>1, <1>2, <1>3, PTL DEF Spec

=============================================================================
