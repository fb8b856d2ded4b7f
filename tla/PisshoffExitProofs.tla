-------------------------- MODULE PisshoffExitProofs --------------------------
(***************************************************************************)
(* Proof that run() (main.rs:58-70) never lets the process exit while a    *)
(* finished AuditLog waits in the audit channel, whichever branch of the  *)
(* select! ends first: thrussh::server::run fails only to bind, before any *)
(* connection exists; a failed writer has dropped its buffer; and every   *)
(* other path awaits the writer's drain.                                   *)
(***************************************************************************)
EXTENDS PisshoffAuditProofs

USE ConstAssumption

\* A writer task that failed dropped its receiver and buffer, and no send
\* reaches it afterwards (Drop's `send` fails, server.rs:575).
FailedEmpty == writer = "failed" => chan = << >>

\* The inductive strengthening of ExitOnlyAfterDrain.  The channel holds
\* only logs of ended connections (LogsInv), so it is empty while every
\* connection is unborn; a writer that ended Ok has an empty channel
\* (DoneDrained, from ShutdownInv).
ExitInv == AuditInv /\ ShutdownInv /\ FailedEmpty /\ ExitOnlyAfterDrain

-----------------------------------------------------------------------------

\* Before the accept loop has handed out any connection the channel is
\* empty: every log in it belongs to an ended connection.
LEMMA NoLogWhileUnborn ==
    ASSUME TypeOK, LogsInv, \A c \in Conn : phase[c] = "unborn"
    PROVE  chan = << >>
<1> SUFFICES ASSUME chan # << >> PROVE FALSE
  OBVIOUS
<1>1. 1 \in 1 .. Len(chan)
  BY DEF TypeOK
<1>2. chan[1].conn \in Conn
  BY <1>1, LogConns
<1>3. phase[chan[1].conn] = "closed"
  BY <1>1 DEF LogsInv, HandedOver
<1>4. QED
  BY <1>2, <1>3

\* A step that leaves the channel, the writer and the select! alone keeps
\* both facts.
LEMMA ExitFrame ==
    ASSUME FailedEmpty, ExitOnlyAfterDrain, UNCHANGED <<chan, writer, main>>
    PROVE  FailedEmpty' /\ ExitOnlyAfterDrain'
BY DEF FailedEmpty, ExitOnlyAfterDrain

\* Every step keeps an empty channel at exit and after a writer failure.
LEMMA ExitStep ==
    ExitInv /\ [Next]_vars => (FailedEmpty /\ ExitOnlyAfterDrain)'
<1> SUFFICES ASSUME TypeOK, LogsInv, DoneDrained, FailedEmpty,
                    ExitOnlyAfterDrain, [Next]_vars
             PROVE  (FailedEmpty /\ ExitOnlyAfterDrain)'
  BY DEF ExitInv, AuditInv, ShutdownInv
<1>1. ASSUME NEW c \in Conn, Drop(c)
      PROVE  (FailedEmpty /\ ExitOnlyAfterDrain)'
  <2>1. /\ Running /\ main' = main /\ writer' = writer
        /\ writer # "running" => chan' = chan
    BY <1>1 DEF Drop
  <2>2. QED
    BY <2>1 DEF FailedEmpty, ExitOnlyAfterDrain, Running
<1>2. ASSUME NEW c \in Conn, ConnStep(c), ~Drop(c)
      PROVE  (FailedEmpty /\ ExitOnlyAfterDrain)'
  <2>1. UNCHANGED <<chan, writer, main>>
    BY <1>2 DEF ConnStep, NewConnection, TryLoginCheck, TryLoginFinish,
       AuthPublickey, ChannelOpenX11, ChannelOpenDirectTcpip, Data,
       WindowAdjusted, PtyRequest, X11Request, EnvRequest, ShellRequest,
       ExecRequest, SubsystemRequest, WindowChangeRequest, Signal,
       TcpipForward, CancelTcpipForward, Push, RunParsed, pipeVars
  <2>2. QED
    BY <2>1, ExitFrame
<1>3. CASE WriteAuditLog \/ AuditWriterFinishes
  <2>1. Running /\ main' = main /\ writer' # "failed"
    BY <1>3 DEF WriteAuditLog, AuditWriterFinishes
  <2>2. QED
    BY <2>1 DEF FailedEmpty, ExitOnlyAfterDrain, Running
<1>4. CASE AuditWriterFails
  BY <1>4 DEF AuditWriterFails, FailedEmpty, ExitOnlyAfterDrain
<1>5. CASE ServerBindFails
  <2>1. chan = << >>
    BY <1>5, NoLogWhileUnborn DEF ServerBindFails
  <2>2. UNCHANGED <<chan, writer>>
    BY <1>5 DEF ServerBindFails, pipeVars
  <2>3. QED
    BY <2>1, <2>2 DEF FailedEmpty, ExitOnlyAfterDrain
<1>6. CASE AcceptLoopEnds \/ CtrlC
  <2>1. UNCHANGED <<chan, writer>> /\ main' = "draining"
    BY <1>6 DEF AcceptLoopEnds, CtrlC, pipeVars
  <2>2. QED
    BY <2>1 DEF FailedEmpty, ExitOnlyAfterDrain, Exited
<1>7. CASE AuditHandleReturns \/ AwaitAuditHandle
  <2>1. UNCHANGED <<chan, writer>> /\ writer # "running"
    BY <1>7 DEF AuditHandleReturns, AwaitAuditHandle, pipeVars
  <2>2. chan = << >>
    BY <2>1 DEF TypeOK, DoneDrained, FailedEmpty
  <2>3. QED
    BY <2>1, <2>2 DEF FailedEmpty, ExitOnlyAfterDrain
<1>8. CASE UNCHANGED vars
  BY <1>8, ExitFrame DEF vars, pipeVars
<1>9. QED
  BY <1>1, <1>2, <1>3, <1>4, <1>5, <1>6, <1>7, <1>8 DEF Next

\* The process never exits while a finished AuditLog waits in the audit
\* channel (ExitOnlyAfterDrain), for any number of connections: of the
\* select! branches of run(), the server future returns Err only when it
\* cannot bind, before any connection exists; the writer's error
\* exits after the writer dropped its buffer; an Ok of the writer leaves
\* run() stuck on the fused handle; and ctrl-c or the end of the accept
\* loop exits only through `audit_handle.await??`, after the writer ended.
THEOREM ExitDrained == Spec => []ExitOnlyAfterDrain
<1>1. Init => ExitInv
  <2> SUFFICES ASSUME Init PROVE ExitInv
    OBVIOUS
  <2>1. TypeOK
    BY InitTypeOK
  <2>2. LogsInv
    BY DEF Init, LogsInv, OnePerConn
  <2>3. ServerAlive /\ DoneDrained /\ ExitOkDone /\ EndedLogged
    BY DEF Init, ServerAlive, DoneDrained, ExitOkDone, EndedLogged
  <2>4. FailedEmpty /\ ExitOnlyAfterDrain
    BY DEF Init, FailedEmpty, ExitOnlyAfterDrain
  <2>5. QED
    BY <2>1, <2>2, <2>3, <2>4 DEF ExitInv, AuditInv, ShutdownInv
<1>2. ExitInv /\ [Next]_vars => ExitInv'
  BY AuditStep, ShutdownStep, ExitStep DEF ExitInv
<1>3. QED
  BY <1>1, <1>2, PTL DEF Spec, ExitInv
=============================================================================
