------------------------ MODULE PisshoffBacklogProofs ------------------------
(***************************************************************************)
(* Proof that the unbounded audit channel (main.rs:50) holds exactly the   *)
(* backlog of ended connections, for every set of connections, finite or  *)
(* not: the accept loop may hand out any number of connections, but only   *)
(* finitely many have ended in any reachable state.                        *)
(***************************************************************************)
EXTENDS PisshoffAuditProofs, FiniteSetTheorems

USE ConstAssumption

\* The connections whose Drop has run.
Closed == {c \in Conn : phase[c] = "closed"}

\* The count of AuditBacklogAccounted, on a set of ended connections known
\* to be finite.
BacklogCount ==
    writer # "failed" => Len(written) + Len(chan) = Cardinality(Closed)

\* The inductive strengthening of AuditBacklogAccounted.  Drop is the only
\* step that ends a connection, and it sends a log exactly when the writer
\* still runs; a writer that ended Ok has no live connection left to drop
\* (DoneDrained, from the proof of Lossless), and a writer that failed
\* never runs again.
BacklogInv == ShutdownInv /\ IsFiniteSet(Closed) /\ BacklogCount

-----------------------------------------------------------------------------

\* A step that ends no connection and revives none leaves the set of ended
\* connections as it was.
LEMMA ClosedFrame ==
    ASSUME TypeOK,
           \A d \in Conn : (phase'[d] = "closed") <=> (phase[d] = "closed")
    PROVE  Closed' = Closed
BY DEF Closed

\* A step that leaves the phases, the channel, the file and the writer alone
\* keeps the count.
LEMMA BacklogFrame ==
    ASSUME TypeOK, IsFiniteSet(Closed), BacklogCount,
           UNCHANGED <<phase, chan, written, writer>>
    PROVE  IsFiniteSet(Closed') /\ BacklogCount'
BY DEF Closed, BacklogCount

\* A handler of connection c other than Drop moves c between live phases
\* (or from unborn to live), and keeps the count.
LEMMA BacklogHandler ==
    ASSUME TypeOK, IsFiniteSet(Closed), BacklogCount, NEW c \in Conn,
           phase[c] # "closed", phase'[c] # "closed",
           phase' = [phase EXCEPT ![c] = phase'[c]],
           UNCHANGED <<chan, written, writer>>
    PROVE  IsFiniteSet(Closed') /\ BacklogCount'
<1>1. Closed' = Closed
  BY ClosedFrame DEF TypeOK
<1>2. QED
  BY <1>1 DEF BacklogCount

\* Drop of connection c adds c to the ended connections and, while the
\* writer runs, exactly one log to the channel.
LEMMA BacklogDrop ==
    ASSUME ShutdownInv, IsFiniteSet(Closed), BacklogCount, NEW c \in Conn,
           Drop(c)
    PROVE  IsFiniteSet(Closed') /\ BacklogCount'
<1> DEFINE r == [conn |-> c, actions |-> actions[c], envs |-> envs[c]]
<1>1. /\ phase[c] \in Live /\ phase' = [phase EXCEPT ![c] = "closed"]
      /\ chan' = IF writer = "running" THEN Append(chan, r) ELSE chan
      /\ UNCHANGED <<written, writer>>
  BY DEF Drop, Live
<1>2. Closed' = Closed \cup {c} /\ c \notin Closed
  BY <1>1 DEF Closed, ShutdownInv, TypeOK, Live
<1>3. /\ IsFiniteSet(Closed')
      /\ Cardinality(Closed') = Cardinality(Closed) + 1
  BY <1>2, FS_AddElement
<1>4. writer # "done"
  BY <1>1 DEF ShutdownInv, DoneDrained
<1>5. CASE writer = "running"
  <2>1. r \in Record
    BY DEF ShutdownInv, TypeOK, Record
  <2>2. Len(chan') = Len(chan) + 1
    BY <1>1, <1>5, <2>1, AppendProperties DEF ShutdownInv, TypeOK
  <2>3. QED
    BY <1>1, <1>3, <1>5, <2>2 DEF BacklogCount
<1>6. CASE writer = "failed"
  BY <1>1, <1>3, <1>6 DEF BacklogCount
<1>7. QED
  BY <1>4, <1>5, <1>6 DEF ShutdownInv, TypeOK

\* The writer moves one log from the channel to the file; the sum of their
\* lengths stays.
LEMMA BacklogWrite ==
    ASSUME TypeOK, IsFiniteSet(Closed), BacklogCount, WriteAuditLog
    PROVE  IsFiniteSet(Closed') /\ BacklogCount'
<1>1. /\ chan # << >>
      /\ written' = Append(written, Head(chan)) /\ chan' = Tail(chan)
      /\ UNCHANGED <<phase, writer>>
  BY DEF WriteAuditLog, connVars
<1>2. Len(chan') = Len(chan) - 1
  BY <1>1, HeadTailProperties DEF TypeOK
<1>3. Head(chan) \in Record
  BY <1>1, HeadTailProperties DEF TypeOK
<1>4. Len(written') = Len(written) + 1
  BY <1>1, <1>3, AppendProperties DEF TypeOK
<1>5. Closed' = Closed
  BY <1>1 DEF Closed
<1>6. Len(written) \in Nat /\ Len(chan) \in Nat
  BY DEF TypeOK
<1>7. Len(written') + Len(chan') = Len(written) + Len(chan)
  BY <1>2, <1>4, <1>6
<1>8. QED
  BY <1>1, <1>5, <1>7 DEF BacklogCount

\* Every step keeps the strengthening of AuditBacklogAccounted.
LEMMA BacklogStep ==
    ShutdownInv /\ IsFiniteSet(Closed) /\ BacklogCount /\ [Next]_vars
        => IsFiniteSet(Closed') /\ BacklogCount'
<1> SUFFICES ASSUME ShutdownInv, IsFiniteSet(Closed), BacklogCount,
                    [Next]_vars
             PROVE  IsFiniteSet(Closed') /\ BacklogCount'
  OBVIOUS
<1>0. TypeOK
  BY DEF ShutdownInv
<1>1. ASSUME NEW c \in Conn, NewConnection(c)
      PROVE  IsFiniteSet(Closed') /\ BacklogCount'
  <2>1. phase[c] = "unborn" /\ phase' = [phase EXCEPT ![c] = "auth"]
    BY <1>1 DEF NewConnection
  <2>2. phase'[c] = "auth" /\ phase' = [phase EXCEPT ![c] = phase'[c]]
    BY <1>0, <2>1 DEF TypeOK
  <2>3. UNCHANGED <<chan, written, writer>>
    BY <1>1 DEF NewConnection, pipeVars
  <2>4. QED
    BY <1>0, <2>1, <2>2, <2>3, BacklogHandler
<1>2. ASSUME NEW c \in Conn, NEW p \in Password, TryLoginCheck(c, p)
      PROVE  IsFiniteSet(Closed') /\ BacklogCount'
  <2>1. phase[c] = "auth" /\ phase' = [phase EXCEPT ![c] = "checking"]
    BY <1>2 DEF TryLoginCheck, ClientEvent
  <2>2. phase'[c] = "checking" /\ phase' = [phase EXCEPT ![c] = phase'[c]]
    BY <1>0, <2>1 DEF TypeOK
  <2>3. UNCHANGED <<chan, written, writer>>
    BY <1>2 DEF TryLoginCheck, pipeVars
  <2>4. QED
    BY <1>0, <2>1, <2>2, <2>3, BacklogHandler
<1>3. ASSUME NEW c \in Conn, TryLoginFinish(c)
      PROVE  IsFiniteSet(Closed') /\ BacklogCount'
  <2>1. /\ phase[c] = "checking"
        /\ phase'[c] \in {"session", "auth"}
        /\ phase' = [phase EXCEPT ![c] = phase'[c]]
    BY <1>0, <1>3 DEF TryLoginFinish, TypeOK
  <2>2. QED
    BY <1>0, <1>3, <2>1, BacklogHandler DEF TryLoginFinish, pipeVars
<1>4. ASSUME NEW c \in Conn,
             \/ AuthPublickey(c)
             \/ \E k \in Kinds : Push(c, k)
             \/ RunParsed(c)
             \/ EnvRequest(c)
      PROVE  IsFiniteSet(Closed') /\ BacklogCount'
  <2>1. UNCHANGED <<phase, chan, written, writer>>
    BY <1>4 DEF AuthPublickey, Push, RunParsed, EnvRequest, pipeVars
  <2>2. QED
    BY <1>0, <2>1, BacklogFrame
<1>5. ASSUME NEW c \in Conn, Drop(c)
      PROVE  IsFiniteSet(Closed') /\ BacklogCount'
  BY <1>5, BacklogDrop
<1>6. CASE WriteAuditLog
  BY <1>0, <1>6, BacklogWrite
<1>7. CASE AuditWriterFails
  <2>1. writer' = "failed" /\ phase' = phase
    BY <1>7 DEF AuditWriterFails, connVars
  <2>2. QED
    BY <2>1 DEF Closed, BacklogCount
<1>8. CASE \/ AuditWriterFinishes \/ ServerBindFails \/ AcceptLoopEnds \/ AuditHandleReturns
           \/ CtrlC \/ AwaitAuditHandle \/ UNCHANGED vars
  <2>1. CASE AuditWriterFinishes
    <3>1. writer = "running" /\ writer' = "done"
          /\ UNCHANGED <<phase, chan, written>>
      BY <2>1 DEF AuditWriterFinishes, connVars
    <3>2. Closed' = Closed
      BY <3>1 DEF Closed
    <3>3. QED
      BY <3>1, <3>2 DEF BacklogCount
  <2>2. CASE ~AuditWriterFinishes
    <3>1. UNCHANGED <<phase, chan, written, writer>>
      BY <1>8, <2>2 DEF ServerBindFails, AcceptLoopEnds, AuditHandleReturns, CtrlC,
         AwaitAuditHandle, vars, connVars, pipeVars
    <3>2. QED
      BY <1>0, <3>1, BacklogFrame
  <2>3. QED
    BY <2>1, <2>2
<1>9. QED
  BY <1>1, <1>2, <1>3, <1>4, <1>5, <1>6, <1>7, <1>8
  DEF Next, ConnStep, Data, ExecRequest, ChannelOpenX11,
      ChannelOpenDirectTcpip, WindowAdjusted, PtyRequest, X11Request,
      ShellRequest, SubsystemRequest, WindowChangeRequest, Signal,
      TcpipForward, CancelTcpipForward, Kinds

\* The unbounded audit channel holds exactly the backlog of ended
\* connections (AuditBacklogAccounted), for any set of connections: while
\* the writer task has not failed, the AuditLogs written plus those queued
\* in the channel are as many as the connections whose Drop has run.
THEOREM BacklogAccounted == Spec => []AuditBacklogAccounted
<1>1. Init => BacklogInv
  <2> SUFFICES ASSUME Init PROVE BacklogInv
    OBVIOUS
  <2>1. ShutdownInv
    <3>1. TypeOK
      BY InitTypeOK
    <3>2. ServerAlive /\ DoneDrained /\ ExitOkDone /\ EndedLogged
      BY DEF Init, ServerAlive, DoneDrained, ExitOkDone, EndedLogged
    <3>3. QED
      BY <3>1, <3>2 DEF ShutdownInv
  <2>2. Closed = {} /\ written = << >> /\ chan = << >>
    BY DEF Init, Closed
  <2>3. IsFiniteSet(Closed) /\ Cardinality(Closed) = 0
    BY <2>2, FS_EmptySet
  <2>4. QED
    BY <2>1, <2>2, <2>3 DEF BacklogInv, BacklogCount
<1>2. BacklogInv /\ [Next]_vars => BacklogInv'
  BY ShutdownStep, BacklogStep DEF BacklogInv
<1>3. BacklogInv => AuditBacklogAccounted
  BY DEF BacklogInv, BacklogCount, Closed, AuditBacklogAccounted
<1>4. QED
  BY <1>1, <1>2, <1>3, PTL DEF Spec

=============================================================================
