--------------------------- MODULE PisshoffProofs ---------------------------
(***************************************************************************)
(* Proofs about Pisshoff: type correctness, and replay consistency of      *)
(* try_login for every number of connections and passwords and every      *)
(* access probability.                                                     *)
(***************************************************************************)
EXTENDS Pisshoff, TLAPS

\* The inductive strengthening of ReplayConsistency.  Replay consistency
\* holds because a password is stored before any connection is told
\* Auth::Accept for it (GrantedStored), because the store only grows
\* (a `seen` hit stays stored while the check is in flight), and because
\* a `seen` hit short-circuits the random draw.
GrantedStored == granted \subseteq accepted

CheckInFlight ==
    \A c \in Conn : phase[c] = "checking" =>
        /\ login[c].known => login[c].hit
        /\ login[c].hit => login[c].accept /\ login[c].pw \in accepted

IInv == TypeOK /\ GrantedStored /\ CheckInFlight

USE ConstAssumption

-----------------------------------------------------------------------------
(* Type correctness.                                                       *)

\* Appending to one connection's sequence keeps a function of sequences.
LEMMA AppendAt ==
    ASSUME NEW S, NEW D, NEW f \in [D -> Seq(S)], NEW d \in D, NEW x \in S
    PROVE  [f EXCEPT ![d] = Append(f[d], x)] \in [D -> Seq(S)]
OBVIOUS

\* Counting one client event keeps the counters within their bound.
LEMMA ClientEventTypeOK ==
    ASSUME TypeOK, NEW c \in Conn, NEW ph, ClientEvent(c, ph)
    PROVE  events' \in [Conn -> 0 .. MaxEvents]
BY DEF TypeOK, ClientEvent

\* Every channel-level handler that pushes an audit action keeps the types.
LEMMA PushTypeOK ==
    ASSUME TypeOK, NEW c \in Conn, NEW k \in Kinds, Push(c, k)
    PROVE  TypeOK'
<1>1. Act(k) \in Action
  BY DEF Act, Action
<1>2. actions' \in [Conn -> Seq(Action)]
  BY <1>1, AppendAt DEF TypeOK, Push
<1>3. events' \in [Conn -> 0 .. MaxEvents]
  BY ClientEventTypeOK DEF Push
<1>4. QED
  BY <1>2, <1>3 DEF TypeOK, Push, pipeVars

\* Every step keeps the types.
LEMMA TypeStep == TypeOK /\ [Next]_vars => TypeOK'
<1> SUFFICES ASSUME TypeOK, [Next]_vars PROVE TypeOK'
  OBVIOUS
<1>1. ASSUME NEW c \in Conn, NewConnection(c) PROVE TypeOK'
  BY <1>1 DEF TypeOK, NewConnection, Live, pipeVars
<1>2. ASSUME NEW c \in Conn, NEW p \in Password, TryLoginCheck(c, p)
      PROVE TypeOK'
  <2>1. PICK k \in Samples :
            login' = [login EXCEPT ![c] =
                        [pw |-> p, hit |-> p \in accepted,
                         accept |-> p \in accepted \/ k <= AccessNumerator,
                         known |-> p \in granted]]
    BY <1>2 DEF TryLoginCheck
  <2>2. login' \in [Conn -> LoginState]
    BY <2>1 DEF TypeOK, LoginState
  <2>3. phase' \in [Conn -> {"unborn", "closed"} \cup Live]
    BY <1>2 DEF TypeOK, TryLoginCheck, Live
  <2>4. events' \in [Conn -> 0 .. MaxEvents]
    BY <1>2, ClientEventTypeOK DEF TryLoginCheck
  <2>5. QED
    BY <1>2, <2>2, <2>3, <2>4 DEF TypeOK, TryLoginCheck, pipeVars
<1>3. ASSUME NEW c \in Conn, TryLoginFinish(c) PROVE TypeOK'
  <2>1. login[c].pw \in Password \cup {NoPassword}
    BY DEF TypeOK, LoginState
  <2>2. [kind |-> "LoginPassword", pw |-> login[c].pw] \in Action
    BY <2>1 DEF Action, Kinds
  <2>3. actions' \in [Conn -> Seq(Action)]
    BY <1>3, <2>2, AppendAt DEF TypeOK, TryLoginFinish
  <2>4. login' \in [Conn -> LoginState]
    BY <1>3 DEF TypeOK, TryLoginFinish, NoLogin, LoginState
  <2>5. phase' \in [Conn -> {"unborn", "closed"} \cup Live]
    BY <1>3 DEF TypeOK, TryLoginFinish, Live
  <2>6. accepted' \subseteq Password /\ granted' \subseteq Password
    BY <1>3 DEF TypeOK, TryLoginFinish, LoginState
  <2>7. QED
    BY <1>3, <2>3, <2>4, <2>5, <2>6 DEF TypeOK, TryLoginFinish, pipeVars
<1>4. ASSUME NEW c \in Conn, AuthPublickey(c) PROVE TypeOK'
  <2>1. Act("LoginPublicKey") \in Action
    BY DEF Act, Action, Kinds
  <2>2. actions' \in [Conn -> Seq(Action)]
    BY <1>4, <2>1, AppendAt DEF TypeOK, AuthPublickey
  <2>3. events' \in [Conn -> 0 .. MaxEvents]
    BY <1>4, ClientEventTypeOK DEF AuthPublickey
  <2>4. QED
    BY <1>4, <2>2, <2>3 DEF TypeOK, AuthPublickey, pipeVars
<1>5. ASSUME NEW c \in Conn,
             \/ ChannelOpenX11(c) \/ ChannelOpenDirectTcpip(c)
             \/ WindowAdjusted(c) \/ PtyRequest(c) \/ X11Request(c)
             \/ ShellRequest(c) \/ SubsystemRequest(c)
             \/ WindowChangeRequest(c) \/ Signal(c) \/ TcpipForward(c)
             \/ CancelTcpipForward(c)
      PROVE TypeOK'
  BY <1>5, PushTypeOK DEF ChannelOpenX11, ChannelOpenDirectTcpip,
     WindowAdjusted, PtyRequest, X11Request, ShellRequest, SubsystemRequest,
     WindowChangeRequest, Signal, TcpipForward, CancelTcpipForward, Kinds
<1>6. ASSUME NEW c \in Conn, RunParsed(c) PROVE TypeOK'
  <2>1. Act("ExecCommand") \in Action
    BY DEF Act, Action, Kinds
  <2>2. actions' \in [Conn -> Seq(Action)]
    BY <1>6, <2>1, AppendAt DEF TypeOK, RunParsed
  <2>3. events' \in [Conn -> 0 .. MaxEvents]
    BY <1>6, ClientEventTypeOK DEF RunParsed
  <2>4. QED
    BY <1>6, <2>2, <2>3 DEF TypeOK, RunParsed, pipeVars
<1>7. ASSUME NEW c \in Conn, EnvRequest(c) PROVE TypeOK'
  <2>1. envs' \in [Conn -> Seq(EnvPair)]
    BY <1>7, AppendAt DEF TypeOK, EnvRequest, EnvPair
  <2>2. events' \in [Conn -> 0 .. MaxEvents]
    BY <1>7, ClientEventTypeOK DEF EnvRequest
  <2>3. QED
    BY <1>7, <2>1, <2>2 DEF TypeOK, EnvRequest, pipeVars
<1>8. ASSUME NEW c \in Conn, Drop(c) PROVE TypeOK'
  <2>1. [conn |-> c, actions |-> actions[c], envs |-> envs[c]] \in Record
    BY DEF TypeOK, Record
  <2>2. chan' \in Seq(Record)
    BY <1>8, <2>1 DEF TypeOK, Drop
  <2>3. phase' \in [Conn -> {"unborn", "closed"} \cup Live]
    BY <1>8 DEF TypeOK, Drop
  <2>4. QED
    BY <1>8, <2>2, <2>3 DEF TypeOK, Drop
<1>9. CASE WriteAuditLog
  BY <1>9 DEF TypeOK, WriteAuditLog, connVars
<1>10. CASE AuditWriterFails
  BY <1>10 DEF TypeOK, AuditWriterFails, connVars
<1>11. CASE AuditWriterFinishes
  BY <1>11 DEF TypeOK, AuditWriterFinishes, connVars
<1>12. CASE ServerBindFails \/ AcceptLoopEnds \/ AuditHandleReturns \/ CtrlC \/ AwaitAuditHandle
  BY <1>12 DEF TypeOK, ServerBindFails, AcceptLoopEnds, AuditHandleReturns, CtrlC,
     AwaitAuditHandle, Exited, connVars, pipeVars
<1>13. CASE UNCHANGED vars
  BY <1>13 DEF TypeOK, vars, connVars, pipeVars
<1>14. QED
  BY <1>1, <1>2, <1>3, <1>4, <1>5, <1>6, <1>7, <1>8, <1>9, <1>10, <1>11,
     <1>12, <1>13 DEF Next, ConnStep, Data, ExecRequest

\* The initial state is well typed.
LEMMA InitTypeOK == Init => TypeOK
<1> SUFFICES ASSUME Init PROVE TypeOK
  OBVIOUS
<1>1. /\ phase \in [Conn -> {"unborn", "closed"} \cup Live]
      /\ login \in [Conn -> LoginState]
  BY DEF Init, NoLogin, LoginState, Live
<1>2. /\ actions \in [Conn -> Seq(Action)]
      /\ envs \in [Conn -> Seq(EnvPair)]
      /\ events \in [Conn -> 0 .. MaxEvents]
  BY DEF Init
<1>3. /\ accepted \subseteq Password /\ granted \subseteq Password
      /\ chan \in Seq(Record) /\ written \in Seq(Record)
  BY DEF Init
<1>4. /\ writer \in {"running", "done", "failed"}
      /\ serverAlive \in BOOLEAN /\ acceptErr \in BOOLEAN
      /\ main \in {"select", "draining", "hung"} \cup Exited
  BY DEF Init
<1>5. \A c \in Conn : phase[c] = "checking" => login[c].pw \in Password
  BY DEF Init
<1>6. QED
  BY <1>1, <1>2, <1>3, <1>4, <1>5 DEF TypeOK

\* The state of every variable stays within its type: connections move only
\* between the phases of the handler, audit logs stay sequences of actions,
\* the channel and the file hold only finished AuditLogs, and a password
\* check in flight carries a submitted password.
THEOREM TypeCorrect == Spec => []TypeOK
<1>1. QED
  BY InitTypeOK, TypeStep, PTL DEF Spec

-----------------------------------------------------------------------------
(* Replay consistency.                                                     *)

\* Steps that touch neither the phases, the login checks, the store nor the
\* granted passwords keep the strengthening.
LEMMA ReplayFrame ==
    ASSUME GrantedStored, CheckInFlight,
           UNCHANGED <<phase, login, accepted, granted>>
    PROVE  GrantedStored' /\ CheckInFlight'
BY DEF GrantedStored, CheckInFlight

\* Every step keeps the strengthening of ReplayConsistency.
LEMMA ReplayStep == IInv /\ [Next]_vars => (GrantedStored /\ CheckInFlight)'
<1> SUFFICES ASSUME IInv, [Next]_vars
             PROVE  (GrantedStored /\ CheckInFlight)'
  OBVIOUS
<1> USE DEF IInv
<1>1. ASSUME NEW c \in Conn, NewConnection(c)
      PROVE  (GrantedStored /\ CheckInFlight)'
  BY <1>1 DEF NewConnection, GrantedStored, CheckInFlight, TypeOK
<1>2. ASSUME NEW c \in Conn, NEW p \in Password, TryLoginCheck(c, p)
      PROVE  (GrantedStored /\ CheckInFlight)'
  <2>1. PICK k \in Samples :
            login' = [login EXCEPT ![c] =
                        [pw |-> p, hit |-> p \in accepted,
                         accept |-> p \in accepted \/ k <= AccessNumerator,
                         known |-> p \in granted]]
    BY <1>2 DEF TryLoginCheck
  <2>2. GrantedStored'
    BY <1>2 DEF TryLoginCheck, GrantedStored
  <2>3. CheckInFlight'
    BY <1>2, <2>1 DEF TryLoginCheck, CheckInFlight, GrantedStored, TypeOK
  <2>4. QED
    BY <2>2, <2>3
<1>3. ASSUME NEW c \in Conn, TryLoginFinish(c)
      PROVE  (GrantedStored /\ CheckInFlight)'
  <2>1. login[c].accept => login[c].pw \in accepted'
    BY <1>3 DEF TryLoginFinish, CheckInFlight
  <2>2. GrantedStored'
    BY <1>3, <2>1 DEF TryLoginFinish, GrantedStored
  <2>3. CheckInFlight'
    BY <1>3 DEF TryLoginFinish, CheckInFlight, TypeOK
  <2>4. QED
    BY <2>2, <2>3
<1>4. ASSUME NEW c \in Conn, Drop(c)
      PROVE  (GrantedStored /\ CheckInFlight)'
  BY <1>4 DEF Drop, GrantedStored, CheckInFlight, TypeOK
<1>5. ASSUME NEW c \in Conn,
             \/ AuthPublickey(c) \/ ChannelOpenX11(c)
             \/ ChannelOpenDirectTcpip(c) \/ WindowAdjusted(c)
             \/ PtyRequest(c) \/ X11Request(c) \/ ShellRequest(c)
             \/ SubsystemRequest(c) \/ WindowChangeRequest(c) \/ Signal(c)
             \/ TcpipForward(c) \/ CancelTcpipForward(c) \/ RunParsed(c)
             \/ EnvRequest(c)
      PROVE  (GrantedStored /\ CheckInFlight)'
  <2>1. UNCHANGED <<phase, login, accepted, granted>>
    BY <1>5 DEF AuthPublickey, ChannelOpenX11, ChannelOpenDirectTcpip,
       WindowAdjusted, PtyRequest, X11Request, ShellRequest, SubsystemRequest,
       WindowChangeRequest, Signal, TcpipForward, CancelTcpipForward, Push,
       RunParsed, EnvRequest
  <2>2. QED
    BY <2>1, ReplayFrame
<1>6. CASE \/ WriteAuditLog \/ AuditWriterFails \/ AuditWriterFinishes
           \/ ServerBindFails \/ AcceptLoopEnds \/ AuditHandleReturns \/ CtrlC
           \/ AwaitAuditHandle \/ UNCHANGED vars
  <2>1. UNCHANGED <<phase, login, accepted, granted>>
    BY <1>6 DEF WriteAuditLog, AuditWriterFails, AuditWriterFinishes,
       ServerBindFails, AcceptLoopEnds, AuditHandleReturns, CtrlC, AwaitAuditHandle, vars,
       connVars
  <2>2. QED
    BY <2>1, ReplayFrame
<1>7. QED
  BY <1>1, <1>2, <1>3, <1>4, <1>5, <1>6 DEF Next, ConnStep, Data, ExecRequest

\* Replay consistency of try_login (ReplayConsistency): for any number of
\* connections and passwords and any access probability, a password check
\* that starts after some connection was answered Auth::Accept for that
\* password decides to accept, despite `seen` and `store` being separate
\* calls that other connections' logins interleave with.
THEOREM Replay == Spec => []ReplayConsistency
<1>1. Init => IInv
  BY InitTypeOK DEF Init, IInv, GrantedStored, CheckInFlight, NoLogin
<1>2. IInv /\ [Next]_vars => IInv'
  BY TypeStep, ReplayStep DEF IInv
<1>3. IInv => ReplayConsistency
  BY DEF IInv, CheckInFlight, ReplayConsistency
<1>4. QED
  BY <1>1, <1>2, <1>3, PTL DEF Spec

-----------------------------------------------------------------------------
(* Accept answers and the store.                                           *)

\* Only TryLoginFinish moves a connection from its password check into a
\* session: every other handler leaves the phase of a checking connection
\* alone, or moves another connection.
LEMMA SessionOnlyByFinish ==
    ASSUME TypeOK, [Next]_vars, NEW c \in Conn,
           phase[c] = "checking", phase'[c] = "session"
    PROVE  TryLoginFinish(c)
<1>1. ASSUME NEW d \in Conn, NewConnection(d) PROVE FALSE
  BY <1>1 DEF NewConnection, TypeOK
<1>2. ASSUME NEW d \in Conn, NEW p \in Password, TryLoginCheck(d, p)
      PROVE  FALSE
  BY <1>2 DEF TryLoginCheck, ClientEvent, TypeOK
<1>3. ASSUME NEW d \in Conn \ {c}, TryLoginFinish(d) PROVE FALSE
  BY <1>3 DEF TryLoginFinish, TypeOK
<1>4. ASSUME NEW d \in Conn, Drop(d) PROVE FALSE
  BY <1>4 DEF Drop, TypeOK
<1>5. ASSUME NEW d \in Conn,
             \/ AuthPublickey(d) \/ ChannelOpenX11(d)
             \/ ChannelOpenDirectTcpip(d) \/ WindowAdjusted(d)
             \/ PtyRequest(d) \/ X11Request(d) \/ ShellRequest(d)
             \/ SubsystemRequest(d) \/ WindowChangeRequest(d) \/ Signal(d)
             \/ TcpipForward(d) \/ CancelTcpipForward(d) \/ RunParsed(d)
             \/ EnvRequest(d)
      PROVE  FALSE
  BY <1>5 DEF AuthPublickey, ChannelOpenX11, ChannelOpenDirectTcpip,
     WindowAdjusted, PtyRequest, X11Request, ShellRequest, SubsystemRequest,
     WindowChangeRequest, Signal, TcpipForward, CancelTcpipForward, Push,
     RunParsed, EnvRequest
<1>6. CASE \/ WriteAuditLog \/ AuditWriterFails \/ AuditWriterFinishes
           \/ ServerBindFails \/ AcceptLoopEnds \/ AuditHandleReturns \/ CtrlC
           \/ AwaitAuditHandle \/ UNCHANGED vars
  <2>1. phase' = phase
    BY <1>6 DEF WriteAuditLog, AuditWriterFails, AuditWriterFinishes,
       ServerBindFails, AcceptLoopEnds, AuditHandleReturns, CtrlC, AwaitAuditHandle, vars,
       connVars
  <2>2. QED
    BY <2>1
<1>7. QED
  BY <1>1, <1>2, <1>3, <1>4, <1>5, <1>6 DEF Next, ConnStep, Data, ExecRequest

\* Every step that ends a password check in a session leaves the password
\* in the store.
LEMMA AcceptStep ==
    IInv /\ [Next]_vars =>
        \A c \in Conn :
            phase[c] = "checking" /\ phase'[c] = "session" =>
                login[c].pw \in accepted'
<1> SUFFICES ASSUME IInv, [Next]_vars, NEW c \in Conn,
                    phase[c] = "checking", phase'[c] = "session"
             PROVE  login[c].pw \in accepted'
  OBVIOUS
<1>1. TryLoginFinish(c)
  BY SessionOnlyByFinish DEF IInv
<1>2. login[c].accept
  BY <1>1 DEF TryLoginFinish, IInv, TypeOK
<1>3. CASE login[c].hit
  BY <1>1, <1>3 DEF TryLoginFinish, IInv, CheckInFlight
<1>4. CASE ~login[c].hit
  BY <1>1, <1>2, <1>4 DEF TryLoginFinish
<1>5. QED
  BY <1>3, <1>4

\* try_login answers Auth::Accept only for a stored password
\* (AcceptedPasswordStored), for any number of connections and passwords and
\* any access probability: whether `seen` found the password before other
\* connections ran, or the draw accepted it and `store` added it, the
\* password is in previously_accepted_passwords when the session starts.
THEOREM AcceptStored == Spec => AcceptedPasswordStored
<1>1. Init => IInv
  BY InitTypeOK DEF Init, IInv, GrantedStored, CheckInFlight, NoLogin
<1>2. IInv /\ [Next]_vars => IInv'
  BY TypeStep, ReplayStep DEF IInv
<1>3. IInv /\ [Next]_vars =>
        [\A c \in Conn :
            phase[c] = "checking" /\ phase'[c] = "session" =>
                login[c].pw \in accepted']_vars
  BY AcceptStep
<1>4. QED
  BY <1>1, <1>2, <1>3, PTL DEF Spec, AcceptedPasswordStored

=============================================================================
