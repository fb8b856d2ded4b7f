----------------------- MODULE PisshoffRefinementProofs -----------------------
(***************************************************************************)
(* Proof that the connections of Pisshoff implement the atomic credential  *)
(* store of CredentialStore under the refinement mapping of Pisshoff       *)
(* (store <- accepted, tried <- Tried, authed <- Authed): try_login is     *)
(* linearizable although it calls `seen` and `store` separately.  A call   *)
(* whose outcome `seen` already fixes (a hit, or a miss whose draw         *)
(* rejects) takes effect at the check; a miss that accepts takes effect    *)
(* at its `store`.                                                         *)
(***************************************************************************)
EXTENDS PisshoffProofs

USE ConstAssumption

\* The strengthening IInv of PisshoffProofs holds in every reachable state.
LEMMA IInvInvariant == Spec => []IInv
<1>1. Init => IInv
  BY InitTypeOK DEF Init, IInv, GrantedStored, CheckInFlight, NoLogin
<1>2. IInv /\ [Next]_vars => IInv'
  BY TypeStep, ReplayStep DEF IInv
<1>3. QED
  BY <1>1, <1>2, PTL DEF Spec

-----------------------------------------------------------------------------
(* Lemmas about the mapping.                                               *)

\* Appending an action adds its password attempt, if it is one.
LEMMA LoginPairsAppend ==
    ASSUME NEW c, NEW s \in Seq(Action), NEW a \in Action
    PROVE  LoginPairs(c, Append(s, a)) =
             LoginPairs(c, s)
             \cup (IF a.kind = "LoginPassword" THEN {<<c, a.pw>>} ELSE {})
<1> DEFINE t == Append(s, a)
<1>1. /\ Len(t) = Len(s) + 1
      /\ \A j \in 1 .. Len(s) : t[j] = s[j]
      /\ t[Len(s) + 1] = a
  OBVIOUS
<1>2. {j \in 1 .. Len(t) : t[j].kind = "LoginPassword"} =
        {j \in 1 .. Len(s) : s[j].kind = "LoginPassword"}
        \cup (IF a.kind = "LoginPassword" THEN {Len(s) + 1} ELSE {})
  BY <1>1
<1>3. QED
  BY <1>1, <1>2 DEF LoginPairs

\* The mapped attempts change only as the attempts of each connection do.
LEMMA TriedUpdate ==
    ASSUME NEW c \in Conn, NEW X,
           \A d \in Conn \ {c} : TriedBy(d)' = TriedBy(d),
           TriedBy(c)' = TriedBy(c) \cup X
    PROVE  Tried' = Tried \cup X
BY DEF Tried

\* A connection other than the one that steps keeps its mapped state.
LEMMA OtherConn ==
    ASSUME NEW d \in Conn,
           phase'[d] = phase[d], login'[d] = login[d], actions'[d] = actions[d]
    PROVE  /\ TriedBy(d)' = TriedBy(d)
           /\ (d \in Authed') = (d \in Authed)
<1>1. (d \in Decided') = (d \in Decided)
  BY DEF Decided
<1>2. QED
  BY <1>1 DEF TriedBy, LoginPairs, Authed

\* The mapped sessions are connections.
LEMMA AuthedInConn == Authed \subseteq Conn /\ Authed' \subseteq Conn
BY DEF Authed, Decided

\* A step that changes neither the store nor any connection's mapped
\* attempts or session is a stutter of the abstraction.
LEMMA MappedStutter ==
    ASSUME UNCHANGED accepted,
           \A d \in Conn : /\ TriedBy(d)' = TriedBy(d)
                           /\ (d \in Authed') = (d \in Authed)
    PROVE  UNCHANGED CS!vars
<1>1. Tried' = Tried
  BY DEF Tried
<1>2. Authed' = Authed
  BY AuthedInConn
<1>3. QED
  BY <1>1, <1>2 DEF CS!vars

\* A handler that leaves the phases, the logins and the store alone and
\* appends to connection c's actions something other than a password
\* attempt is a stutter of the abstraction.
LEMMA PushStutter ==
    ASSUME TypeOK, NEW c \in Conn, NEW a \in Action, a.kind # "LoginPassword",
           actions' = [actions EXCEPT ![c] = Append(@, a)],
           UNCHANGED <<phase, login, accepted>>
    PROVE  UNCHANGED CS!vars
<1>0. actions'[c] = Append(actions[c], a) /\ actions[c] \in Seq(Action)
  BY DEF TypeOK
<1>1. LoginPairs(c, actions'[c]) = LoginPairs(c, actions[c])
  <2>1. LoginPairs(c, Append(actions[c], a)) =
          LoginPairs(c, actions[c])
          \cup (IF a.kind = "LoginPassword" THEN {<<c, a.pw>>} ELSE {})
    BY <1>0, LoginPairsAppend
  <2>2. QED
    BY <1>0, <2>1
<1>2. Decided' = Decided
  BY DEF Decided
<1>3. \A d \in Conn : /\ TriedBy(d)' = TriedBy(d)
                      /\ (d \in Authed') = (d \in Authed)
  BY <1>1, <1>2 DEF TriedBy, Authed, TypeOK
<1>4. QED
  BY <1>3, MappedStutter

-----------------------------------------------------------------------------
(* The refinement.                                                         *)

\* Every step of Pisshoff is a step of the atomic credential store under the
\* mapping, or leaves the mapped state unchanged.
LEMMA RefinementStep == IInv /\ [Next]_vars => [CS!Next]_CS!vars
<1> SUFFICES ASSUME IInv, [Next]_vars PROVE [CS!Next]_CS!vars
  OBVIOUS
<1> USE DEF IInv
<1>1. ASSUME NEW c \in Conn, NewConnection(c) PROVE UNCHANGED CS!vars
  <2>1. c \notin Decided /\ c \notin Decided' /\ c \notin Authed /\ c \notin Authed'
    BY <1>1 DEF NewConnection, Decided, Authed
  <2>2. TriedBy(c)' = TriedBy(c)
    BY <1>1, <2>1 DEF NewConnection, TriedBy
  <2>3. \A d \in Conn \ {c} : TriedBy(d)' = TriedBy(d) /\ (d \in Authed') = (d \in Authed)
    BY <1>1, OtherConn DEF NewConnection, TypeOK
  <2>4. QED
    BY <1>1, <2>1, <2>2, <2>3, MappedStutter DEF NewConnection
<1>2. ASSUME NEW c \in Conn, NEW p \in Password, TryLoginCheck(c, p)
      PROVE  [CS!Next]_CS!vars
  <2>1. PICK k \in Samples :
            login' = [login EXCEPT ![c] =
                        [pw |-> p, hit |-> p \in accepted,
                         accept |-> p \in accepted \/ k <= AccessNumerator,
                         known |-> p \in granted]]
    BY <1>2 DEF TryLoginCheck
  <2> DEFINE acc == p \in accepted \/ k <= AccessNumerator
  <2>2. /\ phase[c] = "auth" /\ phase'[c] = "checking"
        /\ login'[c].pw = p /\ login'[c].hit = (p \in accepted)
        /\ login'[c].accept = acc
        /\ actions' = actions /\ accepted' = accepted
    BY <1>2, <2>1 DEF TryLoginCheck, ClientEvent, TypeOK
  <2>3. c \notin Decided /\ c \notin Authed
    BY <2>2 DEF Decided, Authed
  <2>4. \A d \in Conn \ {c} : TriedBy(d)' = TriedBy(d) /\ (d \in Authed') = (d \in Authed)
    BY <1>2, <2>1, OtherConn DEF TryLoginCheck, TypeOK
  <2>5. CASE p \in accepted \/ ~(k <= AccessNumerator)
    <3>1. c \in Decided'
      BY <2>2, <2>5 DEF Decided
    <3>2. TriedBy(c)' = TriedBy(c) \cup {<<c, p>>}
      BY <2>2, <2>3, <3>1 DEF TriedBy
    <3>3. Tried' = Tried \cup {<<c, p>>}
      BY <2>4, <3>2, TriedUpdate
    <3>4. Authed' = IF acc THEN Authed \cup {c} ELSE Authed
      <4>1. c \in Authed' <=> acc
        BY <2>2, <3>1 DEF Authed
      <4>2. QED
        BY <2>3, <2>4, <4>1, AuthedInConn
    <3>5. accepted' = IF acc THEN accepted \cup {p} ELSE accepted
      BY <2>2, <2>5
    <3>6. CS!Login(c, p)
      BY <2>3, <3>3, <3>4, <3>5 DEF CS!Login, CS!Samples, Samples
    <3>7. QED
      BY <3>6 DEF CS!Next
  <2>6. CASE p \notin accepted /\ k <= AccessNumerator
    <3>1. c \notin Decided' /\ c \notin Authed'
      BY <2>2, <2>6 DEF Decided, Authed
    <3>2. TriedBy(c)' = TriedBy(c)
      BY <2>2, <2>3, <3>1 DEF TriedBy
    <3>3. QED
      BY <2>2, <2>3, <2>4, <3>1, <3>2, MappedStutter
  <2>7. QED
    BY <2>5, <2>6
<1>3. ASSUME NEW c \in Conn, TryLoginFinish(c) PROVE [CS!Next]_CS!vars
  <2> DEFINE l == login[c]
  <2>1. /\ phase[c] = "checking" /\ l.pw \in Password
        /\ l \in LoginState
        /\ l.hit => l.accept /\ l.pw \in accepted
        /\ phase'[c] = IF l.accept THEN "session" ELSE "auth"
        /\ login'[c] = NoLogin
        /\ actions'[c] = Append(actions[c], [kind |-> "LoginPassword", pw |-> l.pw])
        /\ accepted' = IF l.accept /\ ~l.hit THEN accepted \cup {l.pw} ELSE accepted
    BY <1>3 DEF TryLoginFinish, TypeOK, CheckInFlight
  <2>2. [kind |-> "LoginPassword", pw |-> l.pw] \in Action
    BY <2>1 DEF Action, Kinds
  <2>3. LoginPairs(c, actions'[c]) = LoginPairs(c, actions[c]) \cup {<<c, l.pw>>}
    BY <2>1, <2>2, LoginPairsAppend DEF TypeOK
  <2>4. c \notin Decided' /\ (c \in Authed' <=> l.accept)
    BY <2>1 DEF Decided, Authed
  <2>5. \A d \in Conn \ {c} : TriedBy(d)' = TriedBy(d) /\ (d \in Authed') = (d \in Authed)
    BY <1>3, OtherConn DEF TryLoginFinish, TypeOK
  <2>6. CASE l.hit \/ ~l.accept
    <3>1. c \in Decided /\ (c \in Authed <=> l.accept)
      BY <2>1, <2>6 DEF Decided, Authed
    <3>2. TriedBy(c)' = TriedBy(c)
      BY <2>3, <2>4, <3>1 DEF TriedBy
    <3>3. accepted' = accepted
      BY <2>1, <2>6
    <3>4. QED
      BY <2>4, <2>5, <3>1, <3>2, <3>3, MappedStutter
  <2>7. CASE ~l.hit /\ l.accept
    <3>1. c \notin Decided /\ c \notin Authed
      BY <2>1, <2>7 DEF Decided, Authed
    <3>2. TriedBy(c)' = TriedBy(c) \cup {<<c, l.pw>>}
      BY <2>3, <2>4, <3>1 DEF TriedBy
    <3>3. Tried' = Tried \cup {<<c, l.pw>>}
      BY <2>5, <3>2, TriedUpdate
    <3>4. Authed' = Authed \cup {c}
      BY <2>4, <2>5, <2>7, AuthedInConn
    <3>5. accepted' = accepted \cup {l.pw}
      BY <2>1, <2>7
    <3>6. 0 \in Samples /\ 0 <= AccessNumerator
      BY DEF Samples
    <3>7. CS!Login(c, l.pw)
      BY <3>1, <3>3, <3>4, <3>5, <3>6 DEF CS!Login, CS!Samples, Samples
    <3>8. QED
      BY <2>1, <3>7 DEF CS!Next
  <2>8. QED
    BY <2>6, <2>7
<1>4. ASSUME NEW c \in Conn, AuthPublickey(c) PROVE UNCHANGED CS!vars
  <2>1. Act("LoginPublicKey") \in Action /\ Act("LoginPublicKey").kind # "LoginPassword"
    BY DEF Act, Action, Kinds
  <2>2. /\ actions' = [actions EXCEPT ![c] = Append(@, Act("LoginPublicKey"))]
        /\ UNCHANGED <<phase, login, accepted>>
    BY <1>4 DEF AuthPublickey
  <2>3. QED
    BY <2>1, <2>2, PushStutter
<1>5. ASSUME NEW c \in Conn, NEW k \in Kinds \ {"LoginPassword"}, Push(c, k)
      PROVE  UNCHANGED CS!vars
  <2>1. Act(k) \in Action /\ Act(k).kind # "LoginPassword"
    BY DEF Act, Action
  <2>2. /\ actions' = [actions EXCEPT ![c] = Append(@, Act(k))]
        /\ UNCHANGED <<phase, login, accepted>>
    BY <1>5 DEF Push
  <2>3. QED
    BY <2>1, <2>2, PushStutter
<1>6. ASSUME NEW c \in Conn,
             \/ ChannelOpenX11(c) \/ ChannelOpenDirectTcpip(c)
             \/ WindowAdjusted(c) \/ PtyRequest(c) \/ X11Request(c)
             \/ ShellRequest(c) \/ SubsystemRequest(c)
             \/ WindowChangeRequest(c) \/ Signal(c) \/ TcpipForward(c)
             \/ CancelTcpipForward(c)
      PROVE  UNCHANGED CS!vars
  BY <1>6, <1>5 DEF ChannelOpenX11, ChannelOpenDirectTcpip,
     WindowAdjusted, PtyRequest, X11Request, ShellRequest, SubsystemRequest,
     WindowChangeRequest, Signal, TcpipForward, CancelTcpipForward, Kinds
<1>7. ASSUME NEW c \in Conn, RunParsed(c) PROVE UNCHANGED CS!vars
  <2>1. CASE actions' = actions
    <3>1. \A d \in Conn : TriedBy(d)' = TriedBy(d) /\ (d \in Authed') = (d \in Authed)
      BY <1>7, <2>1, OtherConn DEF RunParsed
    <3>2. QED
      BY <1>7, <3>1, MappedStutter DEF RunParsed
  <2>4. CASE actions' = [actions EXCEPT ![c] = Append(@, Act("ExecCommand"))]
    <3>1. Act("ExecCommand") \in Action /\ Act("ExecCommand").kind # "LoginPassword"
      BY DEF Act, Action, Kinds
    <3>2. UNCHANGED <<phase, login, accepted>>
      BY <1>7 DEF RunParsed
    <3>3. QED
      BY <2>4, <3>1, <3>2, PushStutter
  <2>5. QED
    BY <1>7, <2>1, <2>4 DEF RunParsed
<1>8. ASSUME NEW c \in Conn, EnvRequest(c) PROVE UNCHANGED CS!vars
  <2>1. \A d \in Conn : TriedBy(d)' = TriedBy(d) /\ (d \in Authed') = (d \in Authed)
    BY <1>8, OtherConn DEF EnvRequest
  <2>2. QED
    BY <1>8, <2>1, MappedStutter DEF EnvRequest
<1>9. ASSUME NEW c \in Conn, Drop(c) PROVE [CS!Next]_CS!vars
  <2>1. /\ phase[c] \in {"auth", "session"} /\ phase'[c] = "closed"
        /\ UNCHANGED <<login, actions, accepted>>
    BY <1>9 DEF Drop, TypeOK
  <2>2. c \notin Decided /\ c \notin Decided' /\ c \notin Authed'
    BY <2>1 DEF Decided, Authed
  <2>3. TriedBy(c)' = TriedBy(c)
    BY <2>1, <2>2 DEF TriedBy
  <2>4. \A d \in Conn \ {c} : TriedBy(d)' = TriedBy(d) /\ (d \in Authed') = (d \in Authed)
    BY <1>9, OtherConn DEF Drop, TypeOK
  <2>5. CASE phase[c] = "session"
    <3>1. c \in Authed /\ Authed' = Authed \ {c}
      <4>1. c \in Authed
        BY <2>5 DEF Authed
      <4>2. QED
        BY <2>2, <2>4, <4>1, AuthedInConn
    <3>2. Tried' = Tried
      BY <2>3, <2>4 DEF Tried
    <3>3. CS!Logout(c)
      BY <2>1, <3>1, <3>2 DEF CS!Logout
    <3>4. QED
      BY <3>3 DEF CS!Next
  <2>6. CASE phase[c] = "auth"
    <3>1. c \notin Authed
      BY <2>2, <2>6 DEF Authed
    <3>2. QED
      BY <2>1, <2>2, <2>3, <2>4, <3>1, MappedStutter
  <2>7. QED
    BY <2>1, <2>5, <2>6
<1>10. CASE \/ WriteAuditLog \/ AuditWriterFails \/ AuditWriterFinishes
            \/ ServerBindFails \/ AcceptLoopEnds \/ AuditHandleReturns \/ CtrlC
            \/ AwaitAuditHandle \/ UNCHANGED vars
  <2>1. UNCHANGED <<phase, login, actions, accepted>>
    BY <1>10 DEF WriteAuditLog, AuditWriterFails, AuditWriterFinishes,
       ServerBindFails, AcceptLoopEnds, AuditHandleReturns, CtrlC, AwaitAuditHandle, vars,
       connVars
  <2>2. \A d \in Conn : TriedBy(d)' = TriedBy(d) /\ (d \in Authed') = (d \in Authed)
    BY <2>1, OtherConn
  <2>3. QED
    BY <2>1, <2>2, MappedStutter
<1>11. QED
  BY <1>1, <1>2, <1>3, <1>4, <1>6, <1>7, <1>8, <1>9, <1>10
  DEF Next, ConnStep, Data, ExecRequest

\* try_login is linearizable (CredentialStoreRefined): for every number of
\* connections and passwords and every access probability, the handlers of
\* server.rs, with `seen` and `store` as separate calls on the shared store,
\* implement the atomic credential store of CredentialStore.
THEOREM Linearizable == Spec => CredentialStoreRefined
<1>1. Init => CS!Init
  BY DEF Init, CS!Init, Tried, TriedBy, LoginPairs, Decided, Authed
<1>2. IInv /\ [Next]_vars => [CS!Next]_CS!vars
  BY RefinementStep
<1>3. QED
  BY <1>1, <1>2, IInvInvariant, PTL DEF Spec, CS!Spec, CredentialStoreRefined

=============================================================================
