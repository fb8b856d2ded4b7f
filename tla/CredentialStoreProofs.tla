------------------------ MODULE CredentialStoreProofs ------------------------
(***************************************************************************)
(* Proofs about the atomic credential store: what try_login promises,      *)
(* shown once on the abstract specification and carried to the handlers  *)
(* of Pisshoff by the refinement.                                          *)
(***************************************************************************)
EXTENDS CredentialStore, TLAPS

\* Every step keeps every authenticated connection justified by a stored
\* password: Login adds a connection only together with the password it
\* tried, the store and the answered attempts only grow, and Logout only
\* removes connections.
LEMMA AuthedByStoredStep == AuthedByStored /\ [Next]_vars => AuthedByStored'
<1> SUFFICES ASSUME AuthedByStored, [Next]_vars PROVE AuthedByStored'
  OBVIOUS
<1>1. ASSUME NEW c \in Conn, NEW p \in Password, Login(c, p)
      PROVE  AuthedByStored'
  <2>1. PICK k \in Samples :
            LET accept == p \in store \/ k <= AccessNumerator IN
            /\ store' = IF accept THEN store \cup {p} ELSE store
            /\ authed' = IF accept THEN authed \cup {c} ELSE authed
    BY <1>1 DEF Login
  <2>2. store \subseteq store' /\ tried \subseteq tried' /\ <<c, p>> \in tried'
    BY <1>1, <2>1 DEF Login
  <2>3. \A d \in authed' : d \in authed \/ (d = c /\ p \in store')
    BY <2>1
  <2>4. QED
    BY <2>2, <2>3 DEF AuthedByStored
<1>2. ASSUME NEW c \in Conn, Logout(c) PROVE AuthedByStored'
  BY <1>2 DEF Logout, AuthedByStored
<1>3. CASE UNCHANGED vars
  BY <1>3 DEF vars, AuthedByStored
<1>4. QED
  BY <1>1, <1>2, <1>3 DEF Next

\* The store justifies every session it let in (AuthedByStored): in every
\* state of the atomic credential store, each authenticated connection has
\* been answered for a password that the store holds.
THEOREM StoreJustifiesSessions == Spec => []AuthedByStored
<1>1. Init => AuthedByStored
  BY DEF Init, AuthedByStored
<1>2. QED
  BY <1>1, AuthedByStoredStep, PTL DEF Spec

=============================================================================
