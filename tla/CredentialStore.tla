--------------------------- MODULE CredentialStore ---------------------------
(***************************************************************************)
(* What try_login (server.rs:80-108) promises, stated as if it were one   *)
(* atomic step: a password found in the store of previously accepted       *)
(* passwords is accepted; any other is accepted when the draw of           *)
(* fastrand::f64() falls at or below access_probability, and is then       *)
(* stored; every attempt is answered and recorded against its connection.  *)
(* Pisshoff splits the step at its two calls on the shared store; the      *)
(* refinement in Pisshoff shows the split version behaves like this one.   *)
(***************************************************************************)
EXTENDS Naturals

CONSTANTS
    Conn,            \* connections
    Password,        \* passwords an attacker may submit
    Resolution,      \* the draw is k / Resolution, k \in 0..Resolution-1
    AccessNumerator  \* access_probability = AccessNumerator / Resolution

VARIABLES
    store,   \* previously_accepted_passwords
    tried,   \* the pairs <<connection, password>> that have been answered
    authed   \* the live connections answered Auth::Accept

vars == <<store, tried, authed>>

\* The values of the draw, scaled by Resolution.
Samples == 0 .. (Resolution - 1)

Init ==
    /\ store = {}
    /\ tried = {}
    /\ authed = {}

\* One password attempt of connection c, decided and stored at once.
Login(c, p) ==
    /\ c \notin authed
    /\ \E k \in Samples :
          LET accept == p \in store \/ k <= AccessNumerator IN
          /\ store' = IF accept THEN store \cup {p} ELSE store
          /\ authed' = IF accept THEN authed \cup {c} ELSE authed
    /\ tried' = tried \cup {<<c, p>>}

\* An authenticated connection ends.
Logout(c) ==
    /\ c \in authed
    /\ authed' = authed \ {c}
    /\ UNCHANGED <<store, tried>>

Next ==
    \/ \E c \in Conn, p \in Password : Login(c, p)
    \/ \E c \in Conn : Logout(c)

Spec == Init /\ [][Next]_vars

\* Every authenticated connection has been answered for a password that is
\* in the store: the store justifies every session it let in.
AuthedByStored == \A c \in authed : \E p \in store : <<c, p>> \in tried

=============================================================================
