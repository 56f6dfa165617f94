--------------------------- MODULE SessionsProofs ---------------------------
(***************************************************************************)
(* Theorems about the sessions of the adapters for any number of callers   *)
(* and of logins.                                                          *)
(***************************************************************************)
EXTENDS Sessions, TLAPS

-----------------------------------------------------------------------------
(* Type correctness.                                                         *)

LEMMA InitTypeOK == Init => TypeOK
<1> SUFFICES ASSUME Init PROVE TypeOK
  OBVIOUS
<1>1. urls \subseteq {"login", "logout"}
  BY DEF Init
<1>2. /\ connected \in BOOLEAN /\ ready \in BOOLEAN /\ crossed \in BOOLEAN
  BY DEF Init
<1>3. /\ issued \in 0 .. MaxLogins /\ token <= issued
      /\ sessions \subseteq 1 .. issued /\ forgotten \subseteq 1 .. issued
  BY SessionsAssumption DEF Init, NoToken
<1>4. adapter \in Adapters /\ client \in {"nil", "closed", "open"}
  BY DEF Init
<1>5. /\ token \in {NoToken} \cup Tokens /\ lock \in Callers \cup {NoCaller}
      /\ ret \in [Callers -> {"nil", "error"}] /\ carried \in [Callers -> {NoToken} \cup Tokens]
      /\ pc \in [Callers -> {"idle"}]
  BY DEF Init
<1>6. blank \in BOOLEAN
  BY DEF Init
<1> QED
  BY <1>1, <1>2, <1>3, <1>4, <1>5, <1>6 DEF TypeOK

LEMMA NextTypeOK == TypeOK /\ [Next]_vars => TypeOK'
<1> SUFFICES ASSUME TypeOK, [Next]_vars PROVE TypeOK'
  OBVIOUS
<1> USE SessionsAssumption DEF TypeOK, Adapters, Tokens, NoToken, Connecting, Disconnecting, serverVars
<1>1. ASSUME NEW c \in Callers, Call(c) PROVE TypeOK'
  BY <1>1 DEF Call, Goto
<1>2. ASSUME NEW c \in Callers, EnterConnect(c) PROVE TypeOK'
  BY <1>2 DEF EnterConnect, Return, GoOn, Goto, Established
<1>3. ASSUME NEW c \in Callers, Open(c) PROVE TypeOK'
  BY <1>3 DEF Open, Return, GoOn, Goto
<1>4. ASSUME NEW c \in Callers, Login(c) PROVE TypeOK'
  <2>1. /\ issued' \in 0 .. MaxLogins /\ token' \in {NoToken} \cup Tokens /\ token' <= issued'
        /\ sessions' \subseteq 1 .. issued' /\ forgotten' \subseteq 1 .. issued'
    <3>1. CASE token' \in {token, NoToken} /\ UNCHANGED <<issued, sessions, forgotten>>
      BY <3>1
    <3>2. CASE /\ issued < MaxLogins /\ issued' = issued + 1
               /\ sessions' = sessions \cup {issued + 1}
               /\ forgotten' \in {forgotten, forgotten \cup {issued + 1}}
               /\ token' \in {token, NoToken, issued + 1}
      BY <3>2
    <3> QED
      BY <1>4, <3>1, <3>2 DEF Login, EmptyToken
  <2>2. pc' \in {[pc EXCEPT ![c] = "opened"], [pc EXCEPT ![c] = "idle"]}
    BY <1>4 DEF Login, EmptyToken, Return, GoOn, Goto
  <2>3. /\ UNCHANGED <<adapter, urls, client, connected, crossed, carried>>
        /\ lock' \in {lock, NoCaller}
        /\ ret' \in {ret, [ret EXCEPT ![c] = "error"]}
        /\ ready' \in BOOLEAN /\ blank' \in BOOLEAN
    BY <1>4 DEF Login, EmptyToken, Return, GoOn
  <2> QED
    BY <2>1, <2>2, <2>3
<1>5. ASSUME NEW c \in Callers, FinishConnect(c) PROVE TypeOK'
  <2>1. /\ connected' = TRUE /\ lock' \in {lock, NoCaller}
        /\ pc' = [pc EXCEPT ![c] = "idle"]
        /\ ret' = [ret EXCEPT ![c] = "nil"]
        /\ ready' \in BOOLEAN
        /\ UNCHANGED <<adapter, urls, client, token, carried, crossed, serverVars>>
    BY <1>5 DEF FinishConnect, Return, Goto
  <2> QED
    BY <2>1
<1>6. ASSUME NEW c \in Callers, EnterDisconnect(c) PROVE TypeOK'
  BY <1>6 DEF EnterDisconnect, Return, GoOn, Goto, Locks, NothingOpen
<1>7. ASSUME NEW c \in Callers, Close(c) PROVE TypeOK'
  BY <1>7 DEF Close, GoOn, Goto
<1>8. ASSUME NEW c \in Callers, ClosePanics(c) \/ OpenPanics(c) PROVE TypeOK'
  BY <1>8 DEF ClosePanics, OpenPanics, Panic, GoOn, Goto
<1>9. ASSUME NEW c \in Callers, Logout(c) PROVE TypeOK'
  <2>1. /\ sessions' \subseteq 1 .. issued' /\ forgotten' \subseteq 1 .. issued'
    <3>1. token # NoToken => token \in 1 .. issued
      OBVIOUS
    <3> QED
      BY <1>9, <3>1 DEF Logout
  <2>2. pc' \in {[pc EXCEPT ![c] = "closed"], [pc EXCEPT ![c] = "broken"]}
    BY <1>9 DEF Logout, GoOn, Goto
  <2> QED
    BY <1>9, <2>1, <2>2 DEF Logout, GoOn
<1>10. ASSUME NEW c \in Callers, FinishDisconnect(c) PROVE TypeOK'
  <2>1. /\ connected' = FALSE /\ token' = NoToken /\ lock' \in {lock, NoCaller}
        /\ client' \in {client, "nil"}
        /\ pc' = [pc EXCEPT ![c] = "idle"]
        /\ ret' \in [Callers -> {"nil", "error"}]
        /\ ready' \in BOOLEAN
        /\ UNCHANGED <<adapter, urls, carried, crossed, serverVars>>
    BY <1>10 DEF FinishDisconnect, Return, Goto
  <2>2. token' \in {NoToken} \cup Tokens /\ token' <= issued'
    BY <2>1
  <2> QED
    BY <2>1, <2>2
<1>11. ASSUME NEW c \in Callers, Use(c) PROVE TypeOK'
  <2>1. lock' \in Callers \cup {NoCaller}
    BY <1>11 DEF Use, Take
  <2>2. carried' \in [Callers -> {NoToken} \cup Tokens]
    BY <1>11 DEF Use
  <2> QED
    BY <1>11, <2>1, <2>2 DEF Use, GoOn, Goto
<1>12. ASSUME NEW c \in Callers, UsePanics(c) PROVE TypeOK'
  BY <1>12 DEF UsePanics, Panic, GoOn, Goto, Locks
<1>13. ASSUME NEW c \in Callers, Exchange(c) PROVE TypeOK'
  BY <1>13 DEF Exchange, Return, Goto
<1>14. CASE Expire
  BY <1>14 DEF Expire
<1>15. CASE UNCHANGED vars
  BY <1>15 DEF vars
<1> QED
  BY <1>1, <1>2, <1>3, <1>4, <1>5, <1>6, <1>7, <1>8,
     <1>9, <1>10, <1>11, <1>12, <1>13, <1>14, <1>15 DEF Next, LockSteps, OtherSteps

\* The fields of the adapter, the places of its callers and the sessions of the
\* server keep their types, and the client holds no token the server never gave.
THEOREM TypeCorrect == Spec => []TypeOK
<1>1. Init => TypeOK
  BY InitTypeOK
<1>2. TypeOK /\ [Next]_vars => TypeOK'
  BY NextTypeOK
<1> QED
  BY <1>1, <1>2, PTL DEF Spec

-----------------------------------------------------------------------------
(* The mutex.                                                                *)

LEMMA MutexInit == Init => MutexInv
BY DEF Init, MutexInv, Guarded

LEMMA MutexStep == TypeOK /\ MutexInv /\ [Next]_vars => MutexInv'
<1> SUFFICES ASSUME TypeOK, MutexInv, [Next]_vars PROVE MutexInv'
  OBVIOUS
<1> USE SessionsAssumption DEF TypeOK, MutexInv, Guarded
<1>1. ASSUME NEW c \in Callers, Call(c) PROVE MutexInv'
  BY <1>1 DEF Call, Goto
<1>2. ASSUME NEW c \in Callers, EnterConnect(c) PROVE MutexInv'
  BY <1>2 DEF EnterConnect, Return, GoOn, Goto, Established
<1>3. ASSUME NEW c \in Callers, Open(c) PROVE MutexInv'
  BY <1>3 DEF Open, Return, GoOn, Goto
<1>4. ASSUME NEW c \in Callers, Login(c) PROVE MutexInv'
  BY <1>4 DEF Login, EmptyToken, Return, GoOn, Goto, WithLogin
<1>5. ASSUME NEW c \in Callers, FinishConnect(c) PROVE MutexInv'
  BY <1>5 DEF FinishConnect, Return, Goto
<1>6. ASSUME NEW c \in Callers, EnterDisconnect(c) PROVE MutexInv'
  BY <1>6 DEF EnterDisconnect, Return, GoOn, Goto, Locks, NothingOpen
<1>7. ASSUME NEW c \in Callers, Close(c) PROVE MutexInv'
  BY <1>7 DEF Close, GoOn, Goto
<1>8. ASSUME NEW c \in Callers, ClosePanics(c) \/ OpenPanics(c) PROVE MutexInv'
  BY <1>8 DEF ClosePanics, OpenPanics, Panic, GoOn, Goto
<1>9. ASSUME NEW c \in Callers, Logout(c) PROVE MutexInv'
  BY <1>9 DEF Logout, GoOn, Goto
<1>10. ASSUME NEW c \in Callers, FinishDisconnect(c) PROVE MutexInv'
  BY <1>10 DEF FinishDisconnect, Return, Goto
<1>11. ASSUME NEW c \in Callers, Use(c) PROVE MutexInv'
  BY <1>11 DEF Use, GoOn, Goto, Locks, Take
<1>12. ASSUME NEW c \in Callers, UsePanics(c) PROVE MutexInv'
  BY <1>12 DEF UsePanics, Panic, GoOn, Goto, Locks
<1>13. ASSUME NEW c \in Callers, Exchange(c) PROVE MutexInv'
  BY <1>13 DEF Exchange, Return, Goto
<1>14. CASE Expire
  BY <1>14 DEF Expire
<1>15. CASE UNCHANGED vars
  BY <1>15 DEF vars
<1> QED
  BY <1>1, <1>2, <1>3, <1>4, <1>5, <1>6, <1>7, <1>8,
     <1>9, <1>10, <1>11, <1>12, <1>13, <1>14, <1>15 DEF Next, LockSteps, OtherSteps

-----------------------------------------------------------------------------
(* The client.                                                               *)

LEMMA ClientInit == Init => ClientInv /\ NoNilUse
BY DEF Init, ClientInv, NoNilUse

LEMMA ClientStep ==
    TypeOK /\ ClientInv /\ NoNilUse /\ [Next]_vars => ClientInv' /\ NoNilUse'
<1> SUFFICES ASSUME TypeOK, ClientInv, NoNilUse, [Next]_vars PROVE ClientInv' /\ NoNilUse'
  OBVIOUS
<1> USE DEF TypeOK, ClientInv, NoNilUse, Adapters
<1>1. ASSUME NEW c \in Callers, Call(c) PROVE ClientInv' /\ NoNilUse'
  BY <1>1 DEF Call, Goto
<1>2. ASSUME NEW c \in Callers, EnterConnect(c) PROVE ClientInv' /\ NoNilUse'
  BY <1>2 DEF EnterConnect, Return, GoOn, Goto, Established
<1>3. ASSUME NEW c \in Callers, Open(c) PROVE ClientInv' /\ NoNilUse'
  BY <1>3 DEF Open, Return, GoOn, Goto
<1>4. ASSUME NEW c \in Callers, Login(c) PROVE ClientInv' /\ NoNilUse'
  BY <1>4 DEF Login, EmptyToken, Return, GoOn, Goto, WithLogin
<1>5. ASSUME NEW c \in Callers, FinishConnect(c) PROVE ClientInv' /\ NoNilUse'
  BY <1>5 DEF FinishConnect, Return, Goto
<1>6. ASSUME NEW c \in Callers, EnterDisconnect(c) PROVE ClientInv' /\ NoNilUse'
  <2>1. CASE NothingOpen
    BY <1>6, <2>1 DEF EnterDisconnect, Return, Goto, Connecting
  <2>2. CASE ~NothingOpen
    BY <1>6, <2>2 DEF EnterDisconnect, GoOn, Goto, NothingOpen
  <2> QED
    BY <2>1, <2>2
<1>7. ASSUME NEW c \in Callers, Close(c) PROVE ClientInv' /\ NoNilUse'
  BY <1>7 DEF Close, GoOn, Goto
<1>8. ASSUME NEW c \in Callers, ClosePanics(c) \/ OpenPanics(c) PROVE ClientInv' /\ NoNilUse'
  BY <1>8 DEF ClosePanics, OpenPanics, Panic, GoOn, Goto
<1>9. ASSUME NEW c \in Callers, Logout(c) PROVE ClientInv' /\ NoNilUse'
  BY <1>9 DEF Logout, GoOn, Goto
<1>10. ASSUME NEW c \in Callers, FinishDisconnect(c) PROVE ClientInv' /\ NoNilUse'
  BY <1>10 DEF FinishDisconnect, Return, Goto
<1>11. ASSUME NEW c \in Callers, Use(c) PROVE ClientInv' /\ NoNilUse'
  BY <1>11 DEF Use, GoOn, Goto, Locks, Take
<1>12. ASSUME NEW c \in Callers, UsePanics(c) PROVE ClientInv' /\ NoNilUse'
  BY <1>12 DEF UsePanics, Panic, GoOn, Goto, Locks
<1>13. ASSUME NEW c \in Callers, Exchange(c) PROVE ClientInv' /\ NoNilUse'
  BY <1>13 DEF Exchange, Return, Goto
<1>14. CASE Expire
  BY <1>14 DEF Expire
<1>15. CASE UNCHANGED vars
  BY <1>15 DEF vars
<1> QED
  BY <1>1, <1>2, <1>3, <1>4, <1>5, <1>6, <1>7, <1>8,
     <1>9, <1>10, <1>11, <1>12, <1>13, <1>14, <1>15 DEF Next, LockSteps, OtherSteps

-----------------------------------------------------------------------------
(* The token.                                                                *)

TokenFacts == TokenInv /\ TokenSettled /\ SessionsKnown

LEMMA TokenInit == Init => TokenFacts
BY DEF Init, TokenFacts, TokenInv, TokenSettled, SessionsKnown

\* Without HTTP there are no sessions at a server.
LEMMA TokenOthers ==
    TypeOK /\ TokenFacts /\ adapter # "http" /\ [Next]_vars => TokenFacts'
<1> SUFFICES ASSUME TypeOK, TokenFacts, adapter # "http", [Next]_vars PROVE TokenFacts'
  OBVIOUS
<1>1. sessions = {}
  BY DEF TokenFacts, TokenInv
<1>2. adapter' = adapter /\ sessions' = {}
  <2>1. ASSUME NEW c \in Callers, Call(c) PROVE adapter' = adapter /\ sessions' = {}
    BY <1>1, <2>1 DEF Call, serverVars
  <2>2. ASSUME NEW c \in Callers, EnterConnect(c) PROVE adapter' = adapter /\ sessions' = {}
    BY <1>1, <2>2 DEF EnterConnect, Return, GoOn, serverVars
  <2>3. ASSUME NEW c \in Callers, Open(c) PROVE adapter' = adapter /\ sessions' = {}
    BY <1>1, <2>3 DEF Open, Return, GoOn, serverVars
  <2>4. ASSUME NEW c \in Callers, Login(c) PROVE FALSE
    BY <2>4 DEF Login
  <2>5. ASSUME NEW c \in Callers, FinishConnect(c) PROVE adapter' = adapter /\ sessions' = {}
    BY <1>1, <2>5 DEF FinishConnect, Return, serverVars
  <2>6. ASSUME NEW c \in Callers, EnterDisconnect(c) PROVE adapter' = adapter /\ sessions' = {}
    BY <1>1, <2>6 DEF EnterDisconnect, Return, GoOn, serverVars
  <2>7. ASSUME NEW c \in Callers, Close(c) PROVE adapter' = adapter /\ sessions' = {}
    BY <1>1, <2>7 DEF Close, GoOn, serverVars
  <2>8. ASSUME NEW c \in Callers, ClosePanics(c) \/ OpenPanics(c) PROVE adapter' = adapter /\ sessions' = {}
    BY <1>1, <2>8 DEF ClosePanics, OpenPanics, Panic, GoOn, serverVars
  <2>9. ASSUME NEW c \in Callers, Logout(c) PROVE FALSE
    BY <2>9 DEF Logout
  <2>10. ASSUME NEW c \in Callers, FinishDisconnect(c) PROVE adapter' = adapter /\ sessions' = {}
    BY <1>1, <2>10 DEF FinishDisconnect, Return, serverVars
  <2>11. ASSUME NEW c \in Callers, Use(c) PROVE adapter' = adapter /\ sessions' = {}
    BY <1>1, <2>11 DEF Use, GoOn, serverVars
  <2>12. ASSUME NEW c \in Callers, UsePanics(c) PROVE adapter' = adapter /\ sessions' = {}
    BY <1>1, <2>12 DEF UsePanics, Panic, GoOn, serverVars
  <2>13. ASSUME NEW c \in Callers, Exchange(c) PROVE adapter' = adapter /\ sessions' = {}
    BY <1>1, <2>13 DEF Exchange, Return, serverVars
  <2>14. CASE Expire
    BY <1>1, <2>14 DEF Expire
  <2>15. CASE UNCHANGED vars
    BY <1>1, <2>15 DEF vars
  <2> QED
    BY <2>1, <2>2, <2>3, <2>4, <2>5, <2>6, <2>7, <2>8,
       <2>9, <2>10, <2>11, <2>12, <2>13, <2>14, <2>15 DEF Next, LockSteps, OtherSteps
<1> QED
  BY <1>2 DEF TokenFacts, TokenInv, TokenSettled, SessionsKnown

\* Steps that change neither the client nor the server, and by which nobody
\* comes to a place the invariant speaks of, or leaves the one before connected.
LEMMA TokenQuiet ==
  ASSUME TokenFacts, UNCHANGED <<adapter, urls, client, connected, token, serverVars, carried>>,
         \A d \in Callers :
            /\ pc'[d] \in {"open", "opened", "closed", "broken", "exchange"} => pc'[d] = pc[d]
            /\ pc[d] = "opened" => pc'[d] = "opened"
  PROVE  TokenFacts'
<1>1. TokenInv'
  BY DEF TokenFacts, TokenInv, WithLogin, serverVars
<1>2. TokenSettled' /\ SessionsKnown'
  BY DEF TokenFacts, TokenSettled, SessionsKnown, serverVars
<1> QED
  BY <1>1, <1>2 DEF TokenFacts

LEMMA TokenStep ==
    TypeOK /\ MutexInv /\ ClientInv /\ TokenFacts /\ [Next]_vars => TokenFacts'
<1> SUFFICES ASSUME TypeOK, MutexInv, ClientInv, TokenFacts, adapter = "http", [Next]_vars
             PROVE TokenFacts'
  BY TokenOthers
<1> USE DEF TypeOK
<1>1. ASSUME NEW c \in Callers, Call(c) PROVE TokenFacts'
  BY <1>1, TokenQuiet DEF Call, Goto
<1>2. ASSUME NEW c \in Callers, EnterConnect(c) PROVE TokenFacts'
  <2>1. CASE Established
    BY <1>2, <2>1, TokenQuiet DEF EnterConnect, Return, GoOn, Goto, Established
  <2>2. CASE ~Established
    <3>1. /\ ~connected /\ client' = "open"
          /\ pc' = [pc EXCEPT ![c] = "open"]
          /\ UNCHANGED <<adapter, urls, connected, token, carried, issued, sessions, forgotten, blank>>
          /\ pc[c] = "connect"
      BY <1>2, <2>2 DEF EnterConnect, GoOn, Goto, Established, ClientInv, serverVars
    <3>2. TokenInv'
      BY <3>1 DEF TokenFacts, TokenInv, WithLogin
    <3>3. TokenSettled' /\ SessionsKnown'
      BY <3>1 DEF TokenFacts, TokenSettled, SessionsKnown
    <3> QED
      BY <3>2, <3>3 DEF TokenFacts
  <2> QED
    BY <2>1, <2>2
<1>3. ASSUME NEW c \in Callers, Open(c) PROVE TokenFacts'
  BY <1>3 DEF Open
<1>4. ASSUME NEW c \in Callers, Login(c) PROVE TokenFacts'
  <2>1. /\ lock = c /\ ~connected /\ pc[c] = "open"
        /\ \A d \in Callers \ {c} : ~Guarded(d)
    BY <1>4, SessionsAssumption DEF Login, MutexInv, Guarded, TokenFacts, TokenInv
  <2>2. token = NoToken /\ NoToken \notin sessions
    BY <2>1 DEF TokenFacts, TokenInv, Guarded, NoToken
  <2>3. /\ UNCHANGED <<adapter, urls, client, connected, carried>>
        /\ pc' \in {[pc EXCEPT ![c] = "opened"], [pc EXCEPT ![c] = "idle"]}
    BY <1>4 DEF Login, EmptyToken, Return, GoOn, Goto
  <2>4. /\ pc'[c] = "opened" /\ WithLogin => token' # NoToken \/ blank'
        /\ pc'[c] # "opened" => token' = token /\ blank' = blank
    BY <1>4, <2>1 DEF Login, EmptyToken, Return, GoOn, Goto, NoToken
  <2>5. TokenInv'
    BY <2>1, <2>2, <2>3, <2>4 DEF TokenFacts, TokenInv, WithLogin, Guarded
  <2>6. SessionsKnown'
    BY <1>4, <2>2 DEF Login, EmptyToken, TokenFacts, SessionsKnown, serverVars
  <2>7. TokenSettled'
    BY <2>1, <2>3 DEF TokenFacts, TokenSettled, Guarded
  <2> QED
    BY <2>5, <2>6, <2>7 DEF TokenFacts
<1>5. ASSUME NEW c \in Callers, FinishConnect(c) PROVE TokenFacts'
  <2>1. /\ pc[c] = "opened" /\ pc' = [pc EXCEPT ![c] = "idle"] /\ connected' = TRUE
        /\ \A d \in Callers \ {c} : ~Guarded(d)
        /\ UNCHANGED <<adapter, urls, client, token, carried, issued, sessions, forgotten, blank>>
    BY <1>5, SessionsAssumption DEF FinishConnect, Return, Goto, MutexInv, Guarded, serverVars
  <2>2. TokenInv'
    BY <2>1 DEF TokenFacts, TokenInv, WithLogin, Guarded
  <2>3. TokenSettled' /\ SessionsKnown'
    BY <2>1 DEF TokenFacts, TokenSettled, SessionsKnown
  <2> QED
    BY <2>2, <2>3 DEF TokenFacts
<1>6. ASSUME NEW c \in Callers, EnterDisconnect(c) PROVE TokenFacts'
  <2>1. /\ UNCHANGED <<adapter, urls, client, connected, token, serverVars, carried>>
        /\ pc' \in {[pc EXCEPT ![c] = "idle"], [pc EXCEPT ![c] = "close"]}
        /\ pc[c] = "disconnect"
    BY <1>6 DEF EnterDisconnect, Return, GoOn, Goto, NothingOpen
  <2> QED
    BY <2>1, TokenQuiet
<1>7. ASSUME NEW c \in Callers, Close(c) PROVE TokenFacts'
  BY <1>7 DEF Close
<1>8. ASSUME NEW c \in Callers, ClosePanics(c) \/ OpenPanics(c) PROVE TokenFacts'
  BY <1>8 DEF ClosePanics, OpenPanics
<1>9. ASSUME NEW c \in Callers, Logout(c) PROVE TokenFacts'
  <2>1. /\ UNCHANGED <<adapter, urls, client, connected, token, carried, blank>>
        /\ pc' \in {[pc EXCEPT ![c] = "closed"], [pc EXCEPT ![c] = "broken"]}
        /\ pc[c] = "close"
    BY <1>9 DEF Logout, GoOn, Goto
  <2>2. /\ sessions' \subseteq sessions /\ forgotten \subseteq forgotten'
        /\ token \notin sessions' \/ token \in forgotten'
    BY <1>9 DEF Logout, NoToken
  <2>3. TokenInv'
    BY <2>1, <2>2 DEF TokenFacts, TokenInv, WithLogin
  <2>4. TokenSettled' /\ SessionsKnown'
    BY <2>1, <2>2 DEF TokenFacts, TokenSettled, SessionsKnown
  <2> QED
    BY <2>3, <2>4 DEF TokenFacts
<1>10. ASSUME NEW c \in Callers, FinishDisconnect(c) PROVE TokenFacts'
  <2>1. /\ pc[c] \in {"closed", "broken"} /\ pc' = [pc EXCEPT ![c] = "idle"]
        /\ connected' = FALSE /\ token' = NoToken
        /\ \A d \in Callers \ {c} : ~Guarded(d)
        /\ UNCHANGED <<adapter, urls, client, carried, issued, sessions, forgotten, blank>>
    BY <1>10, SessionsAssumption
       DEF FinishDisconnect, Return, Goto, MutexInv, Guarded, serverVars
  <2>2. TokenInv'
    BY <2>1 DEF TokenFacts, TokenInv, WithLogin, Guarded
  <2>3. TokenSettled' /\ SessionsKnown'
    BY <2>1 DEF TokenFacts, TokenInv, TokenSettled, SessionsKnown, Guarded
  <2> QED
    BY <2>2, <2>3 DEF TokenFacts
<1>11. ASSUME NEW c \in Callers, Use(c) PROVE TokenFacts'
  <2>1. /\ pc[c] = "use" /\ pc' = [pc EXCEPT ![c] = "exchange"]
        /\ carried' = [carried EXCEPT ![c] = token]
        /\ UNCHANGED <<adapter, urls, client, connected, token, issued, sessions, forgotten, blank>>
    BY <1>11 DEF Use, GoOn, Goto, serverVars
  <2>2. TokenInv'
    BY <2>1 DEF TokenFacts, TokenInv, WithLogin
  <2>3. TokenSettled' /\ SessionsKnown'
    BY <2>1 DEF TokenFacts, TokenSettled, SessionsKnown
  <2> QED
    BY <2>2, <2>3 DEF TokenFacts
<1>12. ASSUME NEW c \in Callers, UsePanics(c) PROVE TokenFacts'
  BY <1>12, TokenQuiet DEF UsePanics, Panic, GoOn, Goto
<1>13. ASSUME NEW c \in Callers, Exchange(c) PROVE TokenFacts'
  <2>1. /\ pc[c] = "exchange" /\ pc' = [pc EXCEPT ![c] = "idle"]
        /\ carried' = [carried EXCEPT ![c] = NoToken]
        /\ UNCHANGED <<adapter, urls, client, connected, token, issued, sessions, forgotten, blank>>
    BY <1>13 DEF Exchange, Return, Goto, serverVars
  <2>2. TokenInv'
    BY <2>1 DEF TokenFacts, TokenInv, WithLogin
  <2>3. TokenSettled' /\ SessionsKnown'
    BY <2>1 DEF TokenFacts, TokenSettled, SessionsKnown
  <2> QED
    BY <2>2, <2>3 DEF TokenFacts
<1>14. CASE Expire
  <2>1. /\ UNCHANGED <<adapter, urls, client, connected, token, pc, carried, forgotten, blank>>
        /\ sessions' \subseteq sessions
    BY <1>14 DEF Expire
  <2>2. TokenInv'
    BY <2>1 DEF TokenFacts, TokenInv, WithLogin
  <2>3. TokenSettled' /\ SessionsKnown'
    BY <2>1 DEF TokenFacts, TokenSettled, SessionsKnown
  <2> QED
    BY <2>2, <2>3 DEF TokenFacts
<1>15. CASE UNCHANGED vars
  BY <1>15, TokenQuiet DEF vars, serverVars
<1> QED
  BY <1>1, <1>2, <1>3, <1>4, <1>5, <1>6, <1>7, <1>8,
     <1>9, <1>10, <1>11, <1>12, <1>13, <1>14, <1>15 DEF Next, LockSteps, OtherSteps

-----------------------------------------------------------------------------
(* What is open.                                                             *)

LEMMA OpenInit == Init => OpenInv
BY DEF Init, OpenInv, Connecting, Disconnecting

LEMMA OpenStep ==
    TypeOK /\ MutexInv /\ ClientInv /\ TokenInv /\ OpenInv /\ [Next]_vars => OpenInv'
<1> SUFFICES ASSUME TypeOK, MutexInv, ClientInv, TokenInv, OpenInv, [Next]_vars PROVE OpenInv'
  OBVIOUS
<1> USE SessionsAssumption DEF TypeOK, Adapters, MutexInv, Guarded, ClientInv, TokenInv, OpenInv,
        Connecting, Disconnecting
<1>1. ASSUME NEW c \in Callers, Call(c) PROVE OpenInv'
  <2>1. /\ pc' \in {[pc EXCEPT ![c] = "connect"], [pc EXCEPT ![c] = "disconnect"],
                    [pc EXCEPT ![c] = "use"]}
        /\ pc[c] = "idle" /\ UNCHANGED <<adapter, client, connected>>
        /\ crossed => crossed'
        /\ crossed' => adapter = "snmp"
    BY <1>1 DEF Call, Goto
  <2>2. ASSUME adapter = "snmp", ~crossed', NEW d \in Callers \ {c}
        PROVE /\ pc'[c] = "connect" => pc[d] \notin Disconnecting
              /\ pc'[c] = "disconnect" => pc[d] \notin Connecting \cup Disconnecting
    <3>1. PICK place \in {"connect", "disconnect", "use"} :
             /\ pc' = [pc EXCEPT ![c] = place]
             /\ crossed' = (crossed \/ /\ adapter = "snmp"
                                       /\ \E x \in Callers \ {c} :
                                            \/ place = "connect" /\ pc[x] \in Disconnecting
                                            \/ /\ place = "disconnect"
                                               /\ pc[x] \in Connecting \cup Disconnecting)
      BY <1>1 DEF Call, Goto
    <3>2. pc'[c] = place
      BY <3>1
    <3> QED
      BY <2>2, <3>1, <3>2
  <2>3. adapter' = "snmp" /\ ~crossed' =>
           \A a, b \in Callers :
               a # b /\ pc'[a] \in Disconnecting => pc'[b] \notin Connecting \cup Disconnecting
    BY <2>1, <2>2
  <2> QED
    BY <2>1, <2>3
<1>2. ASSUME NEW c \in Callers, EnterConnect(c) PROVE OpenInv'
  BY <1>2 DEF EnterConnect, Return, GoOn, Goto, Established
<1>3. ASSUME NEW c \in Callers, Open(c) PROVE OpenInv'
  BY <1>3 DEF Open, Return, GoOn, Goto
<1>4. ASSUME NEW c \in Callers, Login(c) PROVE OpenInv'
  BY <1>4 DEF Login, EmptyToken, Return, GoOn, Goto, WithLogin
<1>5. ASSUME NEW c \in Callers, FinishConnect(c) PROVE OpenInv'
  BY <1>5 DEF FinishConnect, Return, Goto
<1>6. ASSUME NEW c \in Callers, EnterDisconnect(c) PROVE OpenInv'
  BY <1>6 DEF EnterDisconnect, Return, GoOn, Goto, Locks, NothingOpen
<1>7. ASSUME NEW c \in Callers, Close(c) PROVE OpenInv'
  BY <1>7 DEF Close, GoOn, Goto
<1>8. ASSUME NEW c \in Callers, ClosePanics(c) \/ OpenPanics(c) PROVE OpenInv'
  BY <1>8 DEF ClosePanics, OpenPanics, Panic, GoOn, Goto
<1>9. ASSUME NEW c \in Callers, Logout(c) PROVE OpenInv'
  BY <1>9 DEF Logout, GoOn, Goto
<1>10. ASSUME NEW c \in Callers, FinishDisconnect(c) PROVE OpenInv'
  BY <1>10 DEF FinishDisconnect, Return, Goto
<1>11. ASSUME NEW c \in Callers, Use(c) PROVE OpenInv'
  BY <1>11 DEF Use, GoOn, Goto, Locks, Take
<1>12. ASSUME NEW c \in Callers, UsePanics(c) PROVE OpenInv'
  BY <1>12 DEF UsePanics, Panic, GoOn, Goto, Locks
<1>13. ASSUME NEW c \in Callers, Exchange(c) PROVE OpenInv'
  BY <1>13 DEF Exchange, Return, Goto
<1>14. CASE Expire
  BY <1>14 DEF Expire
<1>15. CASE UNCHANGED vars
  BY <1>15 DEF vars
<1> QED
  BY <1>1, <1>2, <1>3, <1>4, <1>5, <1>6, <1>7, <1>8,
     <1>9, <1>10, <1>11, <1>12, <1>13, <1>14, <1>15 DEF Next, LockSteps, OtherSteps

-----------------------------------------------------------------------------
(* The theorems.                                                             *)

Inductive == TypeOK /\ SessionInv /\ TokenFacts /\ NoNilUse

LEMMA InductiveInvariant == Spec => []Inductive
<1> USE DEF Inductive, SessionInv, TokenFacts
<1>1. Init => Inductive
  BY InitTypeOK, MutexInit, ClientInit, TokenInit, OpenInit
<1>2. Inductive /\ [Next]_vars => Inductive'
  BY NextTypeOK, MutexStep, ClientStep, TokenStep, OpenStep
<1> QED
  BY <1>1, <1>2, PTL DEF Spec

\* While an HTTP request is under way its token stays the client's own.
THEOREM TokenStaysSettled == Spec => []TokenSettled
<1>1. Inductive => TokenSettled
  BY DEF Inductive, TokenFacts
<1> QED
  BY <1>1, InductiveInvariant, PTL

\* No open session of the server gets lost but in the ways that are counted.
THEOREM SessionsStayKnown == Spec => []SessionsKnown
<1>1. Inductive => SessionsKnown
  BY DEF Inductive, TokenFacts
<1> QED
  BY <1>1, InductiveInvariant, PTL

\* Nothing calls through a nil client in the Modbus and HTTP adapters.
THEOREM NeverNil == Spec => []NoNilUse
<1>1. Inductive => NoNilUse
  BY DEF Inductive
<1> QED
  BY <1>1, InductiveInvariant, PTL

\* The calls that return nil from a Connect are those that find a session and
\* those that have opened one.
LEMMA NilFrom ==
  ASSUME TypeOK, [Next]_vars, NEW c \in Callers,
         pc[c] \in Connecting, pc'[c] = "idle", ret'[c] = "nil"
  PROVE  \/ EnterConnect(c) /\ Established /\ UNCHANGED <<client, connected, token, blank>>
         \/ FinishConnect(c)
<1> USE DEF TypeOK, Connecting
<1>1. ASSUME NEW d \in Callers, Call(d) PROVE FALSE
  BY <1>1 DEF Call, Goto
<1>2. ASSUME NEW d \in Callers, EnterConnect(d)
      PROVE d = c /\ Established /\ UNCHANGED <<client, connected, token, blank>>
  BY <1>2 DEF EnterConnect, Return, GoOn, Goto, serverVars
<1>3. ASSUME NEW d \in Callers, Open(d) PROVE FALSE
  BY <1>3 DEF Open, Return, GoOn, Goto
<1>4. ASSUME NEW d \in Callers, Login(d) PROVE FALSE
  BY <1>4 DEF Login, EmptyToken, Return, GoOn, Goto
<1>5. ASSUME NEW d \in Callers, FinishConnect(d) PROVE d = c
  BY <1>5 DEF FinishConnect, Return, Goto
<1>6. ASSUME NEW d \in Callers, EnterDisconnect(d) PROVE FALSE
  BY <1>6 DEF EnterDisconnect, Return, GoOn, Goto
<1>7. ASSUME NEW d \in Callers, Close(d) PROVE FALSE
  BY <1>7 DEF Close, GoOn, Goto
<1>8. ASSUME NEW d \in Callers, ClosePanics(d) \/ OpenPanics(d) PROVE FALSE
  BY <1>8 DEF ClosePanics, OpenPanics, Panic, GoOn, Goto
<1>9. ASSUME NEW d \in Callers, Logout(d) PROVE FALSE
  BY <1>9 DEF Logout, GoOn, Goto
<1>10. ASSUME NEW d \in Callers, FinishDisconnect(d) PROVE FALSE
  BY <1>10 DEF FinishDisconnect, Return, Goto
<1>11. ASSUME NEW d \in Callers, Use(d) PROVE FALSE
  BY <1>11 DEF Use, GoOn, Goto
<1>12. ASSUME NEW d \in Callers, UsePanics(d) PROVE FALSE
  BY <1>12 DEF UsePanics, Panic, GoOn, Goto
<1>13. ASSUME NEW d \in Callers, Exchange(d) PROVE FALSE
  BY <1>13 DEF Exchange, Return, Goto
<1>14. CASE Expire
  BY <1>14 DEF Expire
<1>15. CASE UNCHANGED vars
  BY <1>15 DEF vars
<1> QED
  BY <1>1, <1>2, <1>3, <1>4, <1>5, <1>6, <1>7, <1>8,
     <1>9, <1>10, <1>11, <1>12, <1>13, <1>14, <1>15 DEF Next, LockSteps, OtherSteps

LEMMA NilStep ==
  ASSUME Inductive, [Next]_vars, NEW c \in Callers,
         pc[c] \in Connecting, pc'[c] = "idle", ret'[c] = "nil"
  PROVE  InSession' \/ crossed
<1> USE SessionsAssumption DEF Inductive, SessionInv, TypeOK, Adapters
<1>1. CASE EnterConnect(c) /\ Established /\ UNCHANGED <<client, connected, token, blank>>
  <2>1. /\ lock = NoCaller /\ client # "nil"
        /\ adapter \in {"http", "snmp", "opcua"}
        /\ adapter # "opcua" => connected
        /\ UNCHANGED <<adapter, urls>> /\ pc[c] = "connect"
    BY <1>1 DEF EnterConnect, Established, Return, GoOn
  <2>2. \A d \in Callers : ~Guarded(d)
    BY <2>1 DEF MutexInv
  <2>3. ~crossed => client = "open" /\ connected
    BY <2>1, <2>2 DEF OpenInv, TokenInv, Guarded, Connecting, Disconnecting
  <2>4. adapter = "http" /\ WithLogin => token # NoToken \/ blank
    BY <2>1 DEF TokenInv
  <2> QED
    BY <1>1, <2>1, <2>3, <2>4 DEF InSession, WithLogin
<1>2. CASE FinishConnect(c)
  <2>1. /\ pc[c] = "opened" /\ connected' = TRUE
        /\ UNCHANGED <<adapter, urls, client, token, blank>>
    BY <1>2 DEF FinishConnect, Return, serverVars
  <2> QED
    BY <2>1 DEF OpenInv, TokenInv, InSession, WithLogin
<1> QED
  BY <1>1, <1>2, NilFrom

\* A Connect that returns nil stands for a session.
THEOREM ConnectOpens == Spec => NilMeansOpen
<1>1. Inductive /\ [Next]_vars =>
         \A c \in Callers :
            pc[c] \in Connecting /\ pc'[c] = "idle" /\ ret'[c] = "nil" => InSession' \/ crossed
  BY NilStep
<1> QED
  BY <1>1, InductiveInvariant, PTL DEF Spec, NilMeansOpen

=============================================================================
