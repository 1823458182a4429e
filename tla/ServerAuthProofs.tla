-------------------------- MODULE ServerAuthProofs --------------------------
(***************************************************************************)
(* The properties of logins and service tokens, for any constants: every   *)
(* step is one of a part, which keeps the part's invariant and leaves the  *)
(* other part alone, or a tick of the clock, which keeps both.             *)
(***************************************************************************)
EXTENDS ServerAuth, FiniteSetTheorems, TLAPS

(***************************************************************************)
(* What logins guarantee, for any logins, accounts, servers and times: a   *)
(* login ends in one session token at most, never for another account.     *)
(***************************************************************************)

Visitors == Accounts \union {Nobody}

LoginPhases == {"idle", "resolved", "rejected", "par", "open", "failed", "lost"}
CallbackPhases == {"idle", "exchange", "store", "refused", "done"}

LoginRecords == [phase : LoginPhases, did : Visitors, at : Nat]
CallbackRecords ==
  [phase : CallbackPhases, login : SUBSET Logins, did : Visitors \union {EmptyDid}, expires : Nat]

LoginsTyped ==
  /\ now \in Nat
  /\ login \in [Logins -> LoginRecords]
  /\ callback \in [Callbacks -> CallbackRecords]
  /\ DOMAIN pending \subseteq Logins

(* The callbacks of login l, and whether it has been used up by one.       *)
CallbacksOf(l) == {c \in Callbacks : callback[c].login = {l}}
Tokens(l) == {t \in minted : t.login = l}

(* A login whose state is stored has come to no callback yet.              *)
PendingUnused ==
  \A l \in DOMAIN pending :
    /\ login[l].phase \in {"par", "open", "failed"}
    /\ CallbacksOf(l) = {} /\ Tokens(l) = {}

(* Only a login that has been begun is called back or has a session.       *)
BegunOnly ==
  \A l \in Logins :
    login[l].phase \in {"idle", "resolved"} =>
      /\ CallbacksOf(l) = {} /\ Tokens(l) = {} /\ l \notin DOMAIN pending
      /\ \A a \in DOMAIN sessions : sessions[a].login # l

(* Of the callbacks of a login at most one is past the state, and none is  *)
(* once a token is minted.                                                 *)
Underway(c) == callback[c].phase \in {"exchange", "store"}

OneUnderway ==
  /\ \A c \in Callbacks : Underway(c) => \E l \in Logins : callback[c].login = {l}
  /\ \A l \in Logins : \A c, d \in CallbacksOf(l) : Underway(c) /\ Underway(d) => c = d
  /\ \A l \in Logins : \A c \in CallbacksOf(l) : Underway(c) => Tokens(l) = {}

(* A DID that an answer may leave to a login: the one it was begun for, or *)
(* the empty one.                                                          *)
OwnDid(l, did) == did \in {login[l].did, EmptyDid}

(* What is stored for an account is of a login of this account.            *)
OfTheAccount ==
  /\ \A c \in Callbacks : callback[c].phase = "store" =>
       callback[c].did \in Accounts \union {EmptyDid} /\ OwnDid(LoginOf(c), callback[c].did)
  /\ \A t \in minted : t.login \in Logins /\ OwnDid(t.login, t.did)
  /\ \A a \in DOMAIN sessions :
       /\ sessions[a].login \in Logins /\ OwnDid(sessions[a].login, a)
       /\ sessions[a].owner = login[sessions[a].login].did

OneToken == \A s, t \in minted : s.login = t.login => s = t

LoginIInv ==
  LoginsTyped /\ PendingUnused /\ BegunOnly /\ OneUnderway /\ OfTheAccount /\ OneToken

LEMMA LoginOfCallback ==
  ASSUME NEW c \in Callbacks, NEW l \in Logins, callback[c].login = {l}
  PROVE  LoginOf(c) = l
  BY DEF LoginOf

LEMMA OAuthInitIInv == now = 0 /\ OAuthInit => LoginIInv
<1> SUFFICES ASSUME now = 0, OAuthInit PROVE LoginIInv
  OBVIOUS
<1>1. \A l : CallbacksOf(l) = {} /\ Tokens(l) = {}
  BY DEF OAuthInit, NoCallback, CallbacksOf, Tokens
<1>2. LoginsTyped
  BY DEF OAuthInit, NoLogin, NoCallback, LoginsTyped, LoginRecords, LoginPhases,
     CallbackRecords, CallbackPhases, Visitors
<1>3. PendingUnused /\ BegunOnly /\ OneToken
  BY <1>1 DEF OAuthInit, PendingUnused, BegunOnly, OneToken
<1>4. OneUnderway /\ OfTheAccount
  BY <1>1 DEF OAuthInit, NoCallback, OneUnderway, Underway, OfTheAccount
<1> QED BY <1>2, <1>3, <1>4 DEF LoginIInv

(* Steps that touch neither logins, callbacks nor tokens.                  *)
LEMMA ElsewhereKeepsIInv ==
  ASSUME LoginIInv, now' \in Nat, UNCHANGED <<login, callback, minted>>,
         DOMAIN pending' \subseteq DOMAIN pending, DOMAIN sessions' \subseteq DOMAIN sessions,
         \A a \in DOMAIN sessions' : sessions'[a] = sessions[a]
  PROVE  LoginIInv'
<1>1. \A l : CallbacksOf(l)' = CallbacksOf(l) /\ Tokens(l)' = Tokens(l)
  BY DEF CallbacksOf, Tokens
<1>2. \A c : Underway(c)' = Underway(c) /\ LoginOf(c)' = LoginOf(c)
  BY DEF Underway, LoginOf
<1>3. LoginsTyped' /\ PendingUnused'
  BY <1>1 DEF LoginIInv, LoginsTyped, PendingUnused
<1>4. BegunOnly' /\ OneUnderway'
  BY <1>1, <1>2 DEF LoginIInv, BegunOnly, OneUnderway
<1>5. OfTheAccount' /\ OneToken'
  BY <1>2 DEF LoginIInv, OfTheAccount, OneToken, OwnDid
<1> QED BY <1>3, <1>4, <1>5 DEF LoginIInv

(* A login moves on.  Its account is settled before anything is stored.    *)
LEMMA LoginMovesKeepsIInv ==
  ASSUME LoginIInv, NEW l \in Logins, NEW q \in LoginRecords,
         login' = [login EXCEPT ![l] = q],
         UNCHANGED <<now, callback, sessions, minted>>,
         login[l].phase # "idle" => q.did = login[l].did,
         q.phase \in {"idle", "resolved"} => login[l].phase \in {"idle", "resolved"},
         DOMAIN pending' \subseteq DOMAIN pending \union {l},
         l \in DOMAIN pending' =>
           /\ q.phase \in {"par", "open", "failed"}
           /\ l \in DOMAIN pending \/ login[l].phase = "resolved"
  PROVE  LoginIInv'
<1>1. \A k : CallbacksOf(k)' = CallbacksOf(k) /\ Tokens(k)' = Tokens(k)
  BY DEF CallbacksOf, Tokens
<1>2. \A c : Underway(c)' = Underway(c) /\ LoginOf(c)' = LoginOf(c)
  BY DEF Underway, LoginOf
<1>3. login'[l] = q /\ \A k \in Logins : k # l => login'[k] = login[k]
  BY DEF LoginIInv, LoginsTyped
<1>4. LoginsTyped'
  BY DEF LoginIInv, LoginsTyped
<1>5. PendingUnused'
  BY <1>1, <1>3, <1>4 DEF LoginIInv, PendingUnused, BegunOnly, LoginsTyped
<1>6. BegunOnly'
  BY <1>1, <1>3 DEF LoginIInv, BegunOnly, LoginsTyped
<1>7. OneUnderway'
  BY <1>1, <1>2 DEF LoginIInv, OneUnderway
<1>8. OfTheAccount'
  <2>1. ASSUME NEW c \in Callbacks, callback[c].phase = "store"
        PROVE  /\ callback[c].did \in Accounts \union {EmptyDid}
               /\ callback[c].did \in {login'[LoginOf(c)].did, EmptyDid}
    <3>1. PICK k \in Logins : callback[c].login = {k}
      BY <2>1 DEF LoginIInv, OneUnderway, Underway
    <3>2. LoginOf(c) = k /\ c \in CallbacksOf(k)
      BY <3>1, LoginOfCallback DEF CallbacksOf
    <3>3. login[k].phase # "idle"
      BY <3>2 DEF LoginIInv, BegunOnly
    <3> QED BY <1>3, <2>1, <3>2, <3>3 DEF LoginIInv, OfTheAccount, OwnDid
  <2>2. ASSUME NEW t \in minted
        PROVE  t.login \in Logins /\ t.did \in {login'[t.login].did, EmptyDid}
    <3>1. /\ t.login \in Logins /\ t.did \in {login[t.login].did, EmptyDid}
          /\ t \in Tokens(t.login)
      BY DEF LoginIInv, OfTheAccount, OwnDid, Tokens
    <3>2. login[t.login].phase # "idle"
      BY <3>1 DEF LoginIInv, BegunOnly
    <3> QED BY <1>3, <3>1, <3>2
  <2>3. ASSUME NEW a \in DOMAIN sessions
        PROVE  /\ sessions[a].login \in Logins
               /\ a \in {login'[sessions[a].login].did, EmptyDid}
               /\ sessions[a].owner = login'[sessions[a].login].did
    <3>1. /\ sessions[a].login \in Logins
          /\ a \in {login[sessions[a].login].did, EmptyDid}
          /\ sessions[a].owner = login[sessions[a].login].did
      BY DEF LoginIInv, OfTheAccount, OwnDid
    <3>2. login[sessions[a].login].phase # "idle"
      BY <3>1 DEF LoginIInv, BegunOnly
    <3> QED BY <1>3, <3>1, <3>2
  <2> QED BY <1>2, <2>1, <2>2, <2>3 DEF OfTheAccount, OwnDid
<1>9. OneToken'
  BY DEF LoginIInv, OneToken
<1> QED BY <1>4, <1>5, <1>6, <1>7, <1>8, <1>9 DEF LoginIInv

(* A new login may take a place, but only the places of others.            *)
LEMMA KeptAreStates == \A at, kept : kept \in KeptStates(at) => kept \subseteq DOMAIN pending
  BY DEF KeptStates

LEMMA LoginStepsKeepIInv ==
  ASSUME LoginIInv, NEW l \in Logins,
         \/ \E a \in Accounts : Resolve(l, a)
         \/ ResolveFails(l) \/ InsertState(l) \/ PushRequest(l)
  PROVE  LoginIInv'
<1>0. login[l] \in LoginRecords /\ login = [k \in Logins |-> login[k]]
  BY DEF LoginIInv, LoginsTyped
<1>1. ASSUME NEW a \in Accounts, Resolve(l, a) PROVE LoginIInv'
  <2> DEFINE q == [phase |-> "resolved", did |-> a, at |-> now]
  <2>1. q \in LoginRecords
    BY DEF LoginRecords, LoginPhases, Visitors, LoginIInv, LoginsTyped
  <2>2. l \notin DOMAIN pending
    BY <1>1 DEF Resolve, LoginIInv, BegunOnly
  <2>3. /\ login[l].phase = "idle" /\ login' = [login EXCEPT ![l] = q]
        /\ UNCHANGED <<now, callback, sessions, minted, pending>>
    BY <1>1 DEF Resolve
  <2> HIDE DEF q
  <2> QED BY <2>1, <2>2, <2>3, LoginMovesKeepsIInv
<1>2. ASSUME ResolveFails(l) PROVE LoginIInv'
  <2> DEFINE q == [login[l] EXCEPT !.phase = "rejected"]
  <2>1. q \in LoginRecords /\ q.did = login[l].did /\ q.phase = "rejected"
    BY <1>0 DEF LoginRecords, LoginPhases
  <2>2. l \notin DOMAIN pending
    BY <1>2 DEF ResolveFails, LoginIInv, BegunOnly
  <2>3. login' = [login EXCEPT ![l] = q] /\ UNCHANGED <<now, callback, sessions, minted, pending>>
    BY <1>2 DEF ResolveFails
  <2> HIDE DEF q
  <2> QED BY <2>1, <2>2, <2>3, LoginMovesKeepsIInv
<1>3. ASSUME InsertState(l) PROVE LoginIInv'
  <2> DEFINE q == [login[l] EXCEPT !.phase = "par"]
  <2>1. q \in LoginRecords /\ q.did = login[l].did /\ q.phase = "par"
    BY <1>0 DEF LoginRecords, LoginPhases
  <2>2. DOMAIN pending' \subseteq DOMAIN pending \union {l}
    BY <1>3, KeptAreStates DEF InsertState
  <2>3. /\ login[l].phase = "resolved" /\ login' = [login EXCEPT ![l] = q]
        /\ UNCHANGED <<now, callback, sessions, minted>>
    BY <1>3 DEF InsertState
  <2> HIDE DEF q
  <2> QED BY <2>1, <2>2, <2>3, LoginMovesKeepsIInv
<1>4. ASSUME PushRequest(l) PROVE LoginIInv'
  <2>1. PICK phase \in {"open", "failed"} : login' = [login EXCEPT ![l].phase = phase]
    BY <1>4 DEF PushRequest
  <2> DEFINE q == [login[l] EXCEPT !.phase = phase]
  <2>2. q \in LoginRecords /\ q.did = login[l].did /\ q.phase \in {"open", "failed"}
    BY <1>0 DEF LoginRecords, LoginPhases
  <2>3. login' = [login EXCEPT ![l] = q] /\ UNCHANGED <<now, callback, sessions, minted, pending>>
    BY <1>4, <2>1 DEF PushRequest
  <2> HIDE DEF q
  <2> QED BY <2>2, <2>3, LoginMovesKeepsIInv
<1> QED BY <1>1, <1>2, <1>3, <1>4

(* A callback ends without a session.                                      *)
LEMMA CallbackEndsKeepsIInv ==
  ASSUME LoginIInv, NEW c \in Callbacks, NEW q \in CallbackRecords,
         callback' = [callback EXCEPT ![c] = q], q.login = callback[c].login,
         Underway(c), q.phase \in {"refused", "done", "store"},
         q.phase = "store" => q.did \in Accounts \union {EmptyDid} /\ OwnDid(LoginOf(c), q.did),
         UNCHANGED <<now, login, pending, sessions, minted>>
  PROVE  LoginIInv'
<1>1. callback'[c] = q /\ \A d \in Callbacks : d # c => callback'[d] = callback[d]
  BY DEF LoginIInv, LoginsTyped
<1>2. \A l : CallbacksOf(l)' = CallbacksOf(l) /\ Tokens(l)' = Tokens(l)
  BY <1>1 DEF CallbacksOf, Tokens
<1>3. \A d \in Callbacks : Underway(d)' => Underway(d)
  BY <1>1 DEF Underway
<1>4. \A d \in Callbacks : callback'[d].login = callback[d].login /\ LoginOf(d)' = LoginOf(d)
  BY <1>1 DEF LoginOf
<1>5. LoginsTyped'
  BY DEF LoginIInv, LoginsTyped
<1>6. PendingUnused' /\ BegunOnly'
  BY <1>2 DEF LoginIInv, PendingUnused, BegunOnly
<1>7. OneUnderway'
  <2>1. \A d \in Callbacks : Underway(d)' => \E l \in Logins : callback'[d].login = {l}
    BY <1>3, <1>4 DEF LoginIInv, OneUnderway
  <2>2. ASSUME NEW l \in Logins, NEW d \in CallbacksOf(l) PROVE d \in Callbacks
    BY DEF CallbacksOf
  <2> QED BY <1>2, <1>3, <2>1, <2>2 DEF LoginIInv, OneUnderway
<1>8. OfTheAccount' /\ OneToken'
  BY <1>1, <1>4 DEF LoginIInv, OfTheAccount, OwnDid, OneToken
<1> QED BY <1>5, <1>6, <1>7, <1>8 DEF LoginIInv

(* The state is taken by the first callback; only this one may go on.      *)
LEMMA CallbackKeepsIInv ==
  ASSUME LoginIInv, NEW c \in Callbacks, NEW l \in Logins, NEW iss, Callback(c, l, iss)
  PROVE  LoginIInv'
<1>1. PICK phase \in {"exchange", "refused"} :
        /\ callback' = [callback EXCEPT ![c] = [NoCallback EXCEPT !.login = {l}, !.phase = phase]]
        /\ phase = "exchange" => l \in DOMAIN pending
  BY DEF Callback
<1> DEFINE q == [NoCallback EXCEPT !.login = {l}, !.phase = phase]
<1>2. q \in CallbackRecords /\ q.login = {l} /\ q.phase = phase
  BY DEF NoCallback, CallbackRecords, CallbackPhases, Visitors
<1>3. callback' = [callback EXCEPT ![c] = q]
  BY <1>1
<1> HIDE DEF q
<1>4. /\ callback[c].phase = "idle" /\ login[l].phase \in {"open", "lost"}
      /\ DOMAIN pending' = DOMAIN pending \ {l}
      /\ UNCHANGED <<now, login, sessions, minted>>
  BY DEF Callback, Take
<1>5. callback'[c] = q /\ \A d \in Callbacks : d # c => callback'[d] = callback[d]
  BY <1>3 DEF LoginIInv, LoginsTyped
<1>6. /\ \A k : k # l => CallbacksOf(k)' \subseteq CallbacksOf(k)
      /\ CallbacksOf(l)' \subseteq CallbacksOf(l) \union {c}
  BY <1>2, <1>5 DEF CallbacksOf
<1>7. \A k : Tokens(k)' = Tokens(k)
  BY <1>4 DEF Tokens
<1>8. \A d \in Callbacks \ {c} : (Underway(d)' <=> Underway(d)) /\ LoginOf(d)' = LoginOf(d)
  BY <1>5 DEF Underway, LoginOf
<1>9. Underway(c)' => CallbacksOf(l) = {} /\ Tokens(l) = {}
  BY <1>1, <1>2, <1>5 DEF Underway, LoginIInv, PendingUnused
<1>10. LoginsTyped'
  BY <1>2, <1>3, <1>4 DEF LoginIInv, LoginsTyped
<1>11. PendingUnused' /\ BegunOnly'
  BY <1>4, <1>6, <1>7 DEF LoginIInv, PendingUnused, BegunOnly
<1>12. OneUnderway'
  <2>1. \A d \in Callbacks : Underway(d)' => \E k \in Logins : callback'[d].login = {k}
    BY <1>2, <1>5, <1>8 DEF LoginIInv, OneUnderway
  <2>2. ASSUME NEW k \in Logins, NEW d \in CallbacksOf(k)', Underway(d)'
        PROVE  Tokens(k)' = {} /\ \A e \in CallbacksOf(k)' : Underway(e)' => d = e
    <3>1. CASE k = l
      <4>1. d \in CallbacksOf(l) \union {c}
        BY <1>6, <2>2, <3>1
      <4>2. CASE Underway(c)'
        <5>1. CallbacksOf(l)' \subseteq {c} /\ Tokens(l) = {}
          BY <1>6, <1>9, <4>2
        <5> QED BY <1>7, <2>2, <3>1, <5>1
      <4>3. CASE ~Underway(c)'
        <5>1. d # c /\ d \in Callbacks
          BY <2>2, <4>3 DEF CallbacksOf
        <5>2. d \in CallbacksOf(l) /\ Underway(d)
          BY <1>8, <2>2, <4>1, <5>1
        <5>3. ASSUME NEW e \in CallbacksOf(l)', Underway(e)' PROVE d = e
          <6>1. e # c /\ e \in Callbacks
            BY <4>3, <5>3 DEF CallbacksOf
          <6>2. e \in CallbacksOf(l) /\ Underway(e)
            BY <1>6, <1>8, <5>3, <6>1
          <6> QED BY <5>2, <6>2 DEF LoginIInv, OneUnderway
        <5> QED BY <1>7, <3>1, <5>2, <5>3 DEF LoginIInv, OneUnderway
      <4> QED BY <4>2, <4>3
    <3>2. CASE k # l
      <4>1. \A e \in CallbacksOf(k)' : e \in CallbacksOf(k) /\ e # c /\ e \in Callbacks
        BY <1>2, <1>5, <1>6, <3>2 DEF CallbacksOf
      <4> QED BY <1>7, <1>8, <2>2, <4>1 DEF LoginIInv, OneUnderway
    <3> QED BY <3>1, <3>2
  <2> QED BY <2>1, <2>2 DEF OneUnderway
<1>13. OfTheAccount' /\ OneToken'
  BY <1>1, <1>2, <1>4, <1>5, <1>8 DEF LoginIInv, OfTheAccount, OwnDid, OneToken
<1> QED BY <1>10, <1>11, <1>12, <1>13 DEF LoginIInv

(* The code is exchanged, for the account of the login or no account.      *)
LEMMA ExchangeKeepsIInv ==
  ASSUME LoginIInv, NEW c \in Callbacks, NEW sub \in Subjects,
         NEW life \in TokenLives, Exchange(c, sub, life)
  PROVE  LoginIInv'
<1> DEFINE l == LoginOf(c)
<1> DEFINE did == Subject(login[l].did, sub)
<1> DEFINE q == IF did = Nobody THEN [callback[c] EXCEPT !.phase = "refused"]
                ELSE [callback[c] EXCEPT !.phase = "store", !.did = did, !.expires = now + life]
<1>1. /\ Underway(c) /\ UNCHANGED <<now, login, pending, sessions, minted>>
      /\ callback' = [callback EXCEPT ![c] = q]
  BY DEF Exchange, Underway, LoginIInv, LoginsTyped
<1>2. PICK k \in Logins : callback[c].login = {k}
  BY <1>1 DEF LoginIInv, OneUnderway
<1>3. l \in Logins
  BY <1>2, LoginOfCallback
<1>4. did # Nobody => did \in {login[l].did, EmptyDid}
  BY DEF Subject
<1>5. login[l].did \in Visitors
  BY <1>3 DEF LoginIInv, LoginsTyped, LoginRecords
<1>6. now + life \in Nat
  BY OAuthLoginAssumption DEF LoginIInv, LoginsTyped
<1>7. callback[c] \in CallbackRecords
  BY DEF LoginIInv, LoginsTyped
<1> HIDE DEF did, l
<1>8. q \in CallbackRecords
  BY <1>4, <1>5, <1>6, <1>7 DEF CallbackRecords, CallbackPhases
<1>9. /\ q.login = callback[c].login /\ q.phase \in {"refused", "store"}
      /\ q.phase = "store" => q.did = did /\ did # Nobody
  BY <1>7 DEF CallbackRecords
<1>10. q.phase = "store" => q.did \in Accounts \union {EmptyDid} /\ OwnDid(LoginOf(c), q.did)
  BY <1>4, <1>5, <1>9 DEF Visitors, OwnDid, l
<1> HIDE DEF q
<1> QED BY <1>1, <1>8, <1>9, <1>10, CallbackEndsKeepsIInv

LEMMA ExchangeFailsKeepsIInv ==
  ASSUME LoginIInv, NEW c \in Callbacks, ExchangeFails(c) PROVE LoginIInv'
<1> DEFINE q == [callback[c] EXCEPT !.phase = "refused"]
<1>1. q \in CallbackRecords /\ q.login = callback[c].login /\ q.phase = "refused"
  BY DEF LoginIInv, LoginsTyped, CallbackRecords, CallbackPhases
<1>2. /\ Underway(c) /\ UNCHANGED <<now, login, pending, sessions, minted>>
      /\ callback' = [callback EXCEPT ![c] = q]
  BY DEF ExchangeFails, Underway
<1> HIDE DEF q
<1> QED BY <1>1, <1>2, CallbackEndsKeepsIInv

(* The one callback past the state mints the one token of its login.       *)
LEMMA StoreSessionKeepsIInv ==
  ASSUME LoginIInv, NEW c \in Callbacks, StoreSession(c) PROVE LoginIInv'
<1> DEFINE a == callback[c].did
<1> DEFINE begunFor == login[LoginOf(c)].did
<1> DEFINE q == [callback[c] EXCEPT !.phase = "done"]
<1>1. Underway(c) /\ callback[c].phase = "store"
  BY DEF StoreSession, Underway
<1>2. PICK l \in Logins : callback[c].login = {l}
  BY <1>1 DEF LoginIInv, OneUnderway
<1>3. /\ LoginOf(c) = l /\ c \in CallbacksOf(l)
      /\ a \in {login[l].did, EmptyDid} /\ begunFor = login[l].did
  BY <1>1, <1>2, LoginOfCallback DEF CallbacksOf, LoginIInv, OfTheAccount, OwnDid
<1>4. Tokens(l) = {} /\ login[l].phase \notin {"idle", "resolved"} /\ l \notin DOMAIN pending
  BY <1>1, <1>3 DEF LoginIInv, OneUnderway, BegunOnly, PendingUnused
<1> DEFINE token == [callback |-> c, login |-> l, did |-> a]
<1>5. /\ minted' = minted \union {token} /\ callback' = [callback EXCEPT ![c] = q]
      /\ UNCHANGED <<now, login, pending>>
  BY <1>3 DEF StoreSession
<1>6. \A b \in DOMAIN sessions' :
        \/ b = a /\ sessions'[b].owner = login[l].did /\ sessions'[b].login = l
        \/ b \in DOMAIN sessions /\ sessions'[b] = sessions[b]
  <2>1. PICK kept \in KeptSessions(a) :
          sessions' = [b \in kept \union {a} |->
                         IF b = a
                         THEN [login |-> l, owner |-> IF a = EmptyDid THEN begunFor ELSE a,
                               expires |-> callback[c].expires]
                         ELSE sessions[b]]
    BY <1>3 DEF StoreSession
  <2>2. kept \subseteq DOMAIN sessions
    BY DEF KeptSessions
  <2> QED BY <1>3, <2>1, <2>2
<1>7. /\ q \in CallbackRecords /\ q.login = callback[c].login /\ q.phase = "done"
  BY DEF LoginIInv, LoginsTyped, CallbackRecords, CallbackPhases
<1>8. token.login = l /\ token.did = a
  OBVIOUS
<1> HIDE DEF q, token
<1>9. callback'[c] = q /\ \A d \in Callbacks : d # c => callback'[d] = callback[d]
  BY <1>5 DEF LoginIInv, LoginsTyped
<1>10. \A k : CallbacksOf(k)' = CallbacksOf(k)
  BY <1>7, <1>9 DEF CallbacksOf
<1>11. \A k : k # l => Tokens(k)' = Tokens(k)
  BY <1>5, <1>8 DEF Tokens
<1>12. \A d \in Callbacks : /\ (Underway(d)' <=> d # c /\ Underway(d)) /\ LoginOf(d)' = LoginOf(d)
                            /\ callback'[d].login = callback[d].login
  BY <1>7, <1>9 DEF Underway, LoginOf
<1>13. LoginsTyped'
  BY <1>5, <1>7 DEF LoginIInv, LoginsTyped
<1>14. PendingUnused'
  BY <1>4, <1>5, <1>10, <1>11 DEF LoginIInv, PendingUnused
<1>15. BegunOnly'
  BY <1>4, <1>5, <1>6, <1>10, <1>11 DEF LoginIInv, BegunOnly
<1>16. OneUnderway'
  <2>1. \A d \in Callbacks : Underway(d)' => \E k \in Logins : callback'[d].login = {k}
    BY <1>12 DEF LoginIInv, OneUnderway
  <2>2. \A k \in Logins : \A d \in CallbacksOf(k)' :
          d \in Callbacks /\ d \in CallbacksOf(k) /\ (Underway(d)' => d # c /\ Underway(d))
    BY <1>10, <1>12 DEF CallbacksOf
  <2>3. \A d \in CallbacksOf(l) : Underway(d) => d = c
    BY <1>1, <1>3 DEF LoginIInv, OneUnderway
  <2>4. \A k \in Logins : \A d, e \in CallbacksOf(k)' : Underway(d)' /\ Underway(e)' => d = e
    BY <2>2 DEF LoginIInv, OneUnderway
  <2>5. \A k \in Logins : \A d \in CallbacksOf(k)' : Underway(d)' => Tokens(k)' = {}
    BY <1>11, <2>2, <2>3 DEF LoginIInv, OneUnderway
  <2> QED BY <2>1, <2>4, <2>5 DEF OneUnderway
<1>17. OfTheAccount'
  <2>1. \A d \in Callbacks : callback'[d].phase = "store" =>
          /\ callback'[d].did \in Accounts \union {EmptyDid}
          /\ callback'[d].did \in {login'[LoginOf(d)'].did, EmptyDid}
    BY <1>5, <1>7, <1>9, <1>12 DEF LoginIInv, OfTheAccount, OwnDid
  <2>2. \A t \in minted' : t.login \in Logins /\ t.did \in {login'[t.login].did, EmptyDid}
    BY <1>3, <1>5, <1>8 DEF LoginIInv, OfTheAccount, OwnDid
  <2>3. \A b \in DOMAIN sessions' :
          /\ sessions'[b].login \in Logins /\ b \in {login'[sessions'[b].login].did, EmptyDid}
          /\ sessions'[b].owner = login'[sessions'[b].login].did
    BY <1>3, <1>5, <1>6 DEF LoginIInv, OfTheAccount, OwnDid
  <2> QED BY <2>1, <2>2, <2>3 DEF OfTheAccount, OwnDid
<1>18. OneToken'
  BY <1>4, <1>5, <1>8 DEF LoginIInv, OneToken, Tokens
<1> QED BY <1>13, <1>14, <1>15, <1>16, <1>17, <1>18 DEF LoginIInv

(* A restart forgets the stores and leaves the browsers their tokens.      *)
LEMMA RestartKeepsIInv ==
  ASSUME LoginIInv, RestartServer PROVE LoginIInv'
<1>1. /\ DOMAIN pending' = {} /\ DOMAIN sessions' = {} /\ UNCHANGED <<now, minted>>
  BY DEF RestartServer
<1>2. login' \in [Logins -> LoginRecords]
  BY DEF RestartServer, LoginIInv, LoginsTyped, LoginRecords, LoginPhases
<1>3. \A l \in Logins : /\ login'[l].did = login[l].did
                        /\ login'[l].phase \in {"idle", "resolved"} => login[l].phase = "idle"
  BY DEF RestartServer, LoginIInv, LoginsTyped, LoginRecords, LoginPhases
<1>4. callback' \in [Callbacks -> CallbackRecords]
  BY DEF RestartServer, Interrupted, LoginIInv, LoginsTyped, CallbackRecords, CallbackPhases
<1>5. \A c \in Callbacks : /\ callback'[c].login = callback[c].login
                           /\ callback'[c].phase \in {"idle", "done"}
  BY DEF RestartServer, Interrupted, LoginIInv, LoginsTyped, CallbackRecords, CallbackPhases
<1>6. \A l : CallbacksOf(l)' = CallbacksOf(l) /\ Tokens(l)' = Tokens(l)
  BY <1>1, <1>5 DEF CallbacksOf, Tokens
<1>7. LoginsTyped'
  BY <1>1, <1>2, <1>4 DEF LoginIInv, LoginsTyped
<1>8. PendingUnused' /\ BegunOnly'
  BY <1>1, <1>3, <1>6 DEF LoginIInv, PendingUnused, BegunOnly
<1>9. OneUnderway'
  <2>1. \A c \in Callbacks : ~Underway(c)'
    BY <1>5 DEF Underway
  <2> QED BY <2>1 DEF OneUnderway, CallbacksOf
<1>10. OfTheAccount' /\ OneToken'
  BY <1>1, <1>3, <1>5 DEF LoginIInv, OfTheAccount, OwnDid, OneToken
<1> QED BY <1>7, <1>8, <1>9, <1>10 DEF LoginIInv

LEMMA OAuthNextKeepsIInv == LoginIInv /\ OAuthNext => LoginIInv'
<1> SUFFICES ASSUME LoginIInv, OAuthNext PROVE LoginIInv'
  OBVIOUS
<1>1. ASSUME NEW l \in Logins,
             \/ \E a \in Accounts : Resolve(l, a)
             \/ ResolveFails(l) \/ InsertState(l) \/ PushRequest(l)
      PROVE  LoginIInv'
  BY <1>1, LoginStepsKeepIInv
<1>2. ASSUME NEW l \in Logins, NEW c \in Callbacks, NEW iss, Callback(c, l, iss)
      PROVE  LoginIInv'
  BY <1>2, CallbackKeepsIInv
<1>3. ASSUME NEW c \in Callbacks, NEW sub \in Subjects,
             NEW life \in TokenLives, Exchange(c, sub, life)
      PROVE  LoginIInv'
  BY <1>3, ExchangeKeepsIInv
<1>4. ASSUME NEW c \in Callbacks, ExchangeFails(c) \/ StoreSession(c) PROVE LoginIInv'
  BY <1>4, ExchangeFailsKeepsIInv, StoreSessionKeepsIInv
<1>5. ASSUME NEW p \in Publishes,
             \/ \E a \in Accounts, rkey \in Rkeys : Publish(p, a, rkey)
             \/ PutRecord(p) \/ PutRecordFails(p) \/ Published(p)
      PROVE  LoginIInv'
  <2>1. UNCHANGED <<now, login, pending, callback, sessions, minted>>
    BY <1>5 DEF Publish, PutRecord, PutRecordFails, Published
  <2>2. now' \in Nat
    BY <2>1 DEF LoginIInv, LoginsTyped
  <2> QED BY <2>1, <2>2, ElsewhereKeepsIInv
<1>6. ASSUME PruneStores PROVE LoginIInv'
  <2>1. now' \in Nat
    BY <1>6 DEF PruneStores, LoginIInv, LoginsTyped
  <2> QED BY <1>6, <2>1, ElsewhereKeepsIInv DEF PruneStores
<1> QED BY <1>1, <1>2, <1>3, <1>4, <1>5, <1>6, RestartKeepsIInv DEF OAuthNext

LEMMA IInvOneToken == LoginIInv => OneTokenPerLogin
  BY DEF LoginIInv, OneToken, OfTheAccount, OwnDid, OneTokenPerLogin

(***************************************************************************)
(* The two bounded stores of the login, for any caps, logins and times:    *)
(* they keep to their caps, and a login is only crowded out of the store   *)
(* of states by as many others of its time as the store holds.             *)
(***************************************************************************)

InFlow == {"par", "open", "failed"}

(* The store holds a state for as long as it is due.                       *)
Due(l) ==
  /\ login[l].phase \in {"par", "open"} /\ now <= login[l].at + StateTTL
  /\ CallbacksOf(l) = {} /\ Cardinality(Around(l)) < MaxStates

StatesDated ==
  /\ now <= MaxNow
  /\ \A l \in Logins :
       /\ login[l].at <= now
       /\ login[l].phase = "resolved" => now <= login[l].at + StateTTL
  /\ \A l \in DOMAIN pending : pending[l] = login[l].at
  /\ \A c \in Callbacks : callback[c].phase = "idle" => callback[c].login = {}

StatesBounded == Cardinality(DOMAIN pending) <= MaxStates
DueKept == \A l \in Logins : Due(l) => l \in DOMAIN pending

StateIInv == StatesDated /\ StatesBounded /\ DueKept

LEMMA PendingFinite ==
  ASSUME LoginIInv
  PROVE  IsFiniteSet(DOMAIN pending) /\ Cardinality(DOMAIN pending) \in Nat
<1>1. IsFiniteSet(DOMAIN pending)
  BY FS_Subset, OAuthLoginAssumption DEF LoginIInv, LoginsTyped
<1> QED BY <1>1, FS_CardinalityType

LEMMA AroundFinite ==
  \A l : IsFiniteSet(Around(l)) /\ Cardinality(Around(l)) \in Nat
<1> SUFFICES ASSUME NEW l PROVE IsFiniteSet(Around(l)) /\ Cardinality(Around(l)) \in Nat
  OBVIOUS
<1>1. Around(l) \subseteq Logins
  BY DEF Around
<1>2. IsFiniteSet(Around(l))
  BY <1>1, FS_Subset, OAuthLoginAssumption
<1> QED BY <1>2, FS_CardinalityType

LEMMA StateInit == now = 0 /\ OAuthInit => StateIInv
<1> SUFFICES ASSUME now = 0, OAuthInit PROVE StateIInv
  OBVIOUS
<1>1. DOMAIN pending = {} /\ Cardinality(DOMAIN pending) = 0
  BY FS_EmptySet DEF OAuthInit
<1>2. StatesDated
  BY <1>1, WallClockAssumption DEF OAuthInit, NoLogin, NoCallback, StatesDated
<1>3. StatesBounded
  BY <1>1, OAuthLoginAssumption DEF StatesBounded
<1>4. DueKept
  BY DEF OAuthInit, NoLogin, DueKept, Due
<1> QED BY <1>2, <1>3, <1>4 DEF StateIInv

(* Nobody leaves the flow: who was around a login still is.                *)
LEMMA DueBefore ==
  ASSUME LoginIInv, NEW l \in Logins, Due(l)', login'[l].at = login[l].at,
         login[l].phase \in {"par", "open"}, now <= now', now \in Nat, now' \in Nat,
         CallbacksOf(l) \subseteq CallbacksOf(l)',
         \A k \in Logins : login[k].phase \in InFlow =>
           login'[k].phase \in InFlow /\ login'[k].at = login[k].at
  PROVE  Due(l)
<1>1. Around(l) \subseteq Around(l)'
  BY DEF Around, InFlow
<1>2. IsFiniteSet(Around(l)') /\ Cardinality(Around(l)') \in Nat
  <2>1. Around(l)' \subseteq Logins
    BY DEF Around
  <2>2. IsFiniteSet(Around(l)')
    BY <2>1, FS_Subset, OAuthLoginAssumption
  <2> QED BY <2>2, FS_CardinalityType
<1>3. Cardinality(Around(l)) <= Cardinality(Around(l)') /\ Cardinality(Around(l)) \in Nat
  BY <1>1, <1>2, FS_Subset, AroundFinite
<1>4. Cardinality(Around(l)') < MaxStates /\ CallbacksOf(l)' = {}
  BY DEF Due
<1>5. Cardinality(Around(l)) < MaxStates
  BY <1>2, <1>3, <1>4, OAuthLoginAssumption
<1>6. login[l].at \in Nat
  BY DEF LoginIInv, LoginsTyped, LoginRecords
<1>7. now <= login[l].at + StateTTL
  BY <1>6, OAuthLoginAssumption DEF Due
<1> QED BY <1>4, <1>5, <1>7 DEF Due

(* Steps that begin no login and drop no state that may still be used.     *)
LEMMA OtherStepsKeepState ==
  ASSUME LoginIInv, StateIInv, StatesDated', now' \in Nat, now <= now',
         UNCHANGED callback,
         \A l \in Logins :
           /\ login[l].phase \in InFlow =>
                login'[l].phase \in InFlow /\ login'[l].at = login[l].at
           /\ login'[l].phase \in {"par", "open"} => login[l].phase \in {"par", "open"},
         DOMAIN pending' \subseteq DOMAIN pending,
         \A l \in DOMAIN pending \ DOMAIN pending' : now > login[l].at + StateTTL
  PROVE  StateIInv'
<1>1. StatesBounded'
  <2>1. Cardinality(DOMAIN pending') <= Cardinality(DOMAIN pending) /\ Cardinality(DOMAIN pending') \in Nat
    BY PendingFinite, FS_Subset, FS_CardinalityType
  <2> QED BY <2>1, PendingFinite, OAuthLoginAssumption DEF StateIInv, StatesBounded
<1>2. DueKept'
  <2>1. ASSUME NEW l \in Logins, Due(l)' PROVE l \in DOMAIN pending'
    <3>1. login'[l].phase \in {"par", "open"}
      BY <2>1 DEF Due
    <3>2. login[l].phase \in {"par", "open"} /\ login'[l].at = login[l].at
      BY <3>1 DEF InFlow
    <3>3. CallbacksOf(l) \subseteq CallbacksOf(l)'
      BY DEF CallbacksOf
    <3>4. Due(l)
      BY <2>1, <3>2, <3>3, DueBefore DEF LoginIInv, LoginsTyped
    <3>5. l \in DOMAIN pending /\ now <= login[l].at + StateTTL
      BY <3>4 DEF StateIInv, DueKept, Due
    <3>6. login[l].at \in Nat /\ now \in Nat
      BY DEF LoginIInv, LoginsTyped, LoginRecords
    <3> QED BY <3>5, <3>6, OAuthLoginAssumption
  <2> QED BY <2>1 DEF DueKept
<1> QED BY <1>1, <1>2 DEF StateIInv

(* The clock waits for the insertion that follows its reading.             *)
LEMMA ClockKeepsState ==
  ASSUME LoginIInv, StateIInv, InsertsPrompt, Advance, UNCHANGED oauthVars PROVE StateIInv'
<1>1. now \in Nat /\ now' = now + 1 /\ now' <= MaxNow
  BY WallClockAssumption DEF Advance, LoginIInv, LoginsTyped
<1>2. \A l \in Logins :
        /\ login[l].at <= now'
        /\ login[l].phase = "resolved" => now' <= login[l].at + StateTTL
  BY <1>1, OAuthLoginAssumption DEF LoginIInv, LoginsTyped, LoginRecords, StateIInv, StatesDated,
     InsertsPrompt
<1>3. StatesDated'
  BY <1>1, <1>2 DEF StateIInv, StatesDated, oauthVars
<1> QED BY <1>1, <1>3, OtherStepsKeepState DEF oauthVars

LEMMA ResolveKeepsState ==
  ASSUME LoginIInv, StateIInv, NEW l \in Logins,
         \/ \E a \in Accounts : Resolve(l, a)
         \/ ResolveFails(l) \/ PushRequest(l)
  PROVE  StateIInv'
<1>1. now \in Nat /\ UNCHANGED <<now, pending, callback>>
  BY DEF Resolve, ResolveFails, PushRequest, LoginIInv, LoginsTyped
<1>2. /\ \A k \in Logins : k # l => login'[k] = login[k]
      /\ login'[l].phase \in {"resolved", "rejected", "open", "failed"}
      /\ login'[l].phase \in {"open", "failed"} <=> login[l].phase = "par"
      /\ login[l].phase \in {"idle", "par"}
      /\ login'[l].at \in {login[l].at, now}
      /\ login[l].phase = "par" => login'[l].at = login[l].at
  BY DEF Resolve, ResolveFails, PushRequest, LoginIInv, LoginsTyped, LoginRecords, LoginPhases
<1>3. l \in DOMAIN pending => login[l].phase = "par"
  BY <1>2 DEF LoginIInv, PendingUnused
<1>4. StatesDated'
  <2>1. login'[l].at <= now /\ (login'[l].phase = "resolved" => now <= login'[l].at + StateTTL)
    <3>1. login'[l].phase = "resolved" => login'[l].at = now
      BY DEF Resolve, ResolveFails, PushRequest, LoginIInv, LoginsTyped, LoginRecords
    <3> QED BY <1>1, <1>2, <3>1, OAuthLoginAssumption DEF StateIInv, StatesDated
  <2>2. \A k \in DOMAIN pending : login'[k].at = login[k].at
    BY <1>2, <1>3 DEF LoginIInv, LoginsTyped
  <2> QED BY <1>1, <1>2, <2>1, <2>2 DEF StateIInv, StatesDated
<1>5. \A k \in Logins :
        /\ login[k].phase \in InFlow =>
             login'[k].phase \in InFlow /\ login'[k].at = login[k].at
        /\ login'[k].phase \in {"par", "open"} => login[k].phase \in {"par", "open"}
  BY <1>2 DEF InFlow
<1> QED BY <1>1, <1>4, <1>5, OtherStepsKeepState

(* Room is made for a new state: what was due to stay is crowded out only  *)
(* by as many others as the store holds.                                   *)
LEMMA KeptFits ==
  ASSUME LoginIInv, StateIInv, NEW at \in Nat, NEW kept \in KeptStates(at)
  PROVE  /\ kept \subseteq DOMAIN pending /\ IsFiniteSet(kept) /\ Cardinality(kept) \in Nat
         /\ Cardinality(kept) < MaxStates
<1> DEFINE live == {l \in DOMAIN pending : at <= pending[l] + StateTTL}
<1>1. kept \subseteq DOMAIN pending
  BY KeptAreStates
<1>2. /\ IsFiniteSet(kept) /\ Cardinality(kept) \in Nat
      /\ IsFiniteSet(live) /\ Cardinality(live) \in Nat
      /\ Cardinality(live) <= Cardinality(DOMAIN pending)
  <2>1. live \subseteq DOMAIN pending
    OBVIOUS
  <2> HIDE DEF live
  <2> QED BY <1>1, <2>1, PendingFinite, FS_Subset, FS_CardinalityType
<1>3. Cardinality(kept) < MaxStates
  <2>1. CASE kept = DOMAIN pending /\ Cardinality(DOMAIN pending) < MaxStates
    BY <2>1
  <2>2. CASE kept = live /\ Cardinality(live) < MaxStates
    BY <2>2
  <2>3. CASE \E l \in live : kept = live \ {l}
    <3>1. PICK l \in live : kept = live \ {l}
      BY <2>3
    <3> HIDE DEF live
    <3>2. Cardinality(kept) = Cardinality(live) - 1
      BY <1>2, <3>1, FS_RemoveElement
    <3> QED BY <1>2, <3>2, PendingFinite, OAuthLoginAssumption DEF StateIInv, StatesBounded
  <2> QED BY <2>1, <2>2, <2>3 DEF KeptStates
<1> QED BY <1>1, <1>2, <1>3

LEMMA CrowdedOut ==
  ASSUME LoginIInv, StateIInv, NEW at \in Nat, at <= now, NEW kept \in KeptStates(at),
         NEW l \in DOMAIN pending, l \notin kept, now <= login[l].at + StateTTL
  PROVE  \E others : /\ others \subseteq DOMAIN pending \ {l} /\ IsFiniteSet(others)
                     /\ Cardinality(others) + 1 >= MaxStates
                     /\ at <= login[l].at + StateTTL
                     /\ \A j \in others : login[l].at <= login[j].at + StateTTL
<1> DEFINE live == {k \in DOMAIN pending : at <= pending[k] + StateTTL}
<1>1. \A k \in DOMAIN pending : pending[k] = login[k].at /\ login[k].at \in Nat /\ now \in Nat
  BY DEF LoginIInv, LoginsTyped, LoginRecords, StateIInv, StatesDated
<1>2. l \in live /\ at <= login[l].at + StateTTL
  BY <1>1, OAuthLoginAssumption
<1>3. kept # DOMAIN pending /\ kept # live
  BY <1>2
<1>4. /\ Cardinality(live) >= MaxStates
      /\ \E o \in live : kept = live \ {o} /\ \A j \in live : pending[o] <= pending[j]
  <2>1. ~(Cardinality(DOMAIN pending) < MaxStates)
    BY <1>3 DEF KeptStates
  <2>2. ~(Cardinality(live) < MaxStates)
    BY <1>3, <2>1 DEF KeptStates
  <2>3. IsFiniteSet(live) /\ Cardinality(live) \in Nat
    <3>1. live \subseteq DOMAIN pending
      OBVIOUS
    <3> HIDE DEF live
    <3> QED BY <3>1, PendingFinite, FS_Subset, FS_CardinalityType
  <2> QED BY <2>1, <2>2, <2>3, OAuthLoginAssumption DEF KeptStates
<1>5. kept = live \ {l} /\ \A j \in live : pending[l] <= pending[j]
  BY <1>2, <1>4
<1>6. IsFiniteSet(live) /\ Cardinality(live) \in Nat
  <2>1. live \subseteq DOMAIN pending
    OBVIOUS
  <2> HIDE DEF live
  <2> QED BY <2>1, PendingFinite, FS_Subset, FS_CardinalityType
<1>7. \A j \in live : login[l].at <= login[j].at + StateTTL
  BY <1>1, <1>5, OAuthLoginAssumption
<1>8. live \ {l} \subseteq DOMAIN pending \ {l}
  OBVIOUS
<1> HIDE DEF live
<1>9. IsFiniteSet(live \ {l}) /\ Cardinality(live \ {l}) = Cardinality(live) - 1
  BY <1>2, <1>6, FS_RemoveElement
<1>10. Cardinality(live \ {l}) + 1 >= MaxStates
  BY <1>4, <1>6, <1>9
<1> QED BY <1>2, <1>7, <1>8, <1>9, <1>10

LEMMA InsertKeepsState ==
  ASSUME LoginIInv, StateIInv, NEW l \in Logins, InsertState(l) PROVE StateIInv'
<1> DEFINE at == login[l].at
<1>1. PICK kept \in KeptStates(at) :
        pending' = [k \in kept \union {l} |-> IF k = l THEN at ELSE pending[k]]
  BY DEF InsertState
<1>2. /\ now \in Nat /\ at \in Nat /\ at <= now /\ login[l].phase = "resolved"
      /\ UNCHANGED <<now, callback>>
  BY DEF InsertState, LoginIInv, LoginsTyped, LoginRecords, StateIInv, StatesDated
<1>3. /\ login'[l].phase = "par" /\ login'[l].at = at
      /\ \A k \in Logins : k # l => login'[k] = login[k]
  BY DEF InsertState, LoginIInv, LoginsTyped, LoginRecords
<1>4. l \notin DOMAIN pending
  BY <1>2 DEF LoginIInv, BegunOnly
<1>5. /\ kept \subseteq DOMAIN pending /\ IsFiniteSet(kept) /\ Cardinality(kept) \in Nat
      /\ Cardinality(kept) < MaxStates
  BY <1>2, KeptFits
<1>6. StatesDated'
  <2>1. \A k \in DOMAIN pending' : pending'[k] = login'[k].at
    BY <1>1, <1>3, <1>4, <1>5 DEF StateIInv, StatesDated, LoginIInv, LoginsTyped
  <2> QED BY <1>2, <1>3, <2>1 DEF StateIInv, StatesDated
<1>7. StatesBounded'
  <2>1. Cardinality(kept \union {l}) = Cardinality(kept) + 1
    BY <1>4, <1>5, FS_AddElement
  <2>2. DOMAIN pending' = kept \union {l}
    BY <1>1
  <2> QED BY <1>5, <2>1, <2>2, OAuthLoginAssumption DEF StatesBounded
<1>8. DueKept'
  <2> SUFFICES ASSUME NEW k \in Logins, Due(k)', k \notin DOMAIN pending' PROVE FALSE
    BY DEF DueKept
  <2>1. k # l /\ k \notin kept /\ login'[k] = login[k] /\ login[k].phase \in {"par", "open"}
    BY <1>1, <1>3 DEF Due
  <2>2. \A j \in Logins : login[j].phase \in InFlow =>
          login'[j].phase \in InFlow /\ login'[j].at = login[j].at
    BY <1>2, <1>3 DEF InFlow
  <2>3. CallbacksOf(k) \subseteq CallbacksOf(k)'
    BY <1>2 DEF CallbacksOf
  <2>4. Due(k)
    BY <1>2, <2>1, <2>2, <2>3, DueBefore
  <2>5. k \in DOMAIN pending /\ now <= login[k].at + StateTTL
    BY <2>4 DEF StateIInv, DueKept, Due
  <2>6. PICK others :
          /\ others \subseteq DOMAIN pending \ {k} /\ IsFiniteSet(others)
          /\ Cardinality(others) + 1 >= MaxStates
          /\ at <= login[k].at + StateTTL
          /\ \A j \in others : login[k].at <= login[j].at + StateTTL
    BY <1>2, <2>1, <2>5, CrowdedOut
(* The newcomer is around k as well, for it was begun no TTL ago.          *)
  <2>7. others \union {l} \subseteq Around(k)'
    <3>1. \A j \in others : j \in Logins /\ j # k /\ j # l /\ login[j].phase \in InFlow
      BY <1>4, <2>6 DEF LoginIInv, LoginsTyped, PendingUnused, InFlow
    <3>2. login[k].at <= at + StateTTL
      <4>1. login[k].at \in Nat /\ login[k].at <= now /\ now <= at + StateTTL
        BY <1>2 DEF StateIInv, StatesDated, LoginIInv, LoginsTyped, LoginRecords
      <4> QED BY <1>2, <4>1, OAuthLoginAssumption
    <3> QED BY <1>3, <2>1, <2>6, <3>1, <3>2 DEF Around, InFlow
  <2>8. Cardinality(others \union {l}) = Cardinality(others) + 1 /\ IsFiniteSet(others \union {l})
    <3>1. l \notin others
      BY <1>4, <2>6
    <3> QED BY <2>6, <3>1, FS_AddElement
  <2>9. IsFiniteSet(Around(k)') /\ Cardinality(Around(k)') \in Nat
    <3>1. Around(k)' \subseteq Logins
      BY DEF Around
    <3>2. IsFiniteSet(Around(k)')
      BY <3>1, FS_Subset, OAuthLoginAssumption
    <3> QED BY <3>2, FS_CardinalityType
  <2>10. Cardinality(others \union {l}) <= Cardinality(Around(k)')
    BY <2>7, <2>9, FS_Subset
  <2>11. Cardinality(others) \in Nat
    BY <2>6, FS_CardinalityType
  <2>12. Cardinality(Around(k)') < MaxStates
    BY DEF Due
  <2> QED BY <2>6, <2>8, <2>9, <2>10, <2>11, <2>12, OAuthLoginAssumption
<1> QED BY <1>6, <1>7, <1>8 DEF StateIInv

(* A callback takes the state of its own login only.                       *)
LEMMA CallbackKeepsState ==
  ASSUME LoginIInv, StateIInv, NEW c \in Callbacks, NEW l \in Logins, NEW iss, Callback(c, l, iss)
  PROVE  StateIInv'
<1>1. /\ callback'[c].login = {l} /\ callback'[c].phase # "idle" /\ callback[c].phase = "idle"
      /\ \A d \in Callbacks : d # c => callback'[d] = callback[d]
      /\ DOMAIN pending' = DOMAIN pending \ {l}
      /\ \A k \in DOMAIN pending' : pending'[k] = pending[k]
      /\ UNCHANGED <<now, login>>
  BY DEF Callback, Take, NoCallback, LoginIInv, LoginsTyped
<1>2. StatesDated'
  BY <1>1 DEF StateIInv, StatesDated
<1>3. StatesBounded'
  <2>1. \/ Cardinality(DOMAIN pending') = Cardinality(DOMAIN pending)
        \/ Cardinality(DOMAIN pending') = Cardinality(DOMAIN pending) - 1
    BY <1>1, PendingFinite, FS_RemoveElement
  <2> QED BY <2>1, PendingFinite, OAuthLoginAssumption DEF StateIInv, StatesBounded
<1>4. DueKept'
  <2>1. ASSUME NEW k \in Logins, Due(k)' PROVE k \in DOMAIN pending'
    <3>1. k # l
      BY <1>1, <2>1 DEF Due, CallbacksOf
    <3>2. CallbacksOf(k) \subseteq CallbacksOf(k)'
      BY <1>1 DEF CallbacksOf, StateIInv, StatesDated
    <3>3. login[k].phase \in {"par", "open"} /\ now \in Nat
      BY <1>1, <2>1 DEF Due, LoginIInv, LoginsTyped
    <3>4. Due(k)
      BY <1>1, <2>1, <3>2, <3>3, DueBefore
    <3> QED BY <1>1, <3>1, <3>4 DEF StateIInv, DueKept
  <2> QED BY <2>1 DEF DueKept
<1> QED BY <1>2, <1>3, <1>4 DEF StateIInv

(* The callback goes on: no login and no state moves.                      *)
LEMMA LaterStepsKeepState ==
  ASSUME LoginIInv, StateIInv, UNCHANGED <<now, login, pending>>,
         callback' \in [Callbacks -> CallbackRecords],
         \A c \in Callbacks : /\ callback'[c].login = callback[c].login
                              /\ callback'[c].phase = "idle" => callback[c].phase = "idle"
  PROVE  StateIInv'
<1>1. \A k : CallbacksOf(k)' = CallbacksOf(k) /\ Around(k)' = Around(k)
  BY DEF CallbacksOf, Around
<1>2. StatesDated' /\ StatesBounded'
  BY DEF StateIInv, StatesDated, StatesBounded
<1>3. DueKept'
  BY <1>1 DEF StateIInv, DueKept, Due
<1> QED BY <1>2, <1>3 DEF StateIInv

LEMMA OAuthNextKeepsState ==
  ASSUME LoginIInv, StateIInv, OAuthNext PROVE StateIInv'
<1>0. /\ now \in Nat /\ callback \in [Callbacks -> CallbackRecords]
      /\ login \in [Logins -> LoginRecords]
  BY DEF LoginIInv, LoginsTyped
<1>1. ASSUME NEW l \in Logins,
             \/ \E a \in Accounts : Resolve(l, a)
             \/ ResolveFails(l) \/ PushRequest(l)
      PROVE  StateIInv'
  BY <1>1, ResolveKeepsState
<1>2. ASSUME NEW l \in Logins, NEW c \in Callbacks, NEW iss, Callback(c, l, iss)
      PROVE  StateIInv'
  BY <1>2, CallbackKeepsState
<1>3. ASSUME NEW c \in Callbacks,
             \/ \E sub \in Subjects, life \in TokenLives : Exchange(c, sub, life)
             \/ ExchangeFails(c) \/ StoreSession(c)
      PROVE  StateIInv'
  <2>1. LoginIInv'
    BY <1>3, OAuthNextKeepsIInv DEF OAuthNext
  <2>2. /\ UNCHANGED <<now, login, pending>>
        /\ \A d \in Callbacks : d # c => callback'[d] = callback[d]
        /\ callback'[c].login = callback[c].login /\ callback'[c].phase # "idle"
    <3>1. callback[c] \in CallbackRecords
      BY <1>0
    <3>2. ASSUME NEW sub, NEW life, Exchange(c, sub, life)
          PROVE  /\ UNCHANGED <<now, login, pending>>
                 /\ \A d \in Callbacks : d # c => callback'[d] = callback[d]
                 /\ callback'[c].login = callback[c].login /\ callback'[c].phase # "idle"
      BY <1>0, <3>1, <3>2 DEF Exchange, CallbackRecords
    <3>3. CASE ExchangeFails(c) \/ StoreSession(c)
      BY <1>0, <3>1, <3>3 DEF ExchangeFails, StoreSession, CallbackRecords
    <3> QED BY <1>3, <3>2, <3>3
  <2> QED BY <2>1, <2>2, LaterStepsKeepState DEF LoginIInv, LoginsTyped
<1>4. ASSUME NEW p \in Publishes,
             \/ \E a \in Accounts, rkey \in Rkeys : Publish(p, a, rkey)
             \/ PutRecord(p) \/ PutRecordFails(p) \/ Published(p)
      PROVE  StateIInv'
  <2>1. UNCHANGED <<now, login, pending, callback>>
    BY <1>4 DEF Publish, PutRecord, PutRecordFails, Published
  <2> QED BY <1>0, <2>1, LaterStepsKeepState
<1>5. ASSUME PruneStores PROVE StateIInv'
  <2>1. /\ UNCHANGED <<now, login, callback>>
        /\ DOMAIN pending' = {l \in DOMAIN pending : now <= pending[l] + StateTTL}
        /\ \A l \in DOMAIN pending' : pending'[l] = pending[l]
    BY <1>5 DEF PruneStores
  <2>2. \A l \in DOMAIN pending \ DOMAIN pending' : now > login[l].at + StateTTL
    BY <1>0, <2>1, OAuthLoginAssumption DEF StateIInv, StatesDated, LoginIInv, LoginsTyped,
       LoginRecords
  <2>3. StatesDated'
    BY <2>1 DEF StateIInv, StatesDated
  <2> QED BY <1>0, <2>1, <2>2, <2>3, OtherStepsKeepState
<1>6. ASSUME RestartServer PROVE StateIInv'
  <2>1. DOMAIN pending' = {} /\ UNCHANGED now
    BY <1>6 DEF RestartServer
  <2>2. \A l \in Logins : login'[l].phase \in {"idle", "lost"} /\ login'[l].at = login[l].at
    BY <1>0, <1>6 DEF RestartServer, LoginRecords
  <2>3. \A c \in Callbacks : callback'[c].phase = "idle" =>
          callback[c].phase = "idle" /\ callback'[c].login = callback[c].login
    BY <1>0, <1>6 DEF RestartServer, Interrupted, CallbackRecords
  <2>4. StatesDated'
    BY <2>1, <2>2, <2>3 DEF StateIInv, StatesDated
  <2>5. StatesBounded'
    BY <2>1, FS_EmptySet, OAuthLoginAssumption DEF StatesBounded
  <2>6. DueKept'
    BY <2>2 DEF DueKept, Due
  <2> QED BY <2>4, <2>5, <2>6 DEF StateIInv
<1> QED BY <1>1, <1>2, <1>3, <1>4, <1>5, <1>6, InsertKeepsState DEF OAuthNext

LEMMA StateIInvSurvive == StateIInv => LoginsSurvive
  BY DEF StateIInv, DueKept, Due, CallbacksOf, LoginsSurvive

(***************************************************************************)
(* The store of sessions and what is advertised.                           *)
(***************************************************************************)

SessionsBounded ==
  /\ DOMAIN sessions \subseteq Accounts \union {EmptyDid} /\ IsFiniteSet(DOMAIN sessions)
  /\ Cardinality(DOMAIN sessions) <= MaxUserSessions

LEMMA SessionsInit == OAuthInit => SessionsBounded
<1> SUFFICES ASSUME OAuthInit PROVE SessionsBounded
  OBVIOUS
<1>1. DOMAIN sessions = {}
  BY DEF OAuthInit
<1> QED BY <1>1, FS_EmptySet, OAuthLoginAssumption DEF SessionsBounded

LEMMA FewerSessions ==
  ASSUME SessionsBounded, DOMAIN sessions' \subseteq DOMAIN sessions PROVE SessionsBounded'
<1>1. /\ IsFiniteSet(DOMAIN sessions') /\ Cardinality(DOMAIN sessions') \in Nat
      /\ Cardinality(DOMAIN sessions) \in Nat
      /\ Cardinality(DOMAIN sessions') <= Cardinality(DOMAIN sessions)
  BY FS_Subset, FS_CardinalityType DEF SessionsBounded
<1> QED BY <1>1, OAuthLoginAssumption DEF SessionsBounded

LEMMA StoreSessionKeepsBound ==
  ASSUME LoginIInv, SessionsBounded, NEW c \in Callbacks, StoreSession(c)
  PROVE  SessionsBounded'
<1> DEFINE a == callback[c].did
<1> DEFINE live == {b \in DOMAIN sessions : sessions[b].expires > now}
<1>1. PICK kept \in KeptSessions(a) : DOMAIN sessions' = kept \union {a}
  BY DEF StoreSession
<1>2. a \in Accounts \union {EmptyDid}
  BY DEF StoreSession, LoginIInv, OfTheAccount
<1>3. Cardinality(DOMAIN sessions) \in Nat /\ MaxUserSessions \in Nat \ {0}
  BY FS_CardinalityType, OAuthLoginAssumption DEF SessionsBounded
<1>4. kept \subseteq DOMAIN sessions
  BY DEF KeptSessions
<1>5. IsFiniteSet(kept) /\ Cardinality(kept) \in Nat
  BY <1>4, FS_Subset, FS_CardinalityType DEF SessionsBounded
<1>6. /\ IsFiniteSet(live) /\ Cardinality(live) \in Nat
      /\ Cardinality(live) <= Cardinality(DOMAIN sessions)
  <2>1. live \subseteq DOMAIN sessions
    OBVIOUS
  <2> HIDE DEF live
  <2> QED BY <2>1, FS_Subset, FS_CardinalityType DEF SessionsBounded
<1>7. \/ kept = DOMAIN sessions /\ a \in DOMAIN sessions
      \/ Cardinality(kept) < MaxUserSessions
  <2>1. CASE \E b \in live : kept = live \ {b}
    <3>1. PICK b \in live : kept = live \ {b}
      BY <2>1
    <3> HIDE DEF live
    <3>2. Cardinality(kept) = Cardinality(live) - 1
      BY <1>6, <3>1, FS_RemoveElement
    <3> QED BY <1>3, <1>6, <3>2 DEF SessionsBounded
  <2>2. CASE kept = live /\ Cardinality(live) < MaxUserSessions
    BY <2>2
  <2>3. CASE /\ kept = DOMAIN sessions
             /\ a \in DOMAIN sessions \/ Cardinality(DOMAIN sessions) < MaxUserSessions
    BY <2>3
  <2> HIDE DEF a
  <2> QED BY <2>1, <2>2, <2>3 DEF KeptSessions
<1> HIDE DEF a
<1>8. /\ IsFiniteSet(kept \union {a})
      /\ a \in kept => Cardinality(kept \union {a}) = Cardinality(kept)
      /\ a \notin kept => Cardinality(kept \union {a}) = Cardinality(kept) + 1
  BY <1>5, FS_AddElement
<1>9. Cardinality(kept \union {a}) <= MaxUserSessions
  BY <1>3, <1>5, <1>7, <1>8 DEF SessionsBounded
<1> QED BY <1>1, <1>2, <1>4, <1>8, <1>9 DEF SessionsBounded

LEMMA OAuthNextKeepsSessions ==
  ASSUME LoginIInv, SessionsBounded, OAuthNext PROVE SessionsBounded'
<1>1. CASE \E c \in Callbacks : StoreSession(c)
  BY <1>1, StoreSessionKeepsBound
<1>2. CASE ~\E c \in Callbacks : StoreSession(c)
  <2>1. PruneStores \/ RestartServer => DOMAIN sessions' \subseteq DOMAIN sessions
    BY DEF PruneStores, RestartServer
  <2>2. ~(PruneStores \/ RestartServer) => UNCHANGED sessions
    BY <1>2 DEF OAuthNext, Resolve, ResolveFails, InsertState, PushRequest, Callback, Exchange,
       ExchangeFails, Publish, PutRecord, PutRecordFails, Published
  <2>3. DOMAIN sessions' \subseteq DOMAIN sessions
    BY <2>1, <2>2
  <2> QED BY <2>3, FewerSessions
<1> QED BY <1>1, <1>2

PublishFormed(r) ==
  r = [phase |-> r.phase, did |-> r.did, rkey |-> r.rkey, session |-> r.session]

(* A publish that is answered has written its record; what is advertised   *)
(* was written by the administrator, or is what the process started with.  *)
Advertised ==
  /\ config \in Configs
  /\ DOMAIN publish = Publishes /\ \A p \in Publishes : PublishFormed(publish[p])
  /\ \A p \in Publishes :
       publish[p].phase = "answer" => <<publish[p].did, publish[p].rkey>> \in records
  /\ \/ feedUri = ConfiguredUri
     \/ feedUri \in records /\ feedUri[1] = config.admin /\ ~config.explicit

LEMMA AdvertisedInit == OAuthInit => Advertised
<1> SUFFICES ASSUME OAuthInit PROVE Advertised
  OBVIOUS
<1>1. PublishFormed(NoPublish) /\ NoPublish.phase = "idle"
  BY DEF NoPublish, PublishFormed
<1>2. DOMAIN publish = Publishes /\ \A p \in Publishes : publish[p] = NoPublish
  BY DEF OAuthInit
<1> QED BY <1>1, <1>2 DEF OAuthInit, Advertised

LEMMA OnePublishMoves ==
  ASSUME Advertised, NEW p \in Publishes, NEW q, PublishFormed(q),
         publish' = [publish EXCEPT ![p] = q], records \subseteq records',
         q.phase = "answer" => <<q.did, q.rkey>> \in records', config' = config,
         \/ UNCHANGED feedUri
         \/ feedUri' \in records' /\ feedUri'[1] = config.admin /\ ~config.explicit
  PROVE  Advertised'
<1>1. publish'[p] = q /\ \A o \in Publishes : o # p => publish'[o] = publish[o]
  BY DEF Advertised
<1>2. DOMAIN publish' = Publishes /\ \A o \in Publishes : PublishFormed(publish'[o])
  BY <1>1 DEF Advertised
<1>3. \A o \in Publishes :
        publish'[o].phase = "answer" => <<publish'[o].did, publish'[o].rkey>> \in records'
  BY <1>1 DEF Advertised
<1>4. \A o \in Publishes : PublishFormed(publish[o])'
  BY <1>2 DEF PublishFormed
<1> QED BY <1>2, <1>3, <1>4 DEF Advertised

LEMMA OAuthNextKeepsAdvertised ==
  ASSUME Advertised, OAuthNext PROVE Advertised'
<1>1. ASSUME NEW p \in Publishes, NEW a \in Accounts, NEW rkey \in Rkeys, Publish(p, a, rkey)
      PROVE  Advertised'
  <2>1. PICK q : /\ publish' = [publish EXCEPT ![p] = q] /\ PublishFormed(q)
                 /\ q.phase \in {"refused", "write"}
    <3> DEFINE active == {sessions[b] : b \in {x \in DOMAIN sessions :
                                                x = a /\ sessions[x].expires > now}}
    <3>1. CASE config.admin \notin {Nobody, a}
      <4> DEFINE q == [NoPublish EXCEPT !.phase = "refused"]
      <4>1. publish' = [publish EXCEPT ![p] = q]
        BY <1>1, <3>1 DEF Publish
      <4>2. PublishFormed(q) /\ q.phase = "refused"
        BY DEF NoPublish, PublishFormed
      <4> QED BY <4>1, <4>2
    <3>2. CASE config.admin \in {Nobody, a}
      <4> DEFINE q == [phase |-> "write", did |-> a, rkey |-> rkey, session |-> active]
      <4>1. publish' = [publish EXCEPT ![p] = q]
        BY <1>1, <3>2 DEF Publish
      <4>2. PublishFormed(q) /\ q.phase = "write"
        BY DEF PublishFormed
      <4> QED BY <4>1, <4>2
    <3> QED BY <3>1, <3>2
  <2> QED BY <1>1, <2>1, OnePublishMoves DEF Publish
<1>2. ASSUME NEW p \in Publishes, PutRecord(p) PROVE Advertised'
  <2> DEFINE q == [publish[p] EXCEPT !.phase = "answer"]
  <2>1. PublishFormed(q) /\ q.did = publish[p].did /\ q.rkey = publish[p].rkey
    BY DEF Advertised, PublishFormed
  <2>2. publish' = [publish EXCEPT ![p] = q] /\ UNCHANGED <<config, feedUri>>
        /\ records' = records \union {<<publish[p].did, publish[p].rkey>>}
    BY <1>2 DEF PutRecord
  <2> HIDE DEF q
  <2> QED BY <2>1, <2>2, OnePublishMoves
<1>3. ASSUME NEW p \in Publishes, PutRecordFails(p) PROVE Advertised'
  <2> DEFINE q == [publish[p] EXCEPT !.phase = "refused"]
  <2>1. PublishFormed(q) /\ q.phase = "refused"
    BY DEF Advertised, PublishFormed
  <2>2. publish' = [publish EXCEPT ![p] = q] /\ UNCHANGED <<config, feedUri, records>>
    BY <1>3 DEF PutRecordFails
  <2> HIDE DEF q
  <2> QED BY <2>1, <2>2, OnePublishMoves
<1>4. ASSUME NEW p \in Publishes, Published(p) PROVE Advertised'
  <2> DEFINE q == [publish[p] EXCEPT !.phase = "done"]
  <2>1. PublishFormed(q) /\ q.phase = "done"
    BY DEF Advertised, PublishFormed
  <2>2. publish' = [publish EXCEPT ![p] = q] /\ UNCHANGED <<config, records>>
    BY <1>4 DEF Published
  <2>3. \/ UNCHANGED feedUri
        \/ feedUri' \in records /\ feedUri'[1] = config.admin /\ ~config.explicit
    BY <1>4 DEF Published, Advertised
  <2> HIDE DEF q
  <2> QED BY <2>1, <2>2, <2>3, OnePublishMoves
<1>5. ASSUME RestartServer PROVE Advertised'
  <2>1. /\ DOMAIN publish' = Publishes /\ feedUri' = ConfiguredUri /\ UNCHANGED <<config, records>>
        /\ \A p \in Publishes : publish'[p] = Interrupted(publish[p])
    BY <1>5 DEF RestartServer
  <2>2. \A p \in Publishes :
          PublishFormed(Interrupted(publish[p])) /\ Interrupted(publish[p]).phase # "answer"
    BY DEF Advertised, PublishFormed, Interrupted
  <2>3. \A p \in Publishes : PublishFormed(publish[p])'
    BY <2>1, <2>2 DEF PublishFormed
  <2> QED BY <2>1, <2>2, <2>3 DEF Advertised
<1>6. CASE UNCHANGED <<config, publish, records, feedUri>>
  BY <1>6 DEF Advertised, PublishFormed
<1> QED BY <1>1, <1>2, <1>3, <1>4, <1>5, <1>6 DEF OAuthNext, Resolve, ResolveFails, InsertState,
           PushRequest, Callback, Exchange, ExchangeFails, StoreSession, PruneStores

LEMMA StoresTyped ==
  LoginIInv /\ StateIInv /\ SessionsBounded /\ Advertised => OAuthTypeOK
<1> SUFFICES ASSUME LoginIInv, StateIInv, SessionsBounded, Advertised PROVE OAuthTypeOK
  OBVIOUS
<1>1. \A l \in DOMAIN pending : pending[l] \in 0..MaxNow
  BY WallClockAssumption DEF LoginIInv, LoginsTyped, LoginRecords, StateIInv, StatesDated
<1>2. DOMAIN pending \subseteq Logins /\ Cardinality(DOMAIN pending) <= MaxStates
  BY DEF LoginIInv, LoginsTyped, StateIInv, StatesBounded
<1> QED BY <1>1, <1>2 DEF SessionsBounded, Advertised, OAuthTypeOK

(***************************************************************************)
(* What the key cache guarantees, for any accounts, keys, rotations,       *)
(* requests and any times: a signature is checked with a recent key.       *)
(***************************************************************************)

Phases == {"idle", "resolve", "insert", "verify", "track", "serve"}

RequestRecords ==
  [phase : Phases, did : Dids \union {AnonymousViewer}, signer : Nat, at : Nat, key : Nat,
   served : Nat]

(* A key that is not replaced yet is dated after the end of time.          *)
KeysDated ==
  /\ now \in Nat /\ now <= MaxNow
  /\ DOMAIN current = Dids /\ DOMAIN retired = Dids
  /\ \A d \in Dids :
       /\ current[d] \in DOMAIN CurveOf[d] /\ DOMAIN retired[d] = DOMAIN CurveOf[d]
       /\ \A k \in DOMAIN CurveOf[d] :
            retired[d][k] \in Nat /\ (current[d] <= k => retired[d][k] = MaxNow + 1)

(* What is cached was published at the time it is dated by.                *)
CacheDated ==
  /\ DOMAIN cache \subseteq Dids
  /\ \A d \in DOMAIN cache :
       /\ cache[d].key \in DOMAIN CurveOf[d]
       /\ cache[d].at \in Nat /\ cache[d].at <= now
       /\ cache[d].at <= retired[d][cache[d].key]

(* A request carries a key that was published when it read the clock, or   *)
(* at most the TTL before.                                                 *)
KeyInHand(q) ==
  /\ q.phase \in {"resolve", "insert", "verify"} => q.did \in Dids /\ q.at <= now
  /\ q.phase \in {"insert", "verify"} => q.key \in DOMAIN CurveOf[q.did]
  /\ q.phase = "insert" => q.at <= retired[q.did][q.key]
  /\ q.phase = "verify" => q.at <= retired[q.did][q.key] + KeyTTL

RequestsDated ==
  /\ request \in [Requests -> RequestRecords]
  /\ \A r \in Requests : KeyInHand(request[r])

ServiceIInv == KeysDated /\ CacheDated /\ RequestsDated

LEMMA KeysOfDid ==
  ASSUME NEW d \in Dids
  PROVE  /\ Len(CurveOf[d]) \in Nat \ {0}
         /\ DOMAIN CurveOf[d] = 1..Len(CurveOf[d]) /\ 1 \in DOMAIN CurveOf[d]
<1>1. CurveOf[d] \in Seq({"ES256", "ES256K"}) /\ CurveOf[d] # <<>>
  BY ServiceAuthAssumption
<1> QED BY <1>1

LEMMA ServiceInitIInv == now = 0 /\ ServiceInit => ServiceIInv
<1> SUFFICES ASSUME now = 0, ServiceInit PROVE ServiceIInv
  OBVIOUS
<1>1. KeysDated
  <2>1. now \in Nat /\ now <= MaxNow /\ MaxNow + 1 \in Nat
    BY WallClockAssumption
  <2>2. ASSUME NEW d \in Dids
        PROVE  /\ current[d] \in DOMAIN CurveOf[d] /\ DOMAIN retired[d] = DOMAIN CurveOf[d]
               /\ \A k \in DOMAIN CurveOf[d] : retired[d][k] = MaxNow + 1
    BY KeysOfDid DEF ServiceInit
  <2> QED BY <2>1, <2>2 DEF ServiceInit, KeysDated
<1>2. CacheDated
  BY DEF ServiceInit, CacheDated
<1>3. RequestsDated
  BY DEF ServiceInit, RequestsDated, NoRequest, RequestRecords, Phases, KeyInHand
<1> QED BY <1>1, <1>2, <1>3 DEF ServiceIInv

(* Time passes: what was published stays so.                               *)
LEMMA ClockKeepsServiceIInv ==
  ASSUME ServiceIInv, now' \in Nat, now <= now', now' <= MaxNow, UNCHANGED serviceVars
  PROVE  ServiceIInv'
<1> USE DEF serviceVars
<1>1. KeysDated'
  BY DEF ServiceIInv, KeysDated
<1>2. CacheDated'
  BY DEF ServiceIInv, KeysDated, CacheDated
<1>3. RequestsDated'
  <2>1. ASSUME NEW r \in Requests PROVE KeyInHand(request[r])'
    <3>1. request[r] \in RequestRecords /\ KeyInHand(request[r])
      BY DEF ServiceIInv, RequestsDated
    <3> QED BY <3>1 DEF KeyInHand, RequestRecords, ServiceIInv, KeysDated
  <2> QED BY <2>1 DEF ServiceIInv, RequestsDated
<1> QED BY <1>1, <1>2, <1>3 DEF ServiceIInv

(* A step of one request, which the others do not see.                     *)
LEMMA OneRequestMoves ==
  ASSUME ServiceIInv, NEW r \in Requests, NEW q \in RequestRecords, KeyInHand(q),
         request' = [request EXCEPT ![r] = q], UNCHANGED <<now, current, retired>>, CacheDated'
  PROVE  ServiceIInv'
<1>1. KeysDated'
  BY DEF ServiceIInv, KeysDated
<1>2. RequestsDated'
  <2>1. request' \in [Requests -> RequestRecords]
    BY DEF ServiceIInv, RequestsDated
  <2>2. ASSUME NEW s \in Requests PROVE KeyInHand(request[s])'
    <3>1. KeyInHand(request'[s])
      BY DEF ServiceIInv, RequestsDated
    <3> QED BY <3>1 DEF KeyInHand
  <2> QED BY <2>1, <2>2 DEF RequestsDated
<1> QED BY <1>1, <1>2 DEF ServiceIInv

LEMMA CacheUntouched ==
  ASSUME ServiceIInv, UNCHANGED <<now, retired, cache>> PROVE CacheDated'
  BY DEF ServiceIInv, CacheDated

(* A key from the cache is at most the TTL old; without one the document   *)
(* is resolved.                                                            *)
LEMMA ArriveKeepsServiceIInv ==
  ASSUME ServiceIInv, NEW r \in Requests, NEW d \in Dids, NEW k \in DOMAIN CurveOf[d] \union {NoKey},
         Arrive(r, d, k)
  PROVE  ServiceIInv'
<1> DEFINE q == [phase |-> IF Fresh(d, now) THEN "verify" ELSE "resolve", did |-> d, signer |-> k,
                 at |-> now, key |-> IF Fresh(d, now) THEN cache[d].key ELSE 0,
                 served |-> request[r].served + 1]
<1>1. request' = [request EXCEPT ![r] = q] /\ UNCHANGED <<now, current, retired, cache>>
  BY DEF Arrive, ServiceIInv, RequestsDated
<1>2. k \in Nat /\ now \in Nat /\ request[r].served \in Nat
  BY KeysOfDid DEF NoKey, ServiceIInv, KeysDated, RequestsDated, RequestRecords
<1>3. Fresh(d, now) => /\ cache[d].key \in DOMAIN CurveOf[d] /\ cache[d].key \in Nat
                       /\ now <= retired[d][cache[d].key] + KeyTTL
  <2> SUFFICES ASSUME Fresh(d, now)
               PROVE  /\ cache[d].key \in DOMAIN CurveOf[d] /\ cache[d].key \in Nat
                      /\ now <= retired[d][cache[d].key] + KeyTTL
    OBVIOUS
  <2>1. /\ cache[d].key \in DOMAIN CurveOf[d] /\ cache[d].at \in Nat
        /\ cache[d].at <= retired[d][cache[d].key]
    BY DEF Fresh, ServiceIInv, CacheDated
  <2>2. retired[d][cache[d].key] \in Nat /\ cache[d].key \in Nat
    BY <2>1, KeysOfDid DEF ServiceIInv, KeysDated
  <2> QED BY <1>2, <2>1, <2>2, ServiceAuthAssumption DEF Fresh
<1>4. q \in RequestRecords
  BY <1>2, <1>3 DEF RequestRecords, Phases
<1>5. KeyInHand(q)
  BY <1>2, <1>3 DEF KeyInHand
<1> HIDE DEF q
<1> QED BY <1>1, <1>4, <1>5, OneRequestMoves, CacheUntouched

(* A request that goes on to be served carries no key.                     *)
LEMMA ServedKeepsServiceIInv ==
  ASSUME ServiceIInv, NEW r \in Requests, NEW q \in RequestRecords,
         q.phase \in {"idle", "track", "serve"}, request' = [request EXCEPT ![r] = q],
         UNCHANGED <<now, current, retired>>,
         UNCHANGED cache \/ \E gone \in SUBSET Dids :
           cache' = [e \in DOMAIN cache \ gone |-> cache[e]]
  PROVE  ServiceIInv'
<1>1. CacheDated'
  BY DEF ServiceIInv, CacheDated
<1>2. KeyInHand(q)
  BY DEF KeyInHand
<1> QED BY <1>1, <1>2, OneRequestMoves

LEMMA AnswerKeepsServiceIInv ==
  ASSUME ServiceIInv, NEW r \in Requests, NEW viewer \in Dids \union {AnonymousViewer},
         request' = ServedAs(r, viewer), UNCHANGED <<now, current, retired>>,
         UNCHANGED cache \/ \E gone \in SUBSET Dids :
           cache' = [e \in DOMAIN cache \ gone |-> cache[e]]
  PROVE  ServiceIInv'
<1> DEFINE q == [NoRequest EXCEPT !.phase = "track", !.did = viewer,
                                  !.served = request[r].served]
<1>1. request[r].served \in Nat
  BY DEF ServiceIInv, RequestsDated, RequestRecords
<1>2. q \in RequestRecords /\ q.phase = "track"
  BY <1>1 DEF NoRequest, RequestRecords, Phases
<1>3. request' = [request EXCEPT ![r] = q]
  BY DEF ServedAs
<1> HIDE DEF q
<1> QED BY <1>2, <1>3, ServedKeepsServiceIInv

(* The document publishes the current key, which nothing has replaced.     *)
LEMMA ResolveKeepsServiceIInv ==
  ASSUME ServiceIInv, NEW r \in Requests, ResolveKey(r) PROVE ServiceIInv'
<1> DEFINE d == request[r].did
<1> DEFINE q == [request[r] EXCEPT !.phase = "insert", !.key = current[d]]
<1>1. request[r] \in RequestRecords /\ d \in Dids /\ request[r].at <= now
  BY DEF ResolveKey, ServiceIInv, RequestsDated, KeyInHand
<1>2. current[d] \in DOMAIN CurveOf[d] /\ current[d] \in Nat
  BY <1>1, KeysOfDid DEF ServiceIInv, KeysDated
<1>3. q \in RequestRecords
  BY <1>1, <1>2 DEF RequestRecords, Phases
<1>4. request' = [request EXCEPT ![r] = q] /\ UNCHANGED <<now, current, retired, cache>>
  BY DEF ResolveKey, ServiceIInv, RequestsDated
<1>5. q.at <= retired[d][current[d]]
  BY <1>1, <1>2, WallClockAssumption DEF ServiceIInv, KeysDated, RequestRecords
<1>6. KeyInHand(q)
  BY <1>1, <1>2, <1>5 DEF KeyInHand, RequestRecords
<1> HIDE DEF q
<1> QED BY <1>3, <1>4, <1>6, OneRequestMoves, CacheUntouched

(* The entry is dated by the clock of the request, however late it comes.  *)
LEMMA CachedKeepsServiceIInv ==
  ASSUME ServiceIInv, NEW r \in Requests, Cached(r) PROVE ServiceIInv'
<1> DEFINE d == request[r].did
<1> DEFINE k == request[r].key
<1> DEFINE q == [request[r] EXCEPT !.phase = "verify"]
<1>1. /\ request[r] \in RequestRecords /\ d \in Dids /\ request[r].at <= now
      /\ k \in DOMAIN CurveOf[d] /\ request[r].at <= retired[d][k]
  BY DEF Cached, ServiceIInv, RequestsDated, KeyInHand
<1>2. retired[d][k] \in Nat /\ request[r].at \in Nat
  BY <1>1 DEF ServiceIInv, KeysDated, RequestRecords
<1>3. q \in RequestRecords
  BY <1>1 DEF RequestRecords, Phases
<1>4. request' = [request EXCEPT ![r] = q] /\ UNCHANGED <<now, current, retired>>
  BY DEF Cached, ServiceIInv, RequestsDated
<1>5. KeyInHand(q)
  BY <1>1, <1>2, ServiceAuthAssumption DEF KeyInHand, RequestRecords
<1>6. CacheDated'
  <2>1. PICK victims : cache' = [e \in (DOMAIN cache \ victims) \union {d} |->
                                   IF e = d THEN [key |-> k, at |-> request[r].at] ELSE cache[e]]
    BY DEF Cached
  <2>2. DOMAIN cache' \subseteq Dids
    BY <1>1, <2>1 DEF ServiceIInv, CacheDated
  <2>3. ASSUME NEW e \in DOMAIN cache'
        PROVE  /\ cache'[e].key \in DOMAIN CurveOf[e]
               /\ cache'[e].at \in Nat /\ cache'[e].at <= now
               /\ cache'[e].at <= retired[e][cache'[e].key]
    <3>1. CASE e = d
      <4>1. cache'[e].key = k /\ cache'[e].at = request[r].at
        BY <2>1, <3>1
      <4> QED BY <1>1, <1>2, <3>1, <4>1
    <3>2. CASE e # d
      <4>1. e \in DOMAIN cache /\ cache'[e] = cache[e]
        BY <2>1, <3>2
      <4> QED BY <4>1 DEF ServiceIInv, CacheDated
    <3> QED BY <3>1, <3>2
  <2> QED BY <1>4, <2>2, <2>3 DEF CacheDated
<1> HIDE DEF q
<1> QED BY <1>3, <1>4, <1>5, <1>6, OneRequestMoves

(* A rotation dates the replaced key now, after all that carries it.       *)
LEMMA RotateKeepsServiceIInv ==
  ASSUME ServiceIInv, NEW d \in Dids, Rotate(d) PROVE ServiceIInv'
<1>1. /\ now \in Nat /\ current[d] \in DOMAIN CurveOf[d] /\ current[d] \in Nat
      /\ current[d] + 1 \in DOMAIN CurveOf[d]
  BY KeysOfDid DEF Rotate, ServiceIInv, KeysDated
<1>2. /\ DOMAIN current' = Dids /\ DOMAIN retired' = Dids
      /\ \A e \in Dids : e # d => current'[e] = current[e] /\ retired'[e] = retired[e]
      /\ current'[d] = current[d] + 1
      /\ DOMAIN retired'[d] = DOMAIN CurveOf[d] /\ retired'[d][current[d]] = now
      /\ \A k \in DOMAIN CurveOf[d] : k # current[d] => retired'[d][k] = retired[d][k]
      /\ UNCHANGED <<now, cache, request, inFlight>>
  BY <1>1 DEF Rotate, ServiceIInv, KeysDated
<1>3. KeysDated'
  <2>1. ASSUME NEW e \in Dids
        PROVE  /\ current'[e] \in DOMAIN CurveOf[e] /\ DOMAIN retired'[e] = DOMAIN CurveOf[e]
               /\ \A k \in DOMAIN CurveOf[e] :
                    retired'[e][k] \in Nat /\ (current'[e] <= k => retired'[e][k] = MaxNow + 1)
    <3>1. CASE e = d
      <4>1. ASSUME NEW k \in DOMAIN CurveOf[d]
            PROVE  /\ retired'[d][k] \in Nat
                   /\ current[d] + 1 <= k => retired'[d][k] = MaxNow + 1
        <5>1. k \in Nat
          BY KeysOfDid
        <5>2. current[d] + 1 <= k => k # current[d] /\ current[d] <= k
          BY <1>1, <5>1
        <5> QED BY <1>1, <1>2, <5>2 DEF ServiceIInv, KeysDated
      <4> QED BY <1>1, <1>2, <3>1, <4>1
    <3>2. CASE e # d
      BY <1>2, <3>2 DEF ServiceIInv, KeysDated
    <3> QED BY <3>1, <3>2
  <2> QED BY <1>2, <2>1 DEF ServiceIInv, KeysDated
(* Whatever is dated up to now and was published then, still was.          *)
<1>4. ASSUME NEW e \in Dids, NEW k \in DOMAIN CurveOf[e], NEW at \in Nat, NEW slack \in Nat,
             at <= now, at <= retired[e][k] + slack
      PROVE  at <= retired'[e][k] + slack
  BY <1>1, <1>2, <1>4
<1>5. CacheDated'
  <2>1. ASSUME NEW e \in DOMAIN cache PROVE cache[e].at <= retired'[e][cache[e].key]
    <3>1. /\ e \in Dids /\ cache[e].key \in DOMAIN CurveOf[e] /\ cache[e].at \in Nat
          /\ cache[e].at <= now /\ cache[e].at <= retired[e][cache[e].key]
      BY DEF ServiceIInv, CacheDated
    <3>2. retired[e][cache[e].key] \in Nat /\ retired'[e][cache[e].key] \in Nat
      BY <1>2, <1>3, <3>1 DEF ServiceIInv, KeysDated
    <3>3. cache[e].at <= retired[e][cache[e].key] + 0
      BY <3>1, <3>2
    <3>4. cache[e].at <= retired'[e][cache[e].key] + 0
      BY <1>4, <3>1, <3>3
    <3> QED BY <3>2, <3>4
  <2> QED BY <1>2, <2>1 DEF ServiceIInv, CacheDated
<1>6. RequestsDated'
  <2>1. ASSUME NEW r \in Requests PROVE KeyInHand(request[r])'
    <3> DEFINE q == request[r]
    <3>1. q \in RequestRecords /\ KeyInHand(q) /\ q.at \in Nat
      BY DEF ServiceIInv, RequestsDated, RequestRecords
    <3>2. CASE q.phase = "insert"
      <4>1. q.did \in Dids /\ q.key \in DOMAIN CurveOf[q.did] /\ q.at <= now
            /\ q.at <= retired[q.did][q.key]
        BY <3>1, <3>2 DEF KeyInHand
      <4>2. retired[q.did][q.key] \in Nat /\ retired'[q.did][q.key] \in Nat
        BY <1>2, <1>3, <4>1 DEF ServiceIInv, KeysDated
      <4>3. q.at <= retired[q.did][q.key] + 0
        BY <4>1, <4>2
      <4>4. q.at <= retired'[q.did][q.key] + 0
        BY <1>4, <3>1, <4>1, <4>3
      <4> QED BY <1>2, <3>2, <4>1, <4>2, <4>4 DEF KeyInHand
    <3>3. CASE q.phase = "verify"
      <4>1. q.did \in Dids /\ q.key \in DOMAIN CurveOf[q.did] /\ q.at <= now
            /\ q.at <= retired[q.did][q.key] + KeyTTL
        BY <3>1, <3>3 DEF KeyInHand
      <4>2. q.at <= retired'[q.did][q.key] + KeyTTL
        BY <1>4, <3>1, <4>1, ServiceAuthAssumption
      <4> QED BY <1>2, <3>3, <4>1, <4>2 DEF KeyInHand
    <3>4. CASE q.phase \notin {"insert", "verify"}
      BY <1>2, <3>1, <3>4 DEF KeyInHand
    <3> QED BY <3>2, <3>3, <3>4
  <2> QED BY <1>2, <2>1 DEF ServiceIInv, RequestsDated
<1> QED BY <1>3, <1>5, <1>6 DEF ServiceIInv

LEMMA ServiceNextKeepsIInv == ServiceIInv /\ ServiceNext => ServiceIInv'
<1> SUFFICES ASSUME ServiceIInv, ServiceNext PROVE ServiceIInv'
  OBVIOUS
<1>1. ASSUME NEW r \in Requests, NEW d \in Dids, NEW k \in DOMAIN CurveOf[d] \union {NoKey},
             Arrive(r, d, k)
      PROVE  ServiceIInv'
  BY <1>1, ArriveKeepsServiceIInv
<1>2. ASSUME NEW r \in Requests, ArriveAnonymous(r) PROVE ServiceIInv'
  <2> DEFINE q == [NoRequest EXCEPT !.phase = "track", !.served = request[r].served + 1]
  <2>1. request[r].served + 1 \in Nat
    BY DEF ServiceIInv, RequestsDated, RequestRecords
  <2>2. q \in RequestRecords /\ q.phase = "track"
    BY <2>1 DEF NoRequest, RequestRecords, Phases
  <2>3. request' = [request EXCEPT ![r] = q] /\ UNCHANGED <<now, current, retired, cache>>
    BY <1>2 DEF ArriveAnonymous
  <2> HIDE DEF q
  <2> QED BY <2>2, <2>3, ServedKeepsServiceIInv
<1>3. ASSUME NEW r \in Requests, ResolveKey(r) PROVE ServiceIInv'
  BY <1>3, ResolveKeepsServiceIInv
<1>4. ASSUME NEW r \in Requests, ResolveKeyFails(r) \/ WrongAlgorithm(r) PROVE ServiceIInv'
  BY <1>4, AnswerKeepsServiceIInv DEF ResolveKeyFails, WrongAlgorithm
<1>5. ASSUME NEW r \in Requests, Cached(r) PROVE ServiceIInv'
  BY <1>5, CachedKeepsServiceIInv
<1>6. ASSUME NEW r \in Requests, BadSignature(r) PROVE ServiceIInv'
  <2>1. {request[r].did} \in SUBSET Dids
    BY <1>6 DEF BadSignature, ServiceIInv, RequestsDated, KeyInHand
  <2> QED BY <1>6, <2>1, AnswerKeepsServiceIInv DEF BadSignature
<1>7. ASSUME NEW r \in Requests, GoodSignature(r) PROVE ServiceIInv'
  <2>1. request[r].did \in Dids \union {AnonymousViewer}
    BY DEF ServiceIInv, RequestsDated, RequestRecords
  <2>2. PICK viewer \in {request[r].did, AnonymousViewer} : request' = ServedAs(r, viewer)
    BY <1>7 DEF GoodSignature
  <2>3. viewer \in Dids \union {AnonymousViewer}
    BY <2>1
  <2> QED BY <1>7, <2>2, <2>3, AnswerKeepsServiceIInv DEF GoodSignature
<1>8. ASSUME NEW r \in Requests, Track(r) PROVE ServiceIInv'
  <2> DEFINE q == [request[r] EXCEPT !.phase = "serve"]
  <2>1. q \in RequestRecords /\ q.phase = "serve"
    BY DEF ServiceIInv, RequestsDated, RequestRecords, Phases
  <2>2. request' = [request EXCEPT ![r] = q] /\ UNCHANGED <<now, current, retired, cache>>
    BY <1>8 DEF Track, ServiceIInv, RequestsDated
  <2> HIDE DEF q
  <2> QED BY <2>1, <2>2, ServedKeepsServiceIInv
<1>9. ASSUME NEW r \in Requests, Drop(r) PROVE ServiceIInv'
  <2> DEFINE q == [NoRequest EXCEPT !.served = request[r].served]
  <2>1. request[r].served \in Nat
    BY DEF ServiceIInv, RequestsDated, RequestRecords
  <2>2. q \in RequestRecords /\ q.phase = "idle"
    BY <2>1 DEF NoRequest, RequestRecords, Phases
  <2>3. request' = [request EXCEPT ![r] = q] /\ UNCHANGED <<now, current, retired, cache>>
    BY <1>9 DEF Drop
  <2> HIDE DEF q
  <2> QED BY <2>2, <2>3, ServedKeepsServiceIInv
<1>10. ASSUME NEW d \in Dids, Rotate(d) PROVE ServiceIInv'
  BY <1>10, RotateKeepsServiceIInv
<1> QED BY <1>1, <1>2, <1>3, <1>4, <1>5, <1>6, <1>7, <1>8, <1>9, <1>10 DEF ServiceNext

(* The invariant gives the property: a key in hand was published lately.   *)
LEMMA IInvKeyRecent == ServiceIInv => KeyRecentlyPublished
  BY DEF ServiceIInv, RequestsDated, KeyInHand, KeyRecentlyPublished

(***************************************************************************)
(* The bounds: the cap of the cache and the count of requests in flight.   *)
(***************************************************************************)

Serving == {r \in Requests : request[r].phase = "serve"}

ServiceBounds ==
  /\ IsFiniteSet(DOMAIN cache) /\ Cardinality(DOMAIN cache) <= MaxKeys
  /\ IsFiniteSet(Serving) /\ inFlight = Cardinality(Serving)

LEMMA ServiceInitBounds == ServiceInit => ServiceBounds
<1> SUFFICES ASSUME ServiceInit PROVE ServiceBounds
  OBVIOUS
<1>1. DOMAIN cache = {} /\ Serving = {} /\ inFlight = 0
  BY DEF ServiceInit, NoRequest, Serving
<1> QED BY <1>1, FS_EmptySet, ServiceAuthAssumption DEF ServiceBounds

(* A request that neither comes into service nor leaves it.                *)
LEMMA NotServingKeepsBounds ==
  ASSUME ServiceIInv, ServiceBounds, NEW r \in Requests, NEW q,
         request' = [request EXCEPT ![r] = q],
         request[r].phase # "serve", q.phase # "serve", UNCHANGED inFlight
  PROVE  IsFiniteSet(Serving)' /\ (inFlight = Cardinality(Serving))'
<1>1. Serving' = Serving
  BY DEF Serving, ServiceIInv, RequestsDated
<1> QED BY <1>1 DEF ServiceBounds

(* One key more, with one less when the shard is full.                     *)
LEMMA CachedKeepsBounds ==
  ASSUME ServiceIInv, ServiceBounds, NEW r \in Requests, Cached(r) PROVE ServiceBounds'
<1> DEFINE d == request[r].did
<1> DEFINE full == d \notin DOMAIN cache /\ Cardinality(DOMAIN cache) >= MaxKeys
<1>1. PICK victims \in IF full THEN {{e} : e \in DOMAIN cache} ELSE {{}} :
        DOMAIN cache' = (DOMAIN cache \ victims) \union {d}
  BY DEF Cached
<1>2. Cardinality(DOMAIN cache) \in Nat /\ MaxKeys \in Nat
  BY FS_CardinalityType, ServiceAuthAssumption DEF ServiceBounds
<1>3. IsFiniteSet(DOMAIN cache') /\ Cardinality(DOMAIN cache') <= MaxKeys
  <2>1. CASE full
    <3>1. PICK e \in DOMAIN cache : victims = {e}
      BY <1>1, <2>1
    <3>2. /\ IsFiniteSet(DOMAIN cache \ {e}) /\ d \notin DOMAIN cache \ {e}
          /\ Cardinality(DOMAIN cache \ {e}) = Cardinality(DOMAIN cache) - 1
      BY <2>1, FS_RemoveElement DEF ServiceBounds
    <3>3. /\ IsFiniteSet(DOMAIN cache')
          /\ Cardinality(DOMAIN cache') = Cardinality(DOMAIN cache) - 1 + 1
      <4>1. DOMAIN cache' = (DOMAIN cache \ {e}) \union {d}
        BY <1>1, <3>1
      <4> DEFINE kept == DOMAIN cache \ {e}
      <4>2. DOMAIN cache' = kept \union {d} /\ IsFiniteSet(kept) /\ d \notin kept
        BY <3>2, <4>1
      <4> HIDE DEF d, kept
      <4>3. /\ IsFiniteSet(DOMAIN cache')
            /\ Cardinality(DOMAIN cache') = Cardinality(kept) + 1
        BY <4>2, FS_AddElement
      <4> QED BY <3>2, <4>3 DEF kept
    <3> QED BY <1>2, <3>3 DEF ServiceBounds
  <2>2. CASE ~full
    <3>1. DOMAIN cache' = DOMAIN cache \union {d}
      BY <1>1, <2>2
    <3>2. IsFiniteSet(DOMAIN cache)
      BY DEF ServiceBounds
    <3>3. /\ IsFiniteSet(DOMAIN cache')
          /\ d \in DOMAIN cache => Cardinality(DOMAIN cache') = Cardinality(DOMAIN cache)
          /\ d \notin DOMAIN cache => Cardinality(DOMAIN cache') = Cardinality(DOMAIN cache) + 1
      <4> HIDE DEF d
      <4> QED BY <3>1, <3>2, FS_AddElement
    <3> QED BY <1>2, <2>2, <3>3 DEF ServiceBounds
  <2> QED BY <2>1, <2>2
<1> DEFINE q == [request[r] EXCEPT !.phase = "verify"]
<1>4. request' = [request EXCEPT ![r] = q] /\ request[r].phase # "serve" /\ UNCHANGED inFlight
  BY DEF Cached, ServiceIInv, RequestsDated
<1>5. q.phase # "serve"
  BY DEF ServiceIInv, RequestsDated, RequestRecords
<1> HIDE DEF q
<1> QED BY <1>3, <1>4, <1>5, NotServingKeepsBounds DEF ServiceBounds

(* The guard counts a request in when it is served ...                     *)
LEMMA TrackKeepsBounds ==
  ASSUME ServiceIInv, ServiceBounds, NEW r \in Requests, Track(r) PROVE ServiceBounds'
<1>1. r \notin Serving /\ inFlight' = inFlight + 1 /\ UNCHANGED cache
  BY DEF Track, Serving
<1>2. request[r] \in RequestRecords
  BY DEF ServiceIInv, RequestsDated
<1>3. /\ request'[r].phase = "serve"
      /\ \A s \in Requests : s # r => request'[s] = request[s]
  BY <1>2 DEF Track, ServiceIInv, RequestsDated, RequestRecords
<1>4. Serving' = Serving \union {r}
  BY <1>3 DEF Serving
<1> QED BY <1>1, <1>4, FS_AddElement DEF ServiceBounds

(* ... and gives its place back when it ends, wherever it was.             *)
LEMMA DropKeepsBounds ==
  ASSUME ServiceIInv, ServiceBounds, NEW r \in Requests, Drop(r) PROVE ServiceBounds'
<1>1. /\ request'[r].phase = "idle" /\ UNCHANGED cache
      /\ \A s \in Requests : s # r => request'[s] = request[s]
  BY DEF Drop, NoRequest, ServiceIInv, RequestsDated
<1>2. Serving' = Serving \ {r}
  BY <1>1 DEF Serving
<1>3. Cardinality(Serving) \in Nat /\ (Cardinality(Serving) = 0 => Serving = {})
  BY FS_CardinalityType, FS_EmptySet DEF ServiceBounds
<1>4. inFlight' = IF r \in Serving THEN inFlight - 1 ELSE inFlight
  BY <1>3 DEF Drop, Serving, ServiceBounds
<1> QED BY <1>1, <1>2, <1>4, FS_RemoveElement DEF ServiceBounds

LEMMA ServiceNextKeepsBounds ==
  ASSUME ServiceIInv, ServiceBounds, ServiceNext PROVE ServiceBounds'
<1>1. ASSUME NEW r \in Requests, NEW d \in Dids, NEW k \in DOMAIN CurveOf[d] \union {NoKey},
             Arrive(r, d, k)
      PROVE  ServiceBounds'
  <2>1. PICK q : request' = [request EXCEPT ![r] = q] /\ q.phase \in {"verify", "resolve"}
    <3> DEFINE q == [phase |-> IF Fresh(d, now) THEN "verify" ELSE "resolve", did |-> d,
                     signer |-> k, at |-> now, key |-> IF Fresh(d, now) THEN cache[d].key ELSE 0,
                     served |-> request[r].served + 1]
    <3>1. request' = [request EXCEPT ![r] = q]
      BY <1>1 DEF Arrive, ServiceIInv, RequestsDated
    <3>2. q.phase \in {"verify", "resolve"}
      OBVIOUS
    <3> QED BY <3>1, <3>2
  <2> QED BY <1>1, <2>1, NotServingKeepsBounds DEF Arrive, ServiceBounds
<1>2. ASSUME NEW r \in Requests, ArriveAnonymous(r) PROVE ServiceBounds'
  <2>1. PICK q : request' = [request EXCEPT ![r] = q] /\ q.phase = "track"
    <3> DEFINE q == [NoRequest EXCEPT !.phase = "track", !.served = request[r].served + 1]
    <3>1. request' = [request EXCEPT ![r] = q]
      BY <1>2 DEF ArriveAnonymous
    <3>2. q.phase = "track"
      BY DEF NoRequest
    <3> QED BY <3>1, <3>2
  <2> QED BY <1>2, <2>1, NotServingKeepsBounds DEF ArriveAnonymous, ServiceBounds
<1>3. ASSUME NEW r \in Requests, ResolveKey(r) PROVE ServiceBounds'
  <2>1. PICK q : request' = [request EXCEPT ![r] = q] /\ q.phase = "insert"
    <3> DEFINE q == [request[r] EXCEPT !.phase = "insert", !.key = current[request[r].did]]
    <3>1. request' = [request EXCEPT ![r] = q]
      BY <1>3 DEF ResolveKey, ServiceIInv, RequestsDated
    <3>2. request[r] \in RequestRecords
      BY DEF ServiceIInv, RequestsDated
    <3>3. q.phase = "insert"
      BY <3>2 DEF RequestRecords
    <3> QED BY <3>1, <3>3
  <2> QED BY <1>3, <2>1, NotServingKeepsBounds DEF ResolveKey, ServiceBounds
<1>4. ASSUME NEW r \in Requests,
             ResolveKeyFails(r) \/ WrongAlgorithm(r) \/ BadSignature(r) \/ GoodSignature(r)
      PROVE  ServiceBounds'
  <2>1. PICK viewer : request' = ServedAs(r, viewer)
    BY <1>4 DEF ResolveKeyFails, WrongAlgorithm, BadSignature, GoodSignature
  <2>2. PICK q : request' = [request EXCEPT ![r] = q] /\ q.phase = "track"
    <3> DEFINE q == [NoRequest EXCEPT !.phase = "track", !.did = viewer,
                                      !.served = request[r].served]
    <3>1. request' = [request EXCEPT ![r] = q]
      BY <2>1 DEF ServedAs
    <3>2. q.phase = "track"
      BY DEF NoRequest
    <3> QED BY <3>1, <3>2
  <2>3. /\ UNCHANGED inFlight /\ request[r].phase # "serve"
        /\ cache' = cache \/ DOMAIN cache' = DOMAIN cache \ {request[r].did}
    BY <1>4 DEF ResolveKeyFails, WrongAlgorithm, BadSignature, GoodSignature
  <2>4. IsFiniteSet(DOMAIN cache') /\ Cardinality(DOMAIN cache') <= MaxKeys
    <3>1. Cardinality(DOMAIN cache) \in Nat /\ MaxKeys \in Nat
      BY FS_CardinalityType, ServiceAuthAssumption DEF ServiceBounds
    <3>2. CASE cache' = cache
      BY <3>2 DEF ServiceBounds
    <3>3. CASE DOMAIN cache' = DOMAIN cache \ {request[r].did}
      <4>1. /\ IsFiniteSet(DOMAIN cache')
            /\ \/ Cardinality(DOMAIN cache') = Cardinality(DOMAIN cache)
               \/ Cardinality(DOMAIN cache') = Cardinality(DOMAIN cache) - 1
        BY <3>3, FS_RemoveElement DEF ServiceBounds
      <4> QED BY <3>1, <4>1 DEF ServiceBounds
    <3> QED BY <2>3, <3>2, <3>3
  <2> QED BY <2>2, <2>3, <2>4, NotServingKeepsBounds DEF ServiceBounds
<1>5. ASSUME NEW d \in Dids, Rotate(d) PROVE ServiceBounds'
  BY <1>5 DEF Rotate, ServiceBounds, Serving
<1> QED BY <1>1, <1>2, <1>3, <1>4, <1>5, CachedKeepsBounds, TrackKeepsBounds, DropKeepsBounds
        DEF ServiceNext

LEMMA BoundsTyped == ServiceIInv /\ ServiceBounds => ServiceTypeOK
  BY DEF ServiceIInv, ServiceBounds, CacheDated, KeysDated, Serving, ServiceTypeOK

(***************************************************************************)
(* Both parts together.                                                    *)
(***************************************************************************)

OAuthIInv == LoginIInv /\ StateIInv /\ SessionsBounded /\ Advertised

AuthIInv == OAuthIInv /\ ServiceIInv /\ ServiceBounds

LEMMA InitAuthIInv == Init => AuthIInv
  BY OAuthInitIInv, StateInit, SessionsInit, AdvertisedInit, ServiceInitIInv, ServiceInitBounds
     DEF Init, AuthIInv, OAuthIInv

(* A step of the login does not concern the keys, and conversely.          *)
LEMMA OAuthKeepsAuthIInv ==
  ASSUME AuthIInv, OAuthNext, UNCHANGED serviceVars PROVE AuthIInv'
<1>1. OAuthIInv'
  BY OAuthNextKeepsIInv, OAuthNextKeepsState, OAuthNextKeepsSessions, OAuthNextKeepsAdvertised
     DEF AuthIInv, OAuthIInv
<1>2. UNCHANGED now
  BY DEF OAuthNext, Resolve, ResolveFails, InsertState, PushRequest, Callback, Exchange,
     ExchangeFails, StoreSession, Publish, PutRecord, PutRecordFails, Published, PruneStores,
     RestartServer
<1>3. ServiceIInv'
  <2>1. now \in Nat /\ now <= MaxNow
    BY DEF AuthIInv, ServiceIInv, KeysDated
  <2> QED BY <1>2, <2>1, ClockKeepsServiceIInv DEF AuthIInv
<1>4. ServiceBounds'
  BY DEF AuthIInv, ServiceBounds, Serving, serviceVars
<1> QED BY <1>1, <1>3, <1>4 DEF AuthIInv

LEMMA ServiceKeepsAuthIInv ==
  ASSUME AuthIInv, ServiceNext, UNCHANGED oauthVars PROVE AuthIInv'
<1>1. ServiceIInv' /\ ServiceBounds'
  BY ServiceNextKeepsIInv, ServiceNextKeepsBounds DEF AuthIInv
<1>2. UNCHANGED now
  BY DEF ServiceNext, Arrive, ArriveAnonymous, ResolveKey, ResolveKeyFails, Cached,
     WrongAlgorithm, BadSignature, GoodSignature, Track, Drop, Rotate
<1>3. LoginIInv'
  <2>1. now' \in Nat
    BY <1>2 DEF AuthIInv, OAuthIInv, LoginIInv, LoginsTyped
  <2> QED BY <2>1, ElsewhereKeepsIInv DEF AuthIInv, OAuthIInv, oauthVars
<1>4. StateIInv'
  <2>1. callback' \in [Callbacks -> CallbackRecords]
    BY <1>3 DEF LoginIInv, LoginsTyped
  <2> QED BY <1>2, <2>1, LaterStepsKeepState DEF AuthIInv, OAuthIInv, oauthVars
<1>5. SessionsBounded' /\ Advertised'
  BY DEF AuthIInv, OAuthIInv, SessionsBounded, Advertised, PublishFormed, oauthVars
<1> QED BY <1>1, <1>3, <1>4, <1>5 DEF AuthIInv, OAuthIInv

LEMMA ClockKeepsAuthIInv ==
  ASSUME AuthIInv, InsertsPrompt, Advance, UNCHANGED <<oauthVars, serviceVars>>
  PROVE  AuthIInv'
<1>1. now \in Nat /\ now' \in Nat /\ now <= now' /\ now' <= MaxNow
  BY WallClockAssumption DEF AuthIInv, ServiceIInv, KeysDated, Advance
<1>2. LoginIInv'
  BY <1>1, ElsewhereKeepsIInv DEF AuthIInv, OAuthIInv, oauthVars
<1>3. StateIInv'
  BY ClockKeepsState DEF AuthIInv, OAuthIInv
<1>4. SessionsBounded' /\ Advertised'
  BY DEF AuthIInv, OAuthIInv, SessionsBounded, Advertised, PublishFormed, oauthVars
<1>5. ServiceIInv'
  BY <1>1, ClockKeepsServiceIInv DEF AuthIInv
<1>6. ServiceBounds'
  BY DEF AuthIInv, ServiceBounds, Serving, serviceVars
<1> QED BY <1>2, <1>3, <1>4, <1>5, <1>6 DEF AuthIInv, OAuthIInv

LEMMA StutterKeepsAuthIInv ==
  ASSUME AuthIInv, UNCHANGED vars PROVE AuthIInv'
<1>1. /\ UNCHANGED <<now, oauthVars, serviceVars>> /\ now \in Nat /\ now <= MaxNow
  BY DEF vars, AuthIInv, ServiceIInv, KeysDated
<1>2. LoginIInv'
  BY <1>1, ElsewhereKeepsIInv DEF AuthIInv, OAuthIInv, oauthVars
<1>3. StateIInv'
  <2>1. callback' \in [Callbacks -> CallbackRecords]
    BY <1>2 DEF LoginIInv, LoginsTyped
  <2> QED BY <1>1, <2>1, LaterStepsKeepState DEF AuthIInv, OAuthIInv, oauthVars
<1>4. SessionsBounded' /\ Advertised'
  BY <1>1 DEF AuthIInv, OAuthIInv, SessionsBounded, Advertised, PublishFormed, oauthVars
<1>5. ServiceIInv'
  BY <1>1, ClockKeepsServiceIInv DEF AuthIInv
<1>6. ServiceBounds'
  BY <1>1 DEF AuthIInv, ServiceBounds, Serving, serviceVars
<1> QED BY <1>2, <1>3, <1>4, <1>5, <1>6 DEF AuthIInv, OAuthIInv

LEMMA AuthIInvHolds == Spec => []AuthIInv
<1>1. AuthIInv /\ [Next]_vars => AuthIInv'
  <2> SUFFICES ASSUME AuthIInv, [Next]_vars PROVE AuthIInv'
    OBVIOUS
  <2>1. CASE part = "oauth" /\ OAuthNext /\ UNCHANGED <<part, serviceVars>>
    BY <2>1, OAuthKeepsAuthIInv
  <2>2. CASE part = "service" /\ ServiceNext /\ UNCHANGED <<part, oauthVars>>
    BY <2>2, ServiceKeepsAuthIInv
  <2>3. CASE InsertsPrompt /\ Advance /\ UNCHANGED <<part, oauthVars, serviceVars>>
    BY <2>3, ClockKeepsAuthIInv
  <2>4. CASE UNCHANGED vars
    BY <2>4, StutterKeepsAuthIInv
  <2> QED BY <2>1, <2>2, <2>3, <2>4 DEF Next
<1> QED BY <1>1, InitAuthIInv, PTL DEF Spec

(* The stores never exceed their caps, whatever is begun and left; what is *)
(* advertised is the administrator's or was given; in_flight counts the    *)
(* requests being served.                                                  *)
THEOREM AuthTyped == Spec => []TypeOK
<1>1. AuthIInv => TypeOK
  BY StoresTyped, BoundsTyped DEF AuthIInv, OAuthIInv, TypeOK
<1> QED BY <1>1, AuthIInvHolds, PTL

(* A login ends in one session token at most, for the account it was begun *)
(* for, however often its callback is sent and whatever restarts.          *)
THEOREM OneTokenAtMost == Spec => []OneTokenPerLogin
<1>1. AuthIInv => OneTokenPerLogin
  BY IInvOneToken DEF AuthIInv, OAuthIInv
<1> QED BY <1>1, AuthIInvHolds, PTL

(* A browser that comes back in time finds its login, unless as many       *)
(* others as a shard holds were begun around it.                           *)
THEOREM LoginSurvives == Spec => []LoginsSurvive
<1>1. AuthIInv => LoginsSurvive
  BY StateIInvSurvive DEF AuthIInv, OAuthIInv
<1> QED BY <1>1, AuthIInvHolds, PTL

(* A signature is checked with a key that was published at most the TTL    *)
(* before the request read the clock, whatever rotations and evictions     *)
(* come between the resolution, the insertion and the check.               *)
THEOREM KeyIsRecent == Spec => []KeyRecentlyPublished
<1>1. AuthIInv => KeyRecentlyPublished
  BY IInvKeyRecent DEF AuthIInv
<1> QED BY <1>1, AuthIInvHolds, PTL
=============================================================================
