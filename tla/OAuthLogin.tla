----------------------------- MODULE OAuthLogin -----------------------------
(***************************************************************************)
(* Signing in on the dashboard and publishing the feed.  A login stores a  *)
(* state under a fresh nonce and sends the browser to the authorization    *)
(* server; the callback takes the state, exchanges the code and stores the *)
(* account's OAuth session; a publish writes a record with that session    *)
(* and may change the advertised feed URI.  Each awaits remote servers     *)
(* between these steps.  One shard of each store is modelled, the bounded  *)
(* maps in which the requests of this module meet.                         *)
(***************************************************************************)
EXTENDS WallClock, FiniteSets, Functions

CONSTANTS
  Logins,           \* login attempts; each stands for its nonce, verifier and DPoP key
  Accounts,         \* DIDs
  Issuers,          \* authorization servers
  IssuerOf,         \* IssuerOf[a]: the origin of a's PDS and token endpoint
  Callbacks,        \* callback requests; a browser may send its own twice
  Publishes,        \* publish requests
  Rkeys,
  Configs,          \* the settings considered: [admin, explicit]
  StateTTL,         \* DEFAULT_OAUTH_STATE_TTL_SECS
  MaxStates,        \* MAX_OAUTH_STATES_PER_SHARD
  MaxUserSessions,  \* MAX_USER_SESSIONS_PER_SHARD
  TokenLives        \* values of expires_in

ASSUME OAuthLoginAssumption ==
  /\ IsFiniteSet(Logins)
  /\ StateTTL \in Nat /\ MaxStates \in Nat \ {0} /\ MaxUserSessions \in Nat \ {0}
  /\ IssuerOf \in [Accounts -> Issuers] /\ TokenLives \subseteq Nat

Nobody == "nobody"       \* no admin_did
NoIssuer == "no iss"     \* a callback without iss
NoSubject == "no sub"    \* a token answer without sub
ConfiguredUri == <<>>    \* the URI the process started with
EmptyDid == ""           \* what an answer with an empty sub leaves in place of the DID

ASSUME EmptyDidAssumption == EmptyDid \notin Accounts   \* is_valid_did

VARIABLES
  config,
  login,     \* login[l]: phase, resolved DID, created_at_secs
  pending,   \* OAuthStateStore: l :> created_at_secs
  callback,  \* callback[c]
  sessions,  \* OAuthUserSessionStore: did :> [login, owner of the tokens, expires]
  minted,    \* session tokens browsers hold: [login, did]; good for thirty days
  publish,   \* publish[p]
  records,   \* <<did, rkey>> of the generator records in the accounts' repositories
  feedUri    \* AppState::feed_uri

oauthVars == <<config, login, pending, callback, sessions, minted, publish, records, feedUri>>

NoLogin == [phase |-> "idle", did |-> Nobody, at |-> 0]
NoCallback == [phase |-> "idle", login |-> {}, did |-> Nobody, expires |-> 0]
NoPublish == [phase |-> "idle", did |-> Nobody, rkey |-> Nobody, session |-> {}]

OAuthInit ==
  /\ config \in Configs
  /\ login = [l \in Logins |-> NoLogin]
  /\ pending = <<>>
  /\ callback = [c \in Callbacks |-> NoCallback]
  /\ sessions = <<>>
  /\ minted = {}
  /\ publish = [p \in Publishes |-> NoPublish]
  /\ records = {}
  /\ feedUri = ConfiguredUri

(***************************************************************************)
(* The login request.                                                      *)
(***************************************************************************)

(* resolve_identity_pds has answered; the handler reads the clock.         *)
Resolve(l, a) ==
  /\ login[l].phase = "idle"
  /\ login' = [login EXCEPT ![l] = [phase |-> "resolved", did |-> a, at |-> now]]
  /\ UNCHANGED <<now, config, pending, callback, sessions, minted, publish, records, feedUri>>

(* The handle or DID document cannot be resolved, or the redirect URI is   *)
(* not allowed: nothing was stored.                                        *)
ResolveFails(l) ==
  /\ login[l].phase = "idle"
  /\ login' = [login EXCEPT ![l].phase = "rejected"]
  /\ UNCHANGED <<now, config, pending, callback, sessions, minted, publish, records, feedUri>>

\* Mutant: room is made one entry too early.
KeptStatesEarly(at) ==
  IF Cardinality(DOMAIN pending) < MaxStates - 1 THEN {DOMAIN pending}
  ELSE LET live == {l \in DOMAIN pending : at <= pending[l] + StateTTL} IN
       IF Cardinality(live) < MaxStates - 1 THEN {live}
       ELSE {live \ {l} : l \in {k \in live : \A j \in live : pending[k] <= pending[j]}}

(* Which states stay when one made at time "at" comes: all below the cap;  *)
(* else what is not expired by then, less an oldest one if still full.     *)
KeptStates(at) ==
  IF Cardinality(DOMAIN pending) < MaxStates THEN {DOMAIN pending}
  ELSE LET live == {l \in DOMAIN pending : at <= pending[l] + StateTTL} IN
       IF Cardinality(live) < MaxStates THEN {live}
       ELSE {live \ {l} : l \in {k \in live : \A j \in live : pending[k] <= pending[j]}}

(* Nothing is awaited between the clock and the insertion: the TTL does    *)
(* not pass in between.                                                    *)
InsertsPrompt == \A l \in Logins : login[l].phase = "resolved" => now < login[l].at + StateTTL

(* OAuthStateStore::insert.                                                *)
InsertState(l) ==
  /\ login[l].phase = "resolved"
  /\ \E kept \in KeptStates(login[l].at) :
       pending' = [k \in kept \union {l} |-> IF k = l THEN login[l].at ELSE pending[k]]
  /\ login' = [login EXCEPT ![l].phase = "par"]
  /\ UNCHANGED <<now, config, callback, sessions, minted, publish, records, feedUri>>

(* The pushed authorization request, with its one retry.  When it fails    *)
(* and the server requires it the browser gets an error; the state stays.  *)
PushRequest(l) ==
  /\ login[l].phase = "par"
  /\ \E phase \in {"open", "failed"} : login' = [login EXCEPT ![l].phase = phase]
  /\ UNCHANGED <<now, config, pending, callback, sessions, minted, publish, records, feedUri>>

(***************************************************************************)
(* The callback.                                                           *)
(***************************************************************************)

\* Mutant: the state is read (get) and stays in the store.
TakeCopies(l) == pending

(* OAuthStateStore::take.                                                  *)
Take(l) == [k \in DOMAIN pending \ {l} |-> pending[k]]

MatchesIssuer(l, iss) == iss = IssuerOf[login[l].did]

(* Only a state that is there, not expired and of the issuer that answers  *)
(* is exchanged; it is used up in any case.                                *)
Callback(c, l, iss) ==
  /\ callback[c].phase = "idle"
  /\ login[l].phase \in {"open", "lost"}
  /\ callback' = [callback EXCEPT ![c] =
       [NoCallback EXCEPT !.login = {l},
          !.phase = IF /\ l \in DOMAIN pending
                       /\ now <= pending[l] + StateTTL
                       /\ iss = NoIssuer \/ MatchesIssuer(l, iss)
                    THEN "exchange" ELSE "refused"]]
  /\ pending' = Take(l)
  /\ UNCHANGED <<now, config, login, sessions, minted, publish, records, feedUri>>

LoginOf(c) == CHOOSE l \in Logins : callback[c].login = {l}

\* Mutant: the subject of the answer is not compared.
SubjectAny(expected, sub) == IF sub = NoSubject THEN expected ELSE sub

(* The DID the session is for, Nobody when the answer is for another one   *)
(* than expected.  A missing claim falls back on the expected DID; an      *)
(* empty one is not compared, and taken as it is.                          *)
Subject(expected, sub) ==
  CASE sub = NoSubject -> expected
    [] sub \in {expected, EmptyDid} -> sub
    [] OTHER -> Nobody

(* What a token endpoint may put into sub.                                 *)
Subjects == Accounts \union {NoSubject, EmptyDid}

(* exchange_oauth_code: the user may have chosen another account of the    *)
(* same server.  (A server that names no subject answers for the account   *)
(* it was asked for.)                                                      *)
Exchange(c, sub, life) ==
  /\ callback[c].phase = "exchange"
  /\ LET expected == login[LoginOf(c)].did
         did == Subject(expected, sub)
     IN /\ sub \in Accounts => IssuerOf[sub] = IssuerOf[expected]
        /\ callback' = [callback EXCEPT ![c] =
             IF did = Nobody THEN [@ EXCEPT !.phase = "refused"]
             ELSE [@ EXCEPT !.phase = "store", !.did = did, !.expires = now + life]]
  /\ UNCHANGED <<now, config, login, pending, sessions, minted, publish, records, feedUri>>

(* The token endpoint is not reached, refuses, or answers no JSON.         *)
ExchangeFails(c) ==
  /\ callback[c].phase = "exchange"
  /\ callback' = [callback EXCEPT ![c].phase = "refused"]
  /\ UNCHANGED <<now, config, login, pending, sessions, minted, publish, records, feedUri>>

(* OAuthUserSessionStore::insert makes room like the state store, for an   *)
(* account without a session.                                              *)
KeptSessions(a) ==
  IF a \in DOMAIN sessions \/ Cardinality(DOMAIN sessions) < MaxUserSessions
  THEN {DOMAIN sessions}
  ELSE LET live == {b \in DOMAIN sessions : sessions[b].expires > now} IN
       IF Cardinality(live) < MaxUserSessions THEN {live}
       ELSE {live \ {b} : b \in {k \in live : \A j \in live : sessions[k].expires <= sessions[j].expires}}

(* The session is stored, the browser gets its session token.              *)
StoreSession(c) ==
  /\ callback[c].phase = "store"
  /\ LET a == callback[c].did
         owner == IF a = EmptyDid THEN login[LoginOf(c)].did ELSE a
         fresh == [login |-> LoginOf(c), owner |-> owner, expires |-> callback[c].expires]
     IN /\ \E kept \in KeptSessions(a) :
             sessions' = [b \in kept \union {a} |-> IF b = a THEN fresh ELSE sessions[b]]
        /\ minted' = minted \union {[callback |-> c, login |-> LoginOf(c), did |-> a]}
  /\ callback' = [callback EXCEPT ![c].phase = "done"]
  /\ UNCHANGED <<now, config, login, pending, publish, records, feedUri>>

(***************************************************************************)
(* Publishing.                                                             *)
(***************************************************************************)

(* A browser's token names the publisher (one for EmptyDid is refused: no  *)
(* valid DID); a configured administrator is the only one let through.     *)
(* get_active picks the session.                                           *)
Publish(p, a, rkey) ==
  /\ publish[p].phase = "idle"
  /\ \E t \in minted : t.did = a
  /\ LET active == {sessions[b] : b \in {x \in DOMAIN sessions : x = a /\ sessions[x].expires > now}}
     IN publish' = [publish EXCEPT ![p] =
          IF config.admin \notin {Nobody, a} THEN [NoPublish EXCEPT !.phase = "refused"]
          ELSE [phase |-> "write", did |-> a, rkey |-> rkey, session |-> active]]
  /\ UNCHANGED <<now, config, login, pending, callback, sessions, minted, records, feedUri>>

(* putRecord.  With a session its tokens must be the account's and alive;  *)
(* without one an app password may do (the session token, sent as a last   *)
(* resort, is none the PDS has issued).                                    *)
PutRecord(p) ==
  /\ publish[p].phase = "write"
  /\ \A s \in publish[p].session : s.owner = publish[p].did /\ s.expires > now
  /\ records' = records \union {<<publish[p].did, publish[p].rkey>>}
  /\ publish' = [publish EXCEPT ![p].phase = "answer"]
  /\ UNCHANGED <<now, config, login, pending, callback, sessions, minted, feedUri>>

PutRecordFails(p) ==
  /\ publish[p].phase = "write"
  /\ publish' = [publish EXCEPT ![p].phase = "refused"]
  /\ UNCHANGED <<now, config, login, pending, callback, sessions, minted, records, feedUri>>

\* Mutant: whoever publishes is advertised.
PublishedByAnyone(p) ==
  /\ publish[p].phase = "answer"
  /\ feedUri' = IF ~config.explicit THEN <<publish[p].did, publish[p].rkey>> ELSE feedUri
  /\ publish' = [publish EXCEPT ![p].phase = "done"]
  /\ UNCHANGED <<now, config, login, pending, callback, sessions, minted, records>>

(* The response is back: the administrator's record is advertised, unless  *)
(* FEED_URI was given.                                                     *)
Published(p) ==
  /\ publish[p].phase = "answer"
  /\ feedUri' = IF ~config.explicit /\ config.admin = publish[p].did
                THEN <<publish[p].did, publish[p].rkey>> ELSE feedUri
  /\ publish' = [publish EXCEPT ![p].phase = "done"]
  /\ UNCHANGED <<now, config, login, pending, callback, sessions, minted, records>>

(***************************************************************************)
(* Maintenance, and a restart: both stores are in memory only.             *)
(***************************************************************************)

PruneStores ==
  /\ pending' = [l \in {k \in DOMAIN pending : now <= pending[k] + StateTTL} |-> pending[l]]
  /\ sessions' = [a \in {b \in DOMAIN sessions : sessions[b].expires > now} |-> sessions[a]]
  /\ UNCHANGED <<now, config, login, callback, minted, publish, records, feedUri>>

Interrupted(r) == IF r.phase = "idle" THEN r ELSE [r EXCEPT !.phase = "done"]

RestartServer ==
  /\ pending' = <<>> /\ sessions' = <<>> /\ feedUri' = ConfiguredUri
  /\ login' = [l \in Logins |-> IF login[l].phase = "idle" THEN login[l]
                                ELSE [login[l] EXCEPT !.phase = "lost"]]
  /\ callback' = [c \in Callbacks |-> Interrupted(callback[c])]
  /\ publish' = [p \in Publishes |-> Interrupted(publish[p])]
  /\ UNCHANGED <<now, config, minted, records>>

OAuthNext ==
  \/ \E l \in Logins :
       \/ \E a \in Accounts : Resolve(l, a)
       \/ ResolveFails(l) \/ InsertState(l) \/ PushRequest(l)
       \/ \E c \in Callbacks, iss \in Issuers \union {NoIssuer} : Callback(c, l, iss)
  \/ \E c \in Callbacks :
       \/ \E sub \in Subjects, life \in TokenLives : Exchange(c, sub, life)
       \/ ExchangeFails(c) \/ StoreSession(c)
  \/ \E p \in Publishes :
       \/ \E a \in Accounts, rkey \in Rkeys : Publish(p, a, rkey)
       \/ PutRecord(p) \/ PutRecordFails(p) \/ Published(p)
  \/ PruneStores \/ RestartServer

(***************************************************************************)
(* Properties.                                                             *)
(***************************************************************************)

(* The stores keep to their caps, whatever has been started and left; what *)
(* is advertised is the configured URI or a record the administrator did   *)
(* write, and FEED_URI is never replaced (handle_post_feed_publish).       *)
OAuthTypeOK ==
  /\ config \in Configs
  /\ DOMAIN pending \subseteq Logins /\ Cardinality(DOMAIN pending) <= MaxStates
  /\ \A l \in DOMAIN pending : pending[l] \in 0..MaxNow
  /\ DOMAIN sessions \subseteq Accounts \union {EmptyDid} /\ Cardinality(DOMAIN sessions) <= MaxUserSessions
  /\ \/ feedUri = ConfiguredUri
     \/ feedUri \in records /\ feedUri[1] = config.admin /\ ~config.explicit

(* A login ends in one session token at most, however often its callback   *)
(* is sent (the take in handle_post_oauth_callback), and neither it nor    *)
(* the OAuth session is ever another account's than the one the login was  *)
(* begun for, even when the user picked another one at the authorization   *)
(* server (exchange_oauth_code).  They may be nobody's, though: for the    *)
(* empty DID of an answer with an empty subject.                           *)
OneTokenPerLogin ==
  /\ \A s, t \in minted : s.login = t.login => s = t
  /\ \A t \in minted : t.did \in {login[t.login].did, EmptyDid}
  /\ \A a \in DOMAIN sessions :
       LET begunFor == login[sessions[a].login].did
       IN a \in {begunFor, EmptyDid} /\ sessions[a].owner = begunFor

(* What the CHANGELOG says of the subject, "sub == session_state.did",     *)
(* enforced: every token is for the account its login was begun for.       *)
TokenForItsAccount == \A t \in minted : t.did = login[t.login].did

(* A login whose browser comes back in time finds its state, unless it was *)
(* used, the process restarted, or as many other logins as the shard holds *)
(* were begun since, or in the TTL before it (OAuthStateStore::insert).    *)
Around(l) ==
  {k \in Logins \ {l} : /\ login[k].phase \in {"par", "open", "failed"}
                        /\ login[l].at <= login[k].at + StateTTL}

LoginsSurvive ==
  \A l \in Logins :
    /\ login[l].phase = "open" /\ now <= login[l].at + StateTTL
    /\ \A c \in Callbacks : callback[c].login # {l}
    /\ Cardinality(Around(l)) < MaxStates
    => l \in DOMAIN pending

=============================================================================
