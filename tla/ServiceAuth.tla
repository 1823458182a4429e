----------------------------- MODULE ServiceAuth -----------------------------
(***************************************************************************)
(* Service tokens of the AppView (SERVICE_AUTH_MODE=enforce).  A feed      *)
(* request reads the clock, looks the issuer's key up in the cache, or     *)
(* resolves the DID document and caches its key, checks the signature and  *)
(* is served as the issuer or as nobody.  Account holders rotate their     *)
(* keys meanwhile.  The tracker of active users counts the requests.       *)
(***************************************************************************)
EXTENDS WallClock, FiniteSets, Sequences, Functions

CONSTANTS
  Requests,
  Dids,
  CurveOf,      \* CurveOf[d]: the curves of d's signing keys, oldest first
  KeyTTL,       \* DID_KEY_CACHE_TTL_SECS
  MaxKeys,      \* MAX_DID_KEY_CACHE_PER_SHARD, of the one shard modelled
  MaxServed     \* bound: requests of a connection

ASSUME ServiceAuthAssumption ==
  /\ KeyTTL \in Nat /\ MaxKeys \in Nat \ {0}
  /\ \A d \in Dids : CurveOf[d] \in Seq({"ES256", "ES256K"}) /\ CurveOf[d] # <<>>

AnonymousViewer == "anonymous"
NoKey == 0   \* who signed a token whose signature no key of the account has made

VARIABLES
  current,    \* current[d]: which of d's keys its DID document publishes
  retired,    \* history variable: retired[d][k]: when key k was replaced
  cache,      \* DidKeyCache: d :> [key, at]
  request,    \* request[r]
  inFlight    \* ActiveUsersTracker::in_flight

serviceVars == <<current, retired, cache, request, inFlight>>

NoRequest == [phase |-> "idle", did |-> AnonymousViewer, signer |-> 0, at |-> 0, key |-> 0, served |-> 0]

ServiceInit ==
  /\ current = [d \in Dids |-> 1]
  /\ retired = [d \in Dids |-> [k \in DOMAIN CurveOf[d] |-> MaxNow + 1]]
  /\ cache = <<>>
  /\ request = [r \in Requests |-> NoRequest]
  /\ inFlight = 0

(* DidKeyCache::get_atproto_key, with the clock of the request.            *)
Fresh(d, at) == d \in DOMAIN cache /\ at < cache[d].at + KeyTTL

(* verify_service_jwt begins; the token may have been signed just before   *)
(* a rotation, or its signature may be broken.                             *)
Arrive(r, d, signer) ==
  /\ request[r].phase = "idle" /\ request[r].served < MaxServed
  /\ signer \in {current[d], current[d] - 1, NoKey}
  /\ request' = [request EXCEPT ![r] =
       [phase |-> IF Fresh(d, now) THEN "verify" ELSE "resolve", did |-> d, signer |-> signer,
        at |-> now, key |-> IF Fresh(d, now) THEN cache[d].key ELSE 0,
        served |-> @.served + 1]]
  /\ UNCHANGED <<now, current, retired, cache, inFlight>>

(* No token, or one that is malformed: nobody's request.                   *)
ArriveAnonymous(r) ==
  /\ request[r].phase = "idle" /\ request[r].served < MaxServed
  /\ request' = [request EXCEPT ![r] = [NoRequest EXCEPT !.phase = "track", !.served = request[r].served + 1]]
  /\ UNCHANGED <<now, current, retired, cache, inFlight>>

(* The DID document arrives.                                               *)
ResolveKey(r) ==
  /\ request[r].phase = "resolve"
  /\ request' = [request EXCEPT ![r].phase = "insert", ![r].key = current[request[r].did]]
  /\ UNCHANGED <<now, current, retired, cache, inFlight>>

(* A request goes on to be served, as a viewer or, when refused, as nobody. *)
ServedAs(r, viewer) == [request EXCEPT ![r] = [NoRequest EXCEPT !.phase = "track", !.did = viewer,
                                                                !.served = request[r].served]]

ResolveKeyFails(r) ==
  /\ request[r].phase = "resolve"
  /\ request' = ServedAs(r, AnonymousViewer)
  /\ UNCHANGED <<now, current, retired, cache, inFlight>>

\* Mutant: the entry is dated by the clock, not by the request.
CachedNow(r) ==
  /\ request[r].phase = "insert"
  /\ LET d == request[r].did
         full == d \notin DOMAIN cache /\ Cardinality(DOMAIN cache) >= MaxKeys
     IN \E victims \in IF full THEN {{e} : e \in DOMAIN cache} ELSE {{}} :
          cache' = [e \in (DOMAIN cache \ victims) \union {d} |->
                      IF e = d THEN [key |-> request[r].key, at |-> now] ELSE cache[e]]
  /\ request' = [request EXCEPT ![r].phase = "verify"]
  /\ UNCHANGED <<now, current, retired, inFlight>>

(* insert_atproto_key, dated by the clock the request read.                *)
Cached(r) ==
  /\ request[r].phase = "insert"
  /\ LET d == request[r].did
         full == d \notin DOMAIN cache /\ Cardinality(DOMAIN cache) >= MaxKeys
     IN \E victims \in IF full THEN {{e} : e \in DOMAIN cache} ELSE {{}} :
          cache' = [e \in (DOMAIN cache \ victims) \union {d} |->
                      IF e = d THEN [key |-> request[r].key, at |-> request[r].at] ELSE cache[e]]
  /\ request' = [request EXCEPT ![r].phase = "verify"]
  /\ UNCHANGED <<now, current, retired, inFlight>>

(* A token names the algorithm of its signer's curve; a broken one, any.   *)
SameCurve(r) ==
  request[r].signer # NoKey =>
    CurveOf[request[r].did][request[r].key] = CurveOf[request[r].did][request[r].signer]

(* The key is for the other algorithm, or the signature is not of the form *)
(* the algorithm has: refused before it is checked.                        *)
WrongAlgorithm(r) ==
  /\ request[r].phase = "verify" /\ (SameCurve(r) => request[r].signer = NoKey)
  /\ request' = ServedAs(r, AnonymousViewer)
  /\ UNCHANGED <<now, current, retired, cache, inFlight>>

(* The signature is of another key: the issuer's cached key is dropped,    *)
(* whichever it is by now.                                                 *)
BadSignature(r) ==
  /\ request[r].phase = "verify" /\ SameCurve(r) /\ request[r].key # request[r].signer
  /\ cache' = [e \in DOMAIN cache \ {request[r].did} |-> cache[e]]
  /\ request' = ServedAs(r, AnonymousViewer)
  /\ UNCHANGED <<now, current, retired, inFlight>>

(* The signature holds; expiry and audience may still be wrong.            *)
GoodSignature(r) ==
  /\ request[r].phase = "verify" /\ request[r].key = request[r].signer
  /\ \E viewer \in {request[r].did, AnonymousViewer} : request' = ServedAs(r, viewer)
  /\ UNCHANGED <<now, current, retired, cache, inFlight>>

(* track_request, then the feed is composed.  (The timestamps of the       *)
(* tracker, which only telemetry reads, are left out.)                     *)
Track(r) ==
  /\ request[r].phase = "track"
  /\ inFlight' = inFlight + 1
  /\ request' = [request EXCEPT ![r].phase = "serve"]
  /\ UNCHANGED <<now, current, retired, cache>>

\* Mutant: a client that leaves keeps its place.
DropLeaks(r) ==
  /\ request[r].phase # "idle"
  /\ inFlight' = inFlight
  /\ request' = [request EXCEPT ![r] = [NoRequest EXCEPT !.served = request[r].served]]
  /\ UNCHANGED <<now, current, retired, cache>>

(* The answer is sent, or the client is gone and the request dropped where *)
(* it is: the guard gives its place back.                                  *)
Drop(r) ==
  /\ request[r].phase # "idle"
  /\ inFlight' = IF request[r].phase = "serve" /\ inFlight > 0 THEN inFlight - 1 ELSE inFlight
  /\ request' = [request EXCEPT ![r] = [NoRequest EXCEPT !.served = request[r].served]]
  /\ UNCHANGED <<now, current, retired, cache>>

(* The holder of d rotates the signing key.                                *)
Rotate(d) ==
  /\ current[d] < Len(CurveOf[d])
  /\ current' = [current EXCEPT ![d] = @ + 1]
  /\ retired' = [retired EXCEPT ![d][current[d]] = now]
  /\ UNCHANGED <<now, cache, request, inFlight>>

ServiceNext ==
  \/ \E r \in Requests :
       \/ \E d \in Dids : \E k \in DOMAIN CurveOf[d] \union {NoKey} : Arrive(r, d, k)
       \/ ArriveAnonymous(r) \/ ResolveKey(r) \/ ResolveKeyFails(r) \/ Cached(r)
       \/ WrongAlgorithm(r) \/ BadSignature(r) \/ GoodSignature(r) \/ Track(r) \/ Drop(r)
  \/ \E d \in Dids : Rotate(d)

ServiceSpec == now = 0 /\ ServiceInit /\ [][ServiceNext \/ (Advance /\ UNCHANGED serviceVars)]_<<now, serviceVars>>

(***************************************************************************)
(* Properties.                                                             *)
(***************************************************************************)

(* The cache keeps to its cap, and in_flight counts the requests that are  *)
(* being served, also when clients leave.                                  *)
ServiceTypeOK ==
  /\ DOMAIN cache \subseteq Dids /\ Cardinality(DOMAIN cache) <= MaxKeys
  /\ \A d \in DOMAIN cache : cache[d].key \in DOMAIN CurveOf[d] /\ cache[d].at \in 0..now
  /\ inFlight = Cardinality({r \in Requests : request[r].phase = "serve"})

(* A signature is checked with a key that the DID document published at    *)
(* some moment after the request's own clock less the TTL, however slow    *)
(* the resolution was that cached it (resolve_atproto_key).                *)
KeyRecentlyPublished ==
  \A r \in Requests :
    request[r].phase = "verify" =>
      request[r].at <= retired[request[r].did][request[r].key] + KeyTTL

(* What the module documentation says of rotation: a token signed with the *)
(* key now published may be refused for a cached one, but then the next    *)
(* attempt resolves the document again (verify_service_jwt).               *)
RefusedForStaleKey(r) ==
  /\ request[r].phase = "verify" /\ request'[r].phase = "track"
  /\ request[r].signer = current[request[r].did] /\ request[r].key # request[r].signer

NextAttemptResolves ==
  [][\A r \in Requests :
       RefusedForStaleKey(r) =>
         \A d \in DOMAIN cache' : d = request[r].did => cache'[d].key = current[d]]_<<now, serviceVars>>

=============================================================================
