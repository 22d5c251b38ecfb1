------------------------------ MODULE Verifier -----------------------------
(***************************************************************************)
(* The signing keys of the OIDC issuer and the verifier's cache of them    *)
(* (internal/auth).  A request whose key is cached and fresh is decided at *)
(* once; any other request waits for refreshMu, fetches the discovery and  *)
(* key documents unless somebody did so lately, and looks again.           *)
(* A token is its key id: the rest of it is taken to be valid.             *)
(***************************************************************************)
EXTENDS Naturals

CONSTANTS
    Keys,             \* key ids; an issuer does not use one twice
    FirstKey,         \* the key published from the start
    Requests,         \* requests being authenticated
    None,             \* no key, no request
    RefreshInterval,  \* cfg.RefreshInterval
    UnknownDelay,     \* unknownKeyRefreshDelay
    HTTPTimeout,      \* cfg.HTTPTimeout
    MaxTime           \* bound on the clock

ASSUME VerifierAssumption ==
    /\ None \notin Keys \cup Requests
    /\ FirstKey \in Keys
    /\ RefreshInterval \in Nat \ {0}
    /\ UnknownDelay \in Nat \ {0}
    /\ HTTPTimeout \in Nat \ {0}
    /\ MaxTime \in Nat

VARIABLES
    now,          \* the clock
    since,        \* Keys -> when the issuer published the key
    until,        \* Keys -> when the issuer withdrew it
    cached,       \* the key document v.keys was made from
    lastRefresh,  \* v.lastRefresh
    refreshMu,    \* the request that holds the mutex
    req           \* Requests -> its token's key and where it is

vars == <<now, since, until, cached, lastRefresh, refreshMu, req>>
issuerVars == <<since, until>>

Never == MaxTime + 1

(* A key document, as the changes of the issuer's key set it reflects.     *)
Documents == SUBSET (Keys \X {"published", "withdrawn"})

Document == {<<k, "published">> : k \in {j \in Keys : since[j] # Never}}
              \cup {<<k, "withdrawn">> : k \in {j \in Keys : until[j] # Never}}

(* parseKeySet: the keys a document lists.  None is an error.              *)
parseKeySet(d) == {k \in Keys : <<k, "published">> \in d /\ <<k, "withdrawn">> \notin d}

Idle == [pc |-> "idle", kid |-> None, found |-> FALSE, began |-> 0, sent |-> 0, doc |-> {}]

Fetching == {"discovery", "jwks", "install"}
Decided == {"accepted", "untrusted", "failed"}

TypeOK ==
    /\ now \in 0 .. MaxTime
    /\ since \in [Keys -> 0 .. Never] /\ until \in [Keys -> 0 .. Never]
    /\ cached \in Documents /\ parseKeySet(cached) # {}
    /\ lastRefresh \in 0 .. now
    /\ refreshMu \in Requests \cup {None}
    /\ req \in [Requests -> [pc : {"idle", "lock", "again"} \cup Fetching \cup Decided,
                             kid : Keys \cup {None}, found : BOOLEAN,
                             began : 0 .. MaxTime, sent : 0 .. MaxTime, doc : Documents]]

(* New fetches the keys before the server starts.                          *)
Init ==
    /\ now = 0
    /\ since = [k \in Keys |-> IF k = FirstKey THEN 0 ELSE Never]
    /\ until = [k \in Keys |-> Never]
    /\ cached = Document
    /\ lastRefresh = 0
    /\ refreshMu = None
    /\ req = [r \in Requests |-> Idle]

---------------------------------------------------------------------------
(* The issuer and the clock.                                               *)

Publish(k) ==
    /\ since[k] = Never
    /\ since' = [since EXCEPT ![k] = now]
    /\ UNCHANGED <<now, until, cached, lastRefresh, refreshMu, req>>

Withdraw(k) ==
    /\ since[k] # Never
    /\ until[k] = Never
    /\ until' = [until EXCEPT ![k] = now]
    /\ UNCHANGED <<now, since, cached, lastRefresh, refreshMu, req>>

(* The HTTP client gives up after its timeout; answering takes no time.    *)
Tick ==
    /\ now < MaxTime
    /\ \A r \in Requests : req[r].pc \notin Decided
    /\ \A r \in Requests : req[r].pc \in Fetching => now < req[r].sent + HTTPTimeout
    /\ now' = now + 1
    /\ UNCHANGED <<issuerVars, cached, lastRefresh, refreshMu, req>>

---------------------------------------------------------------------------
(* Requests.                                                               *)

Goto(r, l) == req' = [req EXCEPT ![r].pc = l]

Age == now - lastRefresh

(* Variant: a cached key is used however old the document is.              *)
keyForTokenCached(r, k) ==
    LET found == k \in parseKeySet(cached)
    IN  /\ req[r].pc = "idle"
        /\ req' = [req EXCEPT ![r] = [Idle EXCEPT
                     !.kid = k, !.found = found, !.began = now,
                     !.pc = IF found THEN "accepted" ELSE "lock"]]
        /\ UNCHANGED <<now, issuerVars, cached, lastRefresh, refreshMu>>

(* keyForToken: a cached key of a fresh document is used at once.          *)
keyForToken(r, k) ==
    LET found == k \in parseKeySet(cached)
    IN  /\ req[r].pc = "idle"
        /\ req' = [req EXCEPT ![r] = [Idle EXCEPT
                     !.kid = k, !.found = found, !.began = now,
                     !.pc = IF found /\ Age < RefreshInterval THEN "accepted" ELSE "lock"]]
        /\ UNCHANGED <<now, issuerVars, cached, lastRefresh, refreshMu>>

(* Variant: an unknown key waits for the refresh interval.                 *)
refreshIfExpired(r) ==
    /\ req[r].pc = "lock"
    /\ refreshMu = None
    /\ IF Age < RefreshInterval
       THEN Goto(r, "again") /\ UNCHANGED refreshMu
       ELSE /\ req' = [req EXCEPT ![r].pc = "discovery", ![r].sent = now]
            /\ refreshMu' = r
    /\ UNCHANGED <<now, issuerVars, cached, lastRefresh>>

(* Variant: the age is not looked at again with the mutex.                 *)
refreshAlways(r) ==
    /\ req[r].pc = "lock"
    /\ refreshMu = None
    /\ req' = [req EXCEPT ![r].pc = "discovery", ![r].sent = now]
    /\ refreshMu' = r
    /\ UNCHANGED <<now, issuerVars, cached, lastRefresh>>

(* Variant: the documents are fetched without the mutex.                   *)
refreshUnlocked(r) ==
    /\ req[r].pc = "lock"
    /\ IF Age < (IF req[r].found THEN RefreshInterval ELSE UnknownDelay)
       THEN Goto(r, "again")
       ELSE req' = [req EXCEPT ![r].pc = "discovery", ![r].sent = now]
    /\ UNCHANGED <<now, issuerVars, cached, lastRefresh, refreshMu>>

(* refreshIfAllowed: with the mutex, the age is looked at again.           *)
refreshIfAllowed(r) ==
    /\ req[r].pc = "lock"
    /\ refreshMu = None
    /\ IF Age < (IF req[r].found THEN RefreshInterval ELSE UnknownDelay)
       THEN Goto(r, "again") /\ UNCHANGED refreshMu
       ELSE /\ req' = [req EXCEPT ![r].pc = "discovery", ![r].sent = now]
            /\ refreshMu' = r
    /\ UNCHANGED <<now, issuerVars, cached, lastRefresh>>

(* A failing fetch, also one that timed out, fails the request.            *)
FetchFails(r) ==
    /\ req[r].pc \in {"discovery", "jwks"}
    /\ Goto(r, "failed")
    /\ refreshMu' = None
    /\ UNCHANGED <<now, issuerVars, cached, lastRefresh>>

FetchDiscovery(r) ==
    /\ req[r].pc = "discovery"
    /\ req' = [req EXCEPT ![r].pc = "jwks", ![r].sent = now]
    /\ UNCHANGED <<now, issuerVars, cached, lastRefresh, refreshMu>>

(* The issuer answers with its present keys.                               *)
FetchKeys(r) ==
    /\ req[r].pc = "jwks"
    /\ parseKeySet(Document) # {}
    /\ req' = [req EXCEPT ![r].pc = "install", ![r].doc = Document]
    /\ UNCHANGED <<now, issuerVars, cached, lastRefresh, refreshMu>>

(* refreshLocked, once the document has arrived.                           *)
refreshLocked(r) ==
    /\ req[r].pc = "install"
    /\ cached' = req[r].doc
    /\ lastRefresh' = now
    /\ refreshMu' = None
    /\ req' = [req EXCEPT ![r].pc = "again", ![r].doc = {}]
    /\ UNCHANGED <<now, issuerVars>>

LookAgain(r) ==
    /\ req[r].pc = "again"
    /\ Goto(r, IF req[r].kid \in parseKeySet(cached) THEN "accepted" ELSE "untrusted")
    /\ UNCHANGED <<now, issuerVars, cached, lastRefresh, refreshMu>>

Answer(r) ==
    /\ req[r].pc \in Decided
    /\ req' = [req EXCEPT ![r] = Idle]
    /\ UNCHANGED <<now, issuerVars, cached, lastRefresh, refreshMu>>

---------------------------------------------------------------------------

Verify(r) ==
    \/ refreshIfAllowed(r) \/ FetchFails(r) \/ FetchDiscovery(r) \/ FetchKeys(r)
    \/ refreshLocked(r) \/ LookAgain(r) \/ Answer(r)

Next ==
    \/ \E k \in Keys : Publish(k) \/ Withdraw(k)
    \/ Tick
    \/ \E r \in Requests : (\E k \in Keys : keyForToken(r, k)) \/ Verify(r)

Spec == Init /\ [][Next]_vars

---------------------------------------------------------------------------
(* Request r is decided with outcome o.                                    *)
Decides(r, o) == req[r].pc # o /\ req'[r].pc = o

(***************************************************************************)
(* "Maximum cached JWKS age" (config.md): a token is not accepted when its *)
(* key was withdrawn more than RefreshInterval, and the time of a fetch,   *)
(* before the request came.  Two looks at the cache, the throttle and      *)
(* other requests' refreshes lie between.                                  *)
(***************************************************************************)
WithdrawnKeysExpire ==
    [][\A r \in Requests : Decides(r, "accepted")
         => req'[r].began <= until[req'[r].kid] + RefreshInterval + HTTPTimeout]_vars

(***************************************************************************)
(* A rotated key is picked up: a token is not refused as untrusted when    *)
(* its key was published for unknownKeyRefreshDelay, and the time of a     *)
(* fetch, before the request came and has not been withdrawn.              *)
(***************************************************************************)
NewKeysAreFound ==
    [][\A r \in Requests : Decides(r, "untrusted")
         => \/ until[req[r].kid] # Never
            \/ req[r].began < since[req[r].kid] + UnknownDelay + HTTPTimeout]_vars

(***************************************************************************)
(* Refreshes are throttled: the requests that queue for the mutex do not   *)
(* each fetch the documents, because refreshIfAllowed looks at the age     *)
(* again.                                                                  *)
(***************************************************************************)
RefreshesApart ==
    [][cached' # cached \/ lastRefresh' # lastRefresh
         => \/ lastRefresh' >= lastRefresh + RefreshInterval
            \/ lastRefresh' >= lastRefresh + UnknownDelay]_vars

(***************************************************************************)
(* The cache never goes back to an older key document, although requests   *)
(* fetch and install documents concurrently.                               *)
(***************************************************************************)
NeverBackwards == [][cached \subseteq cached']_vars
============================================================================
