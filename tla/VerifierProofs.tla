--------------------------- MODULE VerifierProofs ---------------------------
(***************************************************************************)
(* What the verifier's cache promises, for any keys, requests, intervals   *)
(* and timeouts.  The times at which the issuer changed its keys are       *)
(* compared with the age of the cached document; the mutex makes the       *)
(* documents come in the order in which they were fetched.                 *)
(***************************************************************************)
EXTENDS Verifier, TLAPS

(* A request between its first look at the cache and its decision.         *)
Waiting(r) == req[r].pc \in {"lock", "again"} \cup Fetching

(* A request's record.                                                     *)
RequestType == [pc : {"idle", "lock", "again"} \cup Fetching \cup Decided,
                kid : Keys \cup {None}, found : BOOLEAN,
                began : 0 .. MaxTime, sent : 0 .. MaxTime, doc : Documents]

(* The changes a document d reflects have happened; of the others none     *)
(* happened before time t.                                                 *)
TakenSince(d, t) ==
    /\ d \subseteq Document
    /\ \A k \in Keys : /\ <<k, "published">> \notin d => t <= since[k]
                       /\ <<k, "withdrawn">> \notin d => t <= until[k]

(* The document in the cache was fetched at most HTTPTimeout before it was *)
(* installed.                                                              *)
CacheOK ==
    /\ cached \subseteq Document
    /\ \A k \in Keys : /\ <<k, "published">> \notin cached => lastRefresh <= since[k] + HTTPTimeout
                       /\ <<k, "withdrawn">> \notin cached => lastRefresh <= until[k] + HTTPTimeout

(* A request that fetches has the mutex, is within its timeout, and found  *)
(* that the cache was old enough.                                          *)
FetchOK(r) ==
    req[r].pc \in Fetching =>
        /\ refreshMu = r
        /\ req[r].sent <= now /\ now <= req[r].sent + HTTPTimeout
        /\ lastRefresh + RefreshInterval <= now \/ lastRefresh + UnknownDelay <= now

(* The document it fetched is no older than its call and than the cache.   *)
DocumentOK(r) ==
    req[r].pc = "install" => /\ TakenSince(req[r].doc, req[r].sent)
                             /\ parseKeySet(req[r].doc) # {}
                             /\ cached \subseteq req[r].doc

(* What a waiting request found, and how old the cache can be when it      *)
(* looks again.                                                            *)
LookOK(r) ==
    Waiting(r) =>
        /\ req[r].kid \in Keys
        /\ req[r].began <= now
        /\ req[r].found = TRUE => <<req[r].kid, "published">> \in cached
        /\ req[r].found = FALSE => req[r].kid \notin parseKeySet(cached) \/ req[r].began <= lastRefresh
        /\ req[r].pc = "again" =>
             \/ req[r].began <= lastRefresh
             \/ req[r].found = TRUE /\ req[r].began < lastRefresh + RefreshInterval
             \/ req[r].found = FALSE /\ req[r].began < lastRefresh + UnknownDelay

Inv ==
    /\ TypeOK
    /\ CacheOK
    /\ \A r \in Requests : FetchOK(r) /\ DocumentOK(r) /\ LookOK(r)

---------------------------------------------------------------------------
(* The issuer's key document.                                              *)

(***************************************************************************)
(* The issuer's document lists a change exactly when it has happened.      *)
(***************************************************************************)
LEMMA InDocument ==
  /\ Document \in Documents
  /\ \A k \in Keys : /\ <<k, "published">> \in Document <=> since[k] # Never
                     /\ <<k, "withdrawn">> \in Document <=> until[k] # Never
  BY DEF Document, Documents

(***************************************************************************)
(* A change of its key set stays in the issuer's document.                 *)
(***************************************************************************)
LEMMA DocumentGrows ==
  ASSUME \A k \in Keys : since[k] # Never => since'[k] # Never,
         \A k \in Keys : until[k] # Never => until'[k] # Never
  PROVE  Document \subseteq Document'
  <1>1. \A k \in Keys : since[k] # Never => <<k, "published">> \in Document'
    BY DEF Document, Never
  <1>2. \A k \in Keys : until[k] # Never => <<k, "withdrawn">> \in Document'
    BY DEF Document, Never
  <1> QED BY <1>1, <1>2 DEF Document

(***************************************************************************)
(* The times are natural numbers.                                          *)
(***************************************************************************)
LEMMA Times ==
  ASSUME TypeOK
  PROVE  /\ now \in Nat /\ lastRefresh \in Nat /\ lastRefresh <= now /\ now < Never /\ Never \in Nat
         /\ \A k \in Keys : since[k] \in Nat /\ until[k] \in Nat
         /\ \A r \in Requests : req[r].began \in Nat /\ req[r].sent \in Nat /\ req[r].found \in BOOLEAN
  BY VerifierAssumption DEF TypeOK, Never

(***************************************************************************)
(* New's fetch: the first document lists the first key.                    *)
(***************************************************************************)
LEMMA InitInv == Init => Inv
  <1> SUFFICES ASSUME Init PROVE Inv
    OBVIOUS
  <1>1. since \in [Keys -> 0 .. Never] /\ until \in [Keys -> 0 .. Never]
    BY VerifierAssumption DEF Init, Never
  <1>2. cached \in Documents /\ cached = Document
    BY InDocument DEF Init
  <1>3. FirstKey \in parseKeySet(cached)
    BY InDocument, VerifierAssumption DEF Init, parseKeySet, Never
  <1>4. TypeOK
    BY <1>1, <1>2, <1>3, VerifierAssumption DEF TypeOK, Init, Idle, Fetching, Decided, Documents
  <1>5. CacheOK
    BY <1>1, <1>2, VerifierAssumption DEF CacheOK, Init, Never
  <1>6. \A r \in Requests : req[r].pc = "idle"
    BY DEF Init, Idle
  <1> QED BY <1>4, <1>5, <1>6 DEF Inv, FetchOK, DocumentOK, LookOK, Waiting, Fetching

(***************************************************************************)
(* The issuer changes its keys: the change is later than every document    *)
(* that does not reflect it.                                               *)
(***************************************************************************)
LEMMA IssuerKeepsInv ==
  ASSUME Inv, NEW k \in Keys, Publish(k) \/ Withdraw(k) PROVE Inv'
  <1> USE DEF Inv
  <1>1. /\ UNCHANGED <<now, cached, lastRefresh, refreshMu, req>>
        /\ since' \in [Keys -> 0 .. Never] /\ until' \in [Keys -> 0 .. Never]
    <2>1. since \in [Keys -> 0 .. Never] /\ until \in [Keys -> 0 .. Never]
      BY DEF TypeOK
    <2> QED BY <2>1, Times DEF Publish, Withdraw
  <1>2. \A j \in Keys : /\ since'[j] = since[j] \/ (since[j] = Never /\ since'[j] = now)
                        /\ until'[j] = until[j] \/ (until[j] = Never /\ until'[j] = now)
    BY DEF TypeOK, Publish, Withdraw
  <1>3. TypeOK'
    BY <1>1 DEF TypeOK, Never, parseKeySet
  <1>4. Document \subseteq Document'
    <2>1. \A j \in Keys : /\ since[j] # Never => since'[j] # Never
                          /\ until[j] # Never => until'[j] # Never
      BY <1>2
    <2> QED BY <2>1, DocumentGrows
  <1>5. CacheOK'
    <2>1. cached \subseteq Document'
      BY <1>4 DEF CacheOK
    <2> QED BY <1>1, <1>2, <2>1, Times, VerifierAssumption DEF CacheOK
  <1>6. ASSUME NEW r \in Requests PROVE FetchOK(r)' /\ LookOK(r)'
    BY <1>1, Zenon DEF FetchOK, LookOK, Waiting, parseKeySet
  <1>7. ASSUME NEW r \in Requests PROVE DocumentOK(r)'
    <2> SUFFICES ASSUME req[r].pc = "install" PROVE TakenSince(req[r].doc, req[r].sent)'
      BY <1>1, Zenon DEF DocumentOK, parseKeySet
    <2>1. TakenSince(req[r].doc, req[r].sent) /\ req[r].sent <= now
      BY DEF DocumentOK, FetchOK, Fetching
    <2>2. req[r].doc \subseteq Document'
      BY <2>1, <1>4 DEF TakenSince
    <2> QED BY <1>1, <1>2, <2>1, <2>2, Times DEF TakenSince
  <1> QED BY <1>3, <1>5, <1>6, <1>7

(***************************************************************************)
(* Time passes, but not past the timeout of an HTTP call.                  *)
(***************************************************************************)
LEMMA TickKeepsInv == ASSUME Inv, Tick PROVE Inv'
  <1>1. /\ now' = now + 1 /\ now < MaxTime
        /\ UNCHANGED <<since, until, cached, lastRefresh, refreshMu, req>>
    BY DEF Tick, issuerVars
  <1>2. TypeOK'
    BY <1>1, VerifierAssumption DEF Inv, TypeOK, parseKeySet, Never
  <1>3. CacheOK'
    BY <1>1 DEF Inv, CacheOK, Document, Never
  <1>4. ASSUME NEW r \in Requests PROVE FetchOK(r)'
    BY <1>1, Times, VerifierAssumption DEF Inv, FetchOK, Tick
  <1>5. ASSUME NEW r \in Requests PROVE DocumentOK(r)'
    BY <1>1 DEF Inv, DocumentOK, TakenSince, Document, Never, parseKeySet
  <1>6. ASSUME NEW r \in Requests PROVE LookOK(r)'
    <2>1. parseKeySet(cached)' = parseKeySet(cached)
      BY <1>1 DEF parseKeySet
    <2> QED BY <1>1, <2>1, Times DEF Inv, LookOK, Waiting
  <1> QED BY <1>2, <1>3, <1>4, <1>5, <1>6 DEF Inv

---------------------------------------------------------------------------
(* The requests.                                                           *)

(***************************************************************************)
(* A step of request r that leaves the cache and the mutex alone keeps     *)
(* what is known of the others.                                            *)
(***************************************************************************)
LEMMA OthersKeep ==
  ASSUME Inv, NEW r \in Requests, NEW q \in Requests, q # r,
         req'[q] = req[q], refreshMu' = refreshMu \/ refreshMu \in {r, None},
         UNCHANGED <<now, since, until, cached, lastRefresh>>
  PROVE  FetchOK(q)' /\ DocumentOK(q)' /\ LookOK(q)'
  <1>1. Document' = Document /\ parseKeySet(cached)' = parseKeySet(cached)
    BY DEF Document, parseKeySet, Never
  <1>2. FetchOK(q)'
    BY VerifierAssumption DEF Inv, FetchOK, Fetching
  <1>3. DocumentOK(q)'
    BY <1>1 DEF Inv, DocumentOK, TakenSince, parseKeySet
  <1>4. LookOK(q)'
    BY <1>1 DEF Inv, LookOK, Waiting, Fetching
  <1> QED BY <1>2, <1>3, <1>4

(***************************************************************************)
(* The steps that change nothing but the request itself and the mutex.     *)
(***************************************************************************)
LEMMA RequestKeepsInv ==
  ASSUME Inv, NEW r \in Requests,
         UNCHANGED <<now, since, until, cached, lastRefresh>>,
         TypeOK', \A q \in Requests \ {r} : req'[q] = req[q],
         refreshMu' = refreshMu \/ refreshMu \in {r, None},
         FetchOK(r)', DocumentOK(r)', LookOK(r)'
  PROVE  Inv'
  <1>1. \A q \in Requests : FetchOK(q)' /\ DocumentOK(q)' /\ LookOK(q)'
    BY OthersKeep
  <1>2. CacheOK'
    BY DEF Inv, CacheOK, Document, Never
  <1> QED BY <1>1, <1>2 DEF Inv

(***************************************************************************)
(* An idle request has the type of a request.                              *)
(***************************************************************************)
LEMMA IdleType == Idle \in RequestType
  BY VerifierAssumption DEF Idle, RequestType, Documents

(***************************************************************************)
(* A step that changes requests and the mutex only keeps the types.        *)
(***************************************************************************)
LEMMA RequestTypeOK ==
  ASSUME TypeOK, UNCHANGED <<now, since, until, cached, lastRefresh>>,
         refreshMu' \in Requests \cup {None}, req' \in [Requests -> RequestType]
  PROVE  TypeOK'
  BY Zenon DEF TypeOK, RequestType, parseKeySet, Never

(***************************************************************************)
(* keyForToken: what the first look finds is so when the request begins.   *)
(***************************************************************************)
LEMMA FirstLookKeepsInv ==
  ASSUME Inv, NEW r \in Requests, NEW k \in Keys, keyForToken(r, k) PROVE Inv'
  <1>1. /\ UNCHANGED <<now, since, until, cached, lastRefresh, refreshMu>>
        /\ \A q \in Requests \ {r} : req'[q] = req[q]
    BY DEF keyForToken, issuerVars, Inv, TypeOK
  <1>2. /\ req'[r].kid = k /\ req'[r].began = now /\ req'[r].sent = 0 /\ req'[r].doc = {}
        /\ req'[r].found = (k \in parseKeySet(cached))
        /\ req'[r].pc \in {"accepted", "lock"}
    BY DEF keyForToken, Idle, Inv, TypeOK
  <1>3. TypeOK'
    <2> DEFINE found == k \in parseKeySet(cached)
               pc == IF found /\ Age < RefreshInterval THEN "accepted" ELSE "lock"
               new == [Idle EXCEPT !.kid = k, !.found = found, !.began = now, !.pc = pc]
    <2>1. found \in BOOLEAN /\ pc \in {"accepted", "lock"} /\ now \in 0 .. MaxTime
      BY DEF Inv, TypeOK
    <2>2. req' = [req EXCEPT ![r] = new]
      BY Zenon DEF keyForToken
    <2> HIDE DEF found, pc
    <2>3. pc \in {"idle", "lock", "again"} \cup Fetching \cup Decided /\ k \in Keys \cup {None}
      BY <2>1 DEF Decided
    <2>4. new \in RequestType
      BY <2>1, <2>3, IdleType, Zenon DEF RequestType
    <2> HIDE DEF new
    <2>5. req' \in [Requests -> RequestType]
      BY <2>2, <2>4 DEF Inv, TypeOK, RequestType
    <2> QED BY <1>1, <2>5, RequestTypeOK DEF Inv, TypeOK
  <1>4. FetchOK(r)' /\ DocumentOK(r)'
    BY <1>2 DEF FetchOK, DocumentOK, Fetching
  <1>5. LookOK(r)'
    <2>1. parseKeySet(cached)' = parseKeySet(cached)
      BY <1>1 DEF parseKeySet
    <2>2. k \in parseKeySet(cached) => <<k, "published">> \in cached
      BY DEF parseKeySet
    <2>3. /\ req'[r].found = TRUE => k \in parseKeySet(cached)
          /\ req'[r].found = FALSE => k \notin parseKeySet(cached)
      BY <1>2, Zenon
    <2>4. req'[r].kid = k /\ req'[r].began = now /\ req'[r].pc # "again"
      BY <1>2
    <2> QED BY <1>1, <2>1, <2>2, <2>3, <2>4, Times DEF Inv, LookOK
  <1> QED BY <1>1, <1>3, <1>4, <1>5, RequestKeepsInv

(***************************************************************************)
(* refreshIfAllowed: the mutex is taken when the cache is old enough, and  *)
(* otherwise the cache is as fresh as the second look needs.               *)
(***************************************************************************)
LEMMA AllowedKeepsInv ==
  ASSUME Inv, NEW r \in Requests, refreshIfAllowed(r) PROVE Inv'
  <1>1. /\ UNCHANGED <<now, since, until, cached, lastRefresh>>
        /\ \A q \in Requests \ {r} : req'[q] = req[q]
        /\ refreshMu = None /\ req[r].pc = "lock"
    BY DEF refreshIfAllowed, Goto, issuerVars, Inv, TypeOK
  <1>2. /\ req'[r].kid = req[r].kid /\ req'[r].began = req[r].began
        /\ req'[r].found = req[r].found /\ req'[r].doc = req[r].doc
    BY DEF refreshIfAllowed, Goto, Inv, TypeOK
  <1>3. TypeOK'
    BY DEF refreshIfAllowed, Goto, Inv, TypeOK, Fetching, Decided, issuerVars, parseKeySet, Never
  <1>4. \/ /\ req'[r].pc = "again"
           /\ Age < (IF req[r].found THEN RefreshInterval ELSE UnknownDelay)
        \/ /\ req'[r].pc = "discovery" /\ req'[r].sent = now /\ refreshMu' = r
           /\ ~(Age < (IF req[r].found THEN RefreshInterval ELSE UnknownDelay))
    BY DEF refreshIfAllowed, Goto, Inv, TypeOK
  <1>a. /\ req[r].found = TRUE => (IF req[r].found THEN RefreshInterval ELSE UnknownDelay) = RefreshInterval
        /\ req[r].found = FALSE => (IF req[r].found THEN RefreshInterval ELSE UnknownDelay) = UnknownDelay
    BY Zenon
  <1>5. FetchOK(r)' /\ DocumentOK(r)'
    BY <1>1, <1>4, <1>a, Times, VerifierAssumption DEF Inv, FetchOK, DocumentOK, Fetching, Age
  <1>6. LookOK(r)'
    <2>1. parseKeySet(cached)' = parseKeySet(cached)
      BY <1>1 DEF parseKeySet
    <2> QED BY <1>1, <1>2, <1>4, <1>a, <2>1, Times, VerifierAssumption DEF Inv, LookOK, Waiting, Age
  <1> QED BY <1>1, <1>3, <1>5, <1>6, RequestKeepsInv

(***************************************************************************)
(* The fetches: the mutex is kept until the document is there, or the      *)
(* request fails.                                                          *)
(***************************************************************************)
LEMMA FetchKeepsInv ==
  ASSUME Inv, NEW r \in Requests, FetchFails(r) \/ FetchDiscovery(r) \/ FetchKeys(r) PROVE Inv'
  <1>1. /\ UNCHANGED <<now, since, until, cached, lastRefresh>>
        /\ \A q \in Requests \ {r} : req'[q] = req[q]
        /\ req[r].pc \in {"discovery", "jwks"} /\ refreshMu = r
    BY DEF FetchFails, FetchDiscovery, FetchKeys, Goto, issuerVars, Inv, TypeOK, FetchOK, Fetching
  <1>2. /\ req'[r].kid = req[r].kid /\ req'[r].began = req[r].began /\ req'[r].found = req[r].found
        /\ req'[r].pc # "again" /\ req'[r].pc # "lock"
    BY DEF FetchFails, FetchDiscovery, FetchKeys, Goto, Inv, TypeOK
  <1>3. \/ req'[r].pc = "failed"
        \/ req'[r].pc = "jwks" /\ req'[r].sent = now /\ refreshMu' = r
        \/ /\ req'[r].pc = "install" /\ req'[r].sent = req[r].sent /\ refreshMu' = r
           /\ req'[r].doc = Document /\ parseKeySet(Document) # {}
    BY <1>1 DEF FetchFails, FetchDiscovery, FetchKeys, Goto, Inv, TypeOK
  <1>4. TypeOK'
    <2>1. req \in [Requests -> RequestType] /\ now \in 0 .. MaxTime /\ Document \in Documents
      BY InDocument DEF Inv, TypeOK, RequestType
    <2>6. req' \in [Requests -> RequestType]
      <3>2. CASE FetchFails(r)
        BY <2>1, <3>2 DEF FetchFails, Goto, RequestType, Decided
      <3>3. CASE FetchDiscovery(r)
        <4>1. req' = [req EXCEPT ![r].pc = "jwks", ![r].sent = now]
          BY <3>3, Zenon DEF FetchDiscovery
        <4>2. req[r] \in RequestType
          BY <2>1, Zenon
        <4>3. [req[r] EXCEPT !.pc = "jwks", !.sent = now] \in RequestType
          BY <2>1, <4>2, Zenon DEF RequestType, Fetching
        <4>4. req' = [req EXCEPT ![r] = [req[r] EXCEPT !.pc = "jwks", !.sent = now]]
          BY <2>1, <4>1, ZenonT(30)
        <4> QED BY <2>1, <4>3, <4>4, Zenon
      <3>4. CASE FetchKeys(r)
        <4>1. req' = [req EXCEPT ![r].pc = "install", ![r].doc = Document]
          BY <3>4 DEF FetchKeys
        <4> QED BY <2>1, <4>1, ZenonT(30) DEF RequestType, Fetching
      <3> QED BY <3>2, <3>3, <3>4
    <2>5. refreshMu' \in Requests \cup {None}
      BY DEF FetchFails, FetchDiscovery, FetchKeys, Inv, TypeOK
    <2> QED BY <1>1, <2>6, <2>5, RequestTypeOK DEF Inv
  <1>5. FetchOK(r)'
    <2>1. /\ req[r].sent <= now /\ now <= req[r].sent + HTTPTimeout
          /\ lastRefresh + RefreshInterval <= now \/ lastRefresh + UnknownDelay <= now
      BY <1>1 DEF Inv, FetchOK, Fetching
    <2> QED BY <1>1, <1>3, <2>1, Times, VerifierAssumption, SMTT(30) DEF Inv, FetchOK, Fetching
  <1>6. DocumentOK(r)'
    <2> SUFFICES ASSUME req'[r].pc = "install" PROVE DocumentOK(r)'
      BY DEF DocumentOK
    <2>1. req'[r].sent <= now /\ req'[r].doc = Document /\ Document' = Document
      BY <1>1, <1>3 DEF Inv, FetchOK, Fetching, Document, Never
    <2>2. \A k \in Keys : /\ <<k, "published">> \notin Document => now <= since[k]
                          /\ <<k, "withdrawn">> \notin Document => now <= until[k]
      <3>1. now <= Never
        BY Times DEF Inv
      <3>2. \A k \in Keys : /\ <<k, "published">> \notin Document => since[k] = Never
                            /\ <<k, "withdrawn">> \notin Document => until[k] = Never
        BY InDocument, Zenon
      <3> QED BY <3>1, <3>2, Zenon
    <2>3. req'[r].sent \in Nat /\ now \in Nat /\ \A k \in Keys : since[k] \in Nat /\ until[k] \in Nat
      BY <1>1, <1>3, Times DEF Inv
    <2>4. TakenSince(req[r].doc, req[r].sent)'
      BY <1>1, <2>1, <2>2, <2>3 DEF TakenSince
    <2>5. cached' \subseteq req'[r].doc
      BY <1>1, <2>1 DEF Inv, CacheOK
    <2>6. parseKeySet(req[r].doc)' = parseKeySet(Document) /\ parseKeySet(Document) # {}
      BY <1>3, <2>1, SMTT(30) DEF parseKeySet
    <2> QED BY <2>4, <2>5, <2>6 DEF DocumentOK
  <1>7. LookOK(r)'
    <2>1. parseKeySet(cached)' = parseKeySet(cached)
      BY <1>1 DEF parseKeySet
    <2>2. Waiting(r)
      BY <1>1 DEF Waiting, Fetching
    <2> QED BY <1>1, <1>2, <2>1, <2>2 DEF Inv, LookOK
  <1> QED BY <1>1, <1>4, <1>5, <1>6, <1>7, RequestKeepsInv

(***************************************************************************)
(* The decisions and the answer end a request.                             *)
(***************************************************************************)
LEMMA DecisionKeepsInv ==
  ASSUME Inv, NEW r \in Requests, LookAgain(r) \/ Answer(r) PROVE Inv'
  <1>1. /\ UNCHANGED <<now, since, until, cached, lastRefresh, refreshMu>>
        /\ \A q \in Requests \ {r} : req'[q] = req[q]
        /\ req'[r].pc \in Decided \cup {"idle"}
    BY DEF LookAgain, Answer, Goto, issuerVars, Inv, TypeOK, Idle, Decided
  <1>2. TypeOK'
    <2>1. req \in [Requests -> RequestType]
      BY DEF Inv, TypeOK, RequestType
    <2>2. CASE LookAgain(r)
      <3>1. PICK l \in Decided : req' = [req EXCEPT ![r].pc = l]
        BY <2>2, Zenon DEF LookAgain, Goto, Decided
      <3>2. req' \in [Requests -> RequestType]
        BY <2>1, <3>1 DEF RequestType
      <3> QED BY <1>1, <3>2, RequestTypeOK DEF Inv, TypeOK
    <2>3. CASE Answer(r)
      <3>1. req' \in [Requests -> RequestType]
        BY <2>1, <2>3, IdleType DEF Answer
      <3> QED BY <1>1, <3>1, RequestTypeOK DEF Inv, TypeOK
    <2> QED BY <2>2, <2>3
  <1>3. FetchOK(r)' /\ DocumentOK(r)' /\ LookOK(r)'
    BY <1>1 DEF FetchOK, DocumentOK, LookOK, Waiting, Fetching, Decided
  <1> QED BY <1>1, <1>2, <1>3, RequestKeepsInv

(***************************************************************************)
(* refreshLocked installs a document that is newer than the cached one.    *)
(* No other request is between its fetch and its install.                  *)
(***************************************************************************)
LEMMA InstallKeepsInv ==
  ASSUME Inv, NEW r \in Requests, refreshLocked(r) PROVE Inv'
  <1>1. /\ UNCHANGED <<now, since, until>> /\ cached' = req[r].doc /\ lastRefresh' = now /\ refreshMu' = None
        /\ \A q \in Requests \ {r} : req'[q] = req[q]
        /\ req[r].pc = "install" /\ refreshMu = r
    BY DEF refreshLocked, issuerVars, Inv, TypeOK, FetchOK, Fetching
  <1>2. /\ req'[r].kid = req[r].kid /\ req'[r].began = req[r].began /\ req'[r].found = req[r].found
        /\ req'[r].pc = "again"
    BY DEF refreshLocked, Inv, TypeOK
  <1>3. /\ TakenSince(req[r].doc, req[r].sent) /\ parseKeySet(req[r].doc) # {} /\ cached \subseteq req[r].doc
        /\ now <= req[r].sent + HTTPTimeout /\ req[r].doc \in Documents
    BY <1>1 DEF Inv, TypeOK, DocumentOK, FetchOK, Fetching
  <1>4. Document' = Document /\ parseKeySet(cached)' = parseKeySet(req[r].doc)
    BY <1>1 DEF Document, Never, parseKeySet
  <1>5. TypeOK'
    <2>1. req' \in [Requests -> RequestType]
      <3>1. req \in [Requests -> RequestType] /\ {} \in Documents
        BY DEF Inv, TypeOK, RequestType, Documents
      <3> QED BY <3>1, ZenonT(30) DEF refreshLocked, RequestType
    <2>2. now \in Nat
      BY Times DEF Inv
    <2> QED BY <1>1, <1>3, <1>4, <2>1, <2>2 DEF Inv, TypeOK, RequestType, Never
  <1>6. CacheOK'
    BY <1>1, <1>3, <1>4, Times, VerifierAssumption DEF Inv, CacheOK, TakenSince
  <1>7. ASSUME NEW q \in Requests PROVE LookOK(q)'
    <2> SUFFICES ASSUME Waiting(q)' PROVE LookOK(q)'
      BY Zenon DEF LookOK
    <2>1. Waiting(q)
      BY <1>1 DEF Waiting, Fetching
    <2>2. req'[q].kid = req[q].kid /\ req'[q].began = req[q].began /\ req'[q].found = req[q].found
      BY <1>1, <1>2
    <2>3. /\ req[q].kid \in Keys /\ req[q].began <= now
          /\ req[q].found = TRUE => <<req[q].kid, "published">> \in cached
      BY <2>1 DEF Inv, LookOK
    <2> QED BY <1>1, <1>3, <2>2, <2>3 DEF LookOK
  <1>8. ASSUME NEW q \in Requests PROVE FetchOK(q)' /\ DocumentOK(q)'
    <2>1. req'[q].pc \notin Fetching
      <3>1. CASE q = r
        BY <3>1, <1>2 DEF Fetching
      <3>2. CASE q # r
        BY <3>2, <1>1 DEF Inv, FetchOK
      <3> QED BY <3>1, <3>2
    <2> QED BY <2>1 DEF FetchOK, DocumentOK, Fetching
  <1> QED BY <1>5, <1>6, <1>7, <1>8 DEF Inv

---------------------------------------------------------------------------
(* The theorems.                                                           *)

(***************************************************************************)
(* The invariant holds in every state of every behaviour.                  *)
(***************************************************************************)
LEMMA Invariance == Spec => []Inv
  <1>1. Inv /\ [Next]_vars => Inv'
    <2> SUFFICES ASSUME Inv, [Next]_vars PROVE Inv'
      OBVIOUS
    <2>1. CASE UNCHANGED vars
      <3>1. /\ UNCHANGED <<now, since, until, cached, lastRefresh, refreshMu, req>>
            /\ Document' = Document /\ parseKeySet(cached)' = parseKeySet(cached)
        BY <2>1 DEF vars, Document, Never, parseKeySet
      <3>2. TypeOK' /\ CacheOK'
        BY <3>1 DEF Inv, TypeOK, CacheOK, Never
      <3>3. ASSUME NEW r \in Requests PROVE FetchOK(r)' /\ DocumentOK(r)' /\ LookOK(r)'
        BY <3>1, Zenon DEF Inv, FetchOK, DocumentOK, TakenSince, LookOK, Waiting, parseKeySet
      <3> QED BY <3>2, <3>3 DEF Inv
    <2>2. CASE Next
      BY <2>2, IssuerKeepsInv, TickKeepsInv, FirstLookKeepsInv, AllowedKeepsInv, FetchKeepsInv,
         InstallKeepsInv, DecisionKeepsInv DEF Next, Verify
    <2> QED BY <2>1, <2>2
  <1> QED BY InitInv, <1>1, PTL DEF Spec

(***************************************************************************)
(* A decision is taken by keyForToken or by the second look.               *)
(***************************************************************************)
LEMMA WhoDecides ==
  ASSUME Inv, Next, NEW r \in Requests, NEW o \in {"accepted", "untrusted"}, Decides(r, o)
  PROVE  \/ \E k \in Keys : keyForToken(r, k)
         \/ LookAgain(r)
  <1>1. \A q \in Requests : q # r =>
          /\ \A k \in Keys : ~keyForToken(q, k)
          /\ ~Verify(q)
    BY ZenonT(30) DEF keyForToken, Verify, refreshIfAllowed, FetchFails, FetchDiscovery, FetchKeys, refreshLocked,
           LookAgain, Answer, Goto, Decides, Inv, TypeOK
  <1>2. ~Tick /\ \A k \in Keys : ~Publish(k) /\ ~Withdraw(k)
    BY DEF Tick, Publish, Withdraw, Decides
  <1>3. ~refreshIfAllowed(r) /\ ~FetchFails(r) /\ ~FetchDiscovery(r) /\ ~FetchKeys(r) /\ ~refreshLocked(r)
    BY DEF refreshIfAllowed, FetchFails, FetchDiscovery, FetchKeys, refreshLocked, Goto, Decides, Inv, TypeOK
  <1>4. ~Answer(r)
    BY DEF Answer, Idle, Decides, Inv, TypeOK
  <1> QED BY <1>1, <1>2, <1>3, <1>4 DEF Next, Verify

(***************************************************************************)
(* A token whose key the issuer withdrew is refused once RefreshInterval   *)
(* and the time of a fetch have passed, for any interval, delay and        *)
(* timeout and any number of requests.                                     *)
(***************************************************************************)
THEOREM WithdrawnExpire == Spec => WithdrawnKeysExpire
  <1>1. ASSUME Inv, Next, NEW r \in Requests, Decides(r, "accepted")
        PROVE  req'[r].began <= until[req'[r].kid] + RefreshInterval + HTTPTimeout
    <2>1. CASE \E k \in Keys : keyForToken(r, k)
      <3>1. PICK k \in Keys : keyForToken(r, k)
        BY <2>1
      <3>2. req'[r].kid = k /\ req'[r].began = now
        BY <1>1, <3>1 DEF keyForToken, Idle, Inv, TypeOK
      <3>3. k \in parseKeySet(cached) /\ Age < RefreshInterval
        BY <1>1, <3>1 DEF keyForToken, Idle, Inv, TypeOK, Decides
      <3>4. lastRefresh <= until[k] + HTTPTimeout
        BY <1>1, <3>3 DEF Inv, CacheOK, parseKeySet
      <3> QED BY <1>1, <3>2, <3>3, <3>4, Times, VerifierAssumption DEF Inv, Age
    <2>2. CASE LookAgain(r)
      <3>1. /\ req'[r].kid = req[r].kid /\ req'[r].began = req[r].began /\ req[r].pc = "again"
            /\ req[r].kid \in parseKeySet(cached)
        BY <1>1, <2>2 DEF LookAgain, Goto, Decides, Inv, TypeOK
      <3>2. req[r].kid \in Keys /\ lastRefresh <= until[req[r].kid] + HTTPTimeout
        BY <1>1, <3>1 DEF Inv, CacheOK, parseKeySet
      <3>3. req[r].began <= lastRefresh \/ req[r].began < lastRefresh + RefreshInterval
        <4>1. Waiting(r) /\ req[r].found \in BOOLEAN
          BY <1>1, <3>1, Times DEF Waiting, Inv
        <4> QED BY <1>1, <3>1, <4>1, Zenon DEF Inv, LookOK
      <3> QED BY <1>1, <3>1, <3>2, <3>3, Times, VerifierAssumption DEF Inv
    <2> QED BY <1>1, <2>1, <2>2, WhoDecides
  <1>2. Inv /\ [Next]_vars =>
          [\A r \in Requests : Decides(r, "accepted")
             => req'[r].began <= until[req'[r].kid] + RefreshInterval + HTTPTimeout]_vars
    BY <1>1
  <1> QED BY Invariance, <1>2, PTL DEF Spec, WithdrawnKeysExpire

(***************************************************************************)
(* A token whose key is published and not withdrawn is not refused as      *)
(* untrusted once unknownKeyRefreshDelay and the time of a fetch have      *)
(* passed.                                                                 *)
(***************************************************************************)
THEOREM NewKeysFound == Spec => NewKeysAreFound
  <1>1. ASSUME Inv, Next, NEW r \in Requests, Decides(r, "untrusted")
        PROVE  \/ until[req[r].kid] # Never
               \/ req[r].began < since[req[r].kid] + UnknownDelay + HTTPTimeout
    <2> SUFFICES ASSUME until[req[r].kid] = Never
                 PROVE  req[r].began < since[req[r].kid] + UnknownDelay + HTTPTimeout
      OBVIOUS
    <2>1. LookAgain(r)
      <3>1. \A k \in Keys : ~keyForToken(r, k)
        BY <1>1, ZenonT(30) DEF keyForToken, Idle, Decides, Inv, TypeOK
      <3> QED BY <1>1, <3>1, WhoDecides
    <2>2. req[r].pc = "again" /\ req[r].kid \notin parseKeySet(cached)
      BY <1>1, <2>1 DEF LookAgain, Goto, Decides, Inv, TypeOK
    <2>3. req[r].kid \in Keys /\ Waiting(r)
      BY <1>1, <2>2, Zenon DEF Inv, LookOK, Waiting
    <2>4. <<req[r].kid, "published">> \notin cached
      <3>1. <<req[r].kid, "withdrawn">> \notin cached
        BY <1>1, <2>3, InDocument, Zenon DEF Inv, CacheOK
      <3> QED BY <2>2, <2>3, <3>1 DEF parseKeySet
    <2>5. lastRefresh <= since[req[r].kid] + HTTPTimeout
      BY <1>1, <2>3, <2>4, Zenon DEF Inv, CacheOK
    <2>6. req[r].began <= lastRefresh \/ req[r].began < lastRefresh + UnknownDelay
      BY <1>1, <2>2, <2>3, <2>4 DEF Inv, LookOK
    <2> QED BY <1>1, <2>3, <2>5, <2>6, Times, VerifierAssumption DEF Inv
  <1>2. Inv /\ [Next]_vars =>
          [\A r \in Requests : Decides(r, "untrusted")
             => \/ until[req[r].kid] # Never
                \/ req[r].began < since[req[r].kid] + UnknownDelay + HTTPTimeout]_vars
    BY <1>1
  <1> QED BY Invariance, <1>2, PTL DEF Spec, NewKeysAreFound

(***************************************************************************)
(* Only refreshLocked changes the cache.                                   *)
(***************************************************************************)
LEMMA WhoInstalls ==
  ASSUME Next, cached' # cached \/ lastRefresh' # lastRefresh
  PROVE  \E r \in Requests : refreshLocked(r)
  BY Zenon DEF Next, Publish, Withdraw, Tick, keyForToken, Verify, refreshIfAllowed, FetchFails,
         FetchDiscovery, FetchKeys, LookAgain, Answer

(***************************************************************************)
(* However many requests queue for the mutex, two refreshes lie at least   *)
(* the smaller of the two delays apart.                                    *)
(***************************************************************************)
THEOREM Throttled == Spec => RefreshesApart
  <1>1. ASSUME Inv, Next, cached' # cached \/ lastRefresh' # lastRefresh
        PROVE  \/ lastRefresh' >= lastRefresh + RefreshInterval
               \/ lastRefresh' >= lastRefresh + UnknownDelay
    <2>1. PICK r \in Requests : refreshLocked(r)
      BY <1>1, WhoInstalls
    <2>2. lastRefresh' = now /\ req[r].pc \in Fetching
      BY <2>1 DEF refreshLocked, Fetching
    <2> QED BY <1>1, <2>2, Times, VerifierAssumption DEF Inv, FetchOK
  <1>2. Inv /\ [Next]_vars =>
          [cached' # cached \/ lastRefresh' # lastRefresh
             => \/ lastRefresh' >= lastRefresh + RefreshInterval
                \/ lastRefresh' >= lastRefresh + UnknownDelay]_vars
    BY <1>1
  <1> QED BY Invariance, <1>2, PTL DEF Spec, RefreshesApart

(***************************************************************************)
(* The cache never goes back to an older document.                         *)
(***************************************************************************)
THEOREM Forwards == Spec => NeverBackwards
  <1>1. ASSUME Inv, Next PROVE cached \subseteq cached'
    <2>1. CASE cached' = cached
      BY <2>1
    <2>2. CASE cached' # cached
      <3>1. PICK r \in Requests : refreshLocked(r)
        BY <1>1, <2>2, WhoInstalls
      <3> QED BY <1>1, <3>1 DEF refreshLocked, Inv, DocumentOK
    <2> QED BY <2>1, <2>2
  <1>2. Inv /\ [Next]_vars => [cached \subseteq cached']_vars
    BY <1>1
  <1> QED BY Invariance, <1>2, PTL DEF Spec, NeverBackwards
============================================================================
