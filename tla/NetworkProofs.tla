---------------------------- MODULE NetworkProofs -----------------------------
(***************************************************************************)
(* StaleMarkHonest, AnswersRecent and EvictsLeastRecent of CacheSystem,    *)
(* for any clients, urls, lifetimes and configurations, and a server that  *)
(* changes at any time, and EndsAccounted of ErrorRecovery, for any number *)
(* of callers, and whatever errors, configurations and thresholds there    *)
(* are.                                                                    *)
(***************************************************************************)
EXTENDS CacheSystem, ErrorRecovery, FiniteSetTheorems, WellFoundedInduction, TLAPS

-----------------------------------------------------------------------------
(* The cache.                                                              *)

USE DEF observer, vars

\* CacheAssumption, and None is neither an entry nor a request.
Assumed ==
  /\ CacheAssumption
  /\ None \notin Requests
  /\ None \notin [version : Versions, tag : Versions \cup {None}, expires_at : Nat,
                  last_accessed : Nat, is_stale : BOOLEAN]

-----------------------------------------------------------------------------
(* The inductive invariant.                                                *)

\* What an entry says of itself is what happened to its url: it was used last
\* when it was touched, and lives no longer than a response may be trusted.
EntryHonest(u) ==
  /\ cache[u].last_accessed = touched[u]
  /\ cache[u].is_stale => Expired(u)
  /\ cache[u].expires_at <= confirmed[u] + MaxTtl
  /\ touched[u] <= confirmed[u] + MaxTtl + StaleMaxAge

\* A client that has an answer to store has its content.
AnswerThere(c) == In(c, "200") => request[c].version \in Versions

IInv ==
  /\ TypeOK
  /\ \A u \in Cached : EntryHonest(u)
  /\ \A c \in Clients : AnswerThere(c)

LEMMA TtlBounded ==
  ASSUME Assumed, NEW age \in MaxAges \cup {None}
  PROVE  Ttl(age) \in 0 .. MaxTtl /\ MaxTtl \in Nat /\ StaleMaxAge \in Nat
BY DEF Assumed, CacheAssumption, Ttl, Greatest, Least

\* An entry is a record of its fields, and is one at any later time.
LEMMA EntryThere ==
  ASSUME Assumed, TypeOK, NEW u \in Cached
  PROVE  /\ u \in Urls /\ cache[u] \in Entry
         /\ cache[u].version \in Versions /\ cache[u].tag \in Versions \cup {None}
         /\ cache[u].expires_at \in Nat /\ cache[u].is_stale \in BOOLEAN
         /\ cache[u].last_accessed \in 0 .. now /\ now \in Nat
<1>1. u \in Urls /\ cache[u] \in Entry /\ now \in Nat
  BY DEF TypeOK, Cached
<1>2. QED
  BY <1>1 DEF Entry

LEMMA EntryNotNone == Assumed /\ now \in Nat => None \notin Entry
<1> SUFFICES ASSUME Assumed, now \in Nat, None \in Entry PROVE FALSE
  OBVIOUS
<1>1. Entry \subseteq [version : Versions, tag : Versions \cup {None}, expires_at : Nat,
                       last_accessed : Nat, is_stale : BOOLEAN]
  BY DEF Entry
<1>2. QED
  BY <1>1 DEF Assumed

-----------------------------------------------------------------------------
(* What each kind of step makes of the cache.  A step changes one entry at *)
(* most, to one that is honest, and drops any; the rest of it is the       *)
(* client's.                                                               *)

\* The clients' part of the state keeps its type.
ClientsRight ==
  /\ request \in [Clients -> Requests \cup {None}]
  /\ \A c \in Clients : AnswerThere(c)

\* The other entries are as they were, or gone.
OthersKept(u) ==
  /\ cache' \in [Urls -> Entry \cup {None}]
  /\ \A w \in Urls \ {u} : cache'[w] \in {cache[w], None}
  /\ \A w \in Urls \ {u} : touched'[w] = touched[w] /\ confirmed'[w] = confirmed[w]

LEMMA EntryStep ==
  ASSUME Assumed, IInv, NEW u \in Urls, OthersKept(u), ClientsRight',
         UNCHANGED <<now, config, current>>,
         touched' \in [Urls -> 0 .. now], confirmed' \in [Urls -> 0 .. now],
         cache'[u] # None => EntryHonest(u)'
  PROVE  IInv'
<1>1. TypeOK'
  BY DEF IInv, TypeOK, OthersKept, ClientsRight, Entry
<1>2. ASSUME NEW w \in Cached' PROVE EntryHonest(w)'
  <2>1. CASE w = u
    BY <1>2, <2>1 DEF Cached
  <2>2. CASE w # u
    <3>1. w \in Urls /\ w \in Cached /\ cache'[w] = cache[w]
      BY <1>2, <2>2 DEF Cached, OthersKept
    <3>2. touched'[w] = touched[w] /\ confirmed'[w] = confirmed[w]
      BY <2>2, <3>1 DEF OthersKept
    <3>3. EntryHonest(w)
      BY <3>1 DEF IInv
    <3>4. QED
      BY <3>1, <3>2, <3>3 DEF EntryHonest, Expired
  <2>3. QED
    BY <2>1, <2>2
<1>3. QED
  BY <1>1, <1>2 DEF IInv, ClientsRight

\* A step that only drops entries.
LEMMA DropStep ==
  ASSUME Assumed, IInv, ClientsRight', UNCHANGED <<now, config, current, observer>>,
         cache' \in [Urls -> Entry \cup {None}], \A w \in Urls : cache'[w] \in {cache[w], None}
  PROVE  IInv'
<1>1. TypeOK'
  BY DEF IInv, TypeOK, ClientsRight, Entry
<1>2. ASSUME NEW w \in Cached' PROVE EntryHonest(w)'
  <2>1. w \in Cached /\ cache'[w] = cache[w]
    BY <1>2 DEF Cached
  <2>2. QED
    BY <2>1 DEF IInv, EntryHonest, Expired
<1>3. QED
  BY <1>1, <1>2 DEF IInv, ClientsRight

-----------------------------------------------------------------------------
(* The clients.                                                            *)

LEMMA AsksStep ==
  ASSUME Assumed, IInv, NEW c \in Clients, NEW r \in Requests \cup {None}, Asks(c, r),
         r # None /\ r.phase = "200" => r.version \in Versions
  PROVE  ClientsRight'
<1>1. request \in [Clients -> Requests \cup {None}] /\ request' = [request EXCEPT ![c] = r]
  BY DEF IInv, TypeOK, Asks
<1>2. ASSUME NEW d \in Clients, In(d, "200")' PROVE request'[d].version \in Versions
  BY <1>1, <1>2 DEF IInv, AnswerThere, In
<1>3. QED
  BY <1>1, <1>2 DEF ClientsRight, AnswerThere

LEMMA SameRequests ==
  ASSUME IInv, request' = request
  PROVE  ClientsRight'
BY DEF IInv, TypeOK, ClientsRight, AnswerThere, In

\* A request as clients make them has no version.
LEMMA RequestType ==
  ASSUME NEW phase \in {"sent", "stale"}, NEW u \in Urls, NEW tag \in Versions \cup {None}
  PROVE  Request(phase, u, tag) \in Requests /\ Request(phase, u, tag).phase # "200"
BY DEF Request, Requests

LEMMA GetStep ==
  ASSUME Assumed, IInv, NEW c \in Clients, NEW u \in Urls, Get(c, u)
  PROVE  IInv'
<1>1. /\ UNCHANGED <<now, config, current, confirmed>> /\ now \in Nat
      /\ cache \in [Urls -> Entry \cup {None}] /\ touched \in [Urls -> 0 .. now]
      /\ confirmed \in [Urls -> 0 .. now]
  BY DEF Get, IInv, TypeOK
<1>2. CASE Miss(c, u)
  <2>1. ClientsRight'
    BY <1>2, RequestType, AsksStep DEF Miss
  <2>2. QED
    BY <1>1, <1>2, <2>1, DropStep DEF Miss
<1>3. CASE Hit(c, u) \/ StaleHit(c, u)
  <2>1. PICK stale \in BOOLEAN : u \in Cached /\ Reads(u, stale) /\ (stale => Expired(u))
    BY <1>3 DEF Hit, StaleHit
  <2>2. ClientsRight'
    <3>1. CASE Hit(c, u)
      BY <3>1, SameRequests DEF Hit
    <3>2. CASE StaleHit(c, u)
      BY <3>2, RequestType, AsksStep DEF StaleHit
    <3>3. QED
      BY <1>3, <3>1, <3>2
  <2>3. touched' = [touched EXCEPT ![u] = now]
    BY <1>3 DEF Hit, StaleHit
  <2>4. /\ cache[u] \in Entry /\ EntryHonest(u) /\ cache[u].is_stale \in BOOLEAN
        /\ cache[u].expires_at \in Nat
    BY <2>1, EntryThere DEF IInv
  <2>5. /\ cache'[u] = [cache[u] EXCEPT !.last_accessed = now, !.is_stale = @ \/ stale]
        /\ \A w \in Urls \ {u} : cache'[w] = cache[w]
        /\ cache' = [cache EXCEPT ![u] = cache'[u]]
    BY <1>1, <2>1 DEF Reads
  <2>6. (cache[u].is_stale \/ stale) \in BOOLEAN
    BY <2>4
  <2>7. /\ cache'[u] \in Entry
        /\ cache'[u].last_accessed = now /\ cache'[u].expires_at = cache[u].expires_at
        /\ cache'[u].is_stale = (cache[u].is_stale \/ stale)
    <3> DEFINE mark == cache[u].is_stale \/ stale
    <3>1. mark \in BOOLEAN /\ cache'[u] = [cache[u] EXCEPT !.last_accessed = now, !.is_stale = mark]
      BY <2>5, <2>6
    <3> HIDE DEF mark
    <3>2. cache'[u] = [version |-> cache[u].version, tag |-> cache[u].tag,
                       expires_at |-> cache[u].expires_at, last_accessed |-> now, is_stale |-> mark]
      BY <2>4, <3>1 DEF Entry
    <3>3. /\ cache[u].version \in Versions /\ cache[u].tag \in Versions \cup {None}
          /\ now \in 0 .. now
      BY <1>1, <2>4 DEF Entry
    <3>4. /\ cache'[u] \in Entry
          /\ cache'[u].last_accessed = now /\ cache'[u].expires_at = cache[u].expires_at
          /\ cache'[u].is_stale = mark
      BY <2>4, <3>1, <3>2, <3>3 DEF Entry
    <3>5. QED
      BY <3>4 DEF mark
  <2>8. now <= confirmed[u] + MaxTtl + StaleMaxAge
    <3>1. CASE Hit(c, u)
      <4>1. now <= cache[u].expires_at
        BY <1>1, <2>4, <3>1 DEF Hit, Expired
      <4>2. confirmed[u] \in Nat /\ MaxTtl \in Nat /\ StaleMaxAge \in Nat
        BY <1>1 DEF Assumed, CacheAssumption
      <4>3. QED
        BY <1>1, <2>4, <4>1, <4>2 DEF EntryHonest
    <3>2. CASE StaleHit(c, u)
      <4>1. now <= cache[u].expires_at + StaleMaxAge
        BY <1>1, <2>4, <3>2 DEF StaleHit, Stale, Assumed, CacheAssumption
      <4>2. confirmed[u] \in Nat /\ MaxTtl \in Nat /\ StaleMaxAge \in Nat
        BY <1>1 DEF Assumed, CacheAssumption
      <4>3. QED
        BY <1>1, <2>4, <4>1, <4>2 DEF EntryHonest
    <3>3. QED
      BY <1>3, <3>1, <3>2
  <2>9. OthersKept(u) /\ touched' \in [Urls -> 0 .. now] /\ touched'[u] = now
    BY <1>1, <2>3, <2>5, <2>7 DEF OthersKept, Entry
  <2>10. EntryHonest(u)'
    BY <1>1, <2>1, <2>4, <2>7, <2>8, <2>9 DEF EntryHonest, Expired
  <2>11. QED
    BY <1>1, <2>2, <2>9, <2>10, EntryStep
<1>4. CASE ExpiredMiss(c, u)
  <2>1. ClientsRight'
    BY <1>4, RequestType, AsksStep DEF ExpiredMiss
  <2>2. QED
    BY <1>1, <1>4, <2>1, DropStep DEF ExpiredMiss
<1>5. QED
  BY <1>2, <1>3, <1>4 DEF Get

\* An entry that is new, or validated again.
LEMMA ConfirmStep ==
  ASSUME Assumed, IInv, NEW u \in Urls, OthersKept(u), ClientsRight',
         UNCHANGED <<now, config, current>>, cache'[u] \in Entry,
         NEW age \in MaxAges \cup {None}, cache'[u].expires_at = now + Ttl(age),
         cache'[u].is_stale = FALSE, touched' \in [Urls -> 0 .. now],
         cache'[u].last_accessed = touched'[u], confirmed' = [confirmed EXCEPT ![u] = now]
  PROVE  IInv'
<1>1. /\ confirmed \in [Urls -> 0 .. now] /\ now \in Nat
      /\ Ttl(age) \in 0 .. MaxTtl /\ MaxTtl \in Nat /\ StaleMaxAge \in Nat
  BY TtlBounded DEF IInv, TypeOK
<1>2. confirmed' \in [Urls -> 0 .. now] /\ confirmed'[u] = now /\ touched'[u] \in 0 .. now
  BY <1>1
<1>3. EntryHonest(u)'
  <2>1. ~cache'[u].is_stale
    OBVIOUS
  <2>2. cache'[u].expires_at <= confirmed'[u] + MaxTtl
    BY <1>1, <1>2
  <2>3. touched'[u] <= confirmed'[u] + MaxTtl + StaleMaxAge
    BY <1>1, <1>2
  <2>4. QED
    BY <2>1, <2>2, <2>3 DEF EntryHonest
<1>4. QED
  BY <1>2, <1>3, EntryStep

LEMMA StoreStep ==
  ASSUME Assumed, IInv, NEW c \in Clients, Store(c)
  PROVE  IInv'
<1> DEFINE r == request[c]
           fresh == [version |-> r.version, tag |-> r.tag, expires_at |-> now + Ttl(r.age),
                     last_accessed |-> now, is_stale |-> FALSE]
<1>1. /\ r \in Requests /\ r.version \in Versions /\ r.url \in Urls
      /\ r.tag \in Versions \cup {None} /\ r.age \in MaxAges \cup {None}
  <2>1. r \in Requests /\ r.version \in Versions
    BY DEF Store, In, IInv, TypeOK, AnswerThere
  <2>2. QED
    BY <2>1 DEF Requests
<1>2. /\ now \in Nat /\ cache \in [Urls -> Entry \cup {None}] /\ touched \in [Urls -> 0 .. now]
      /\ UNCHANGED <<now, config, current>>
  BY DEF IInv, TypeOK, Store
<1>3. fresh \in Entry /\ fresh.is_stale = FALSE /\ fresh.expires_at = now + Ttl(r.age)
  BY <1>1, <1>2, TtlBounded DEF Entry
<1>4. PICK gone \in SUBSET Urls :
        cache' = [u \in Urls |-> IF u = r.url THEN fresh ELSE IF u \in gone THEN None ELSE cache[u]]
  BY DEF Store, Victims, Cached
<1>5. ClientsRight'
  BY AsksStep DEF Store
<1>6. /\ touched' = [touched EXCEPT ![r.url] = now] /\ confirmed' = [confirmed EXCEPT ![r.url] = now]
  BY DEF Store
<1> HIDE DEF fresh
<1>7. OthersKept(r.url) /\ cache'[r.url] = fresh
  BY <1>1, <1>2, <1>3, <1>4, <1>6 DEF OthersKept, IInv, TypeOK
<1>8. touched' \in [Urls -> 0 .. now] /\ touched'[r.url] = now /\ fresh.last_accessed = now
  BY <1>1, <1>2, <1>6 DEF fresh
<1> HIDE DEF r
<1>9. QED
  BY <1>1, <1>2, <1>3, <1>5, <1>6, <1>7, <1>8, ConfirmStep

\* What a validation makes of an entry is an entry.
LEMMA ValidatedThere ==
  ASSUME Assumed, TypeOK, NEW r \in Requests, NEW u \in Cached
  PROVE  /\ Validated(u, r) \in Entry /\ Validated(u, r).is_stale = FALSE
         /\ Validated(u, r).expires_at = now + Ttl(r.age) /\ r.age \in MaxAges \cup {None}
         /\ Validated(u, r).last_accessed = cache[u].last_accessed
<1> DEFINE tag == IF r.tag = None THEN cache[u].tag ELSE r.tag
           expiry == now + Ttl(r.age)
<1>1. /\ r.tag \in Versions \cup {None} /\ r.age \in MaxAges \cup {None}
      /\ cache[u] \in Entry /\ now \in Nat
  BY EntryThere DEF Requests
<1>2. tag \in Versions \cup {None}
  BY <1>1, EntryThere
<1>3. expiry \in Nat
  BY <1>1, TtlBounded
<1>4. Validated(u, r) = [cache[u] EXCEPT !.tag = tag, !.expires_at = expiry, !.is_stale = FALSE]
  BY <1>1 DEF Validated, Entry
<1> HIDE DEF tag, expiry
<1>5. /\ Validated(u, r) \in Entry /\ Validated(u, r).is_stale = FALSE
      /\ Validated(u, r).expires_at = expiry
      /\ Validated(u, r).last_accessed = cache[u].last_accessed
  BY <1>1, <1>2, <1>3, <1>4 DEF Entry
<1>6. QED
  BY <1>1, <1>5 DEF expiry

LEMMA UpdateStep ==
  ASSUME Assumed, IInv, NEW c \in Clients, UpdateAfterValidation(c)
  PROVE  IInv'
<1> DEFINE r == request[c]
<1>1. /\ r \in Requests /\ r.url \in Urls
      /\ r.tag \in Versions \cup {None} /\ r.age \in MaxAges \cup {None}
  <2>1. r \in Requests
    BY DEF UpdateAfterValidation, In, IInv, TypeOK
  <2>2. QED
    BY <2>1 DEF Requests
<1>2. /\ now \in Nat /\ cache \in [Urls -> Entry \cup {None}] /\ touched \in [Urls -> 0 .. now]
      /\ confirmed \in [Urls -> 0 .. now] /\ UNCHANGED <<now, config, current, touched>>
  BY DEF IInv, TypeOK, UpdateAfterValidation
<1>3. ClientsRight'
  BY AsksStep DEF UpdateAfterValidation
<1>4. CASE r.url \notin Cached
  <2>1. cache' = cache /\ confirmed' = confirmed
    BY <1>1, <1>2, <1>4 DEF UpdateAfterValidation
  <2>2. QED
    BY <1>2, <1>3, <2>1, DropStep
<1>5. CASE r.url \in Cached
  <2>1. /\ cache' = [u \in Urls |-> IF u = r.url THEN Validated(u, r) ELSE cache[u]]
        /\ confirmed' = [confirmed EXCEPT ![r.url] = now]
    BY <1>2, <1>5 DEF UpdateAfterValidation
  <2>2. cache[r.url] \in Entry /\ EntryHonest(r.url)
    BY <1>5, EntryThere DEF IInv
  <2>3. /\ Validated(r.url, r) \in Entry /\ Validated(r.url, r).is_stale = FALSE
        /\ Validated(r.url, r).expires_at = now + Ttl(r.age)
        /\ Validated(r.url, r).last_accessed = cache[r.url].last_accessed
    BY <1>1, <1>5, ValidatedThere DEF IInv
  <2> HIDE DEF r
  <2>4. OthersKept(r.url) /\ cache'[r.url] = Validated(r.url, r)
    BY <1>1, <1>2, <2>1, <2>3 DEF OthersKept
  <2>5. cache'[r.url].last_accessed = touched'[r.url]
    BY <1>2, <2>2, <2>3, <2>4 DEF EntryHonest
  <2>6. QED
    BY <1>1, <1>2, <1>3, <2>1, <2>3, <2>4, <2>5, ConfirmStep
<1>6. QED
  BY <1>4, <1>5

-----------------------------------------------------------------------------
(* The other steps.                                                        *)

LEMMA AskOnlyStep ==
  ASSUME Assumed, IInv, NEW c \in Clients,
         \/ GetConditionalHeaders(c) \/ Validate(c) \/ ResponseLost(c)
         \/ \E tagged \in BOOLEAN, age \in MaxAges \cup {None} : ServerResponds(c, tagged, age)
  PROVE  IInv'
<1>1. /\ UNCHANGED <<now, config, cache, current, observer>>
      /\ cache \in [Urls -> Entry \cup {None}]
  BY DEF GetConditionalHeaders, Validate, ResponseLost, ServerResponds, IInv, TypeOK
<1>2. request[c] # None =>
        /\ request[c] \in Requests /\ request[c].url \in Urls
        /\ current[request[c].url] \in Versions
  BY DEF IInv, TypeOK, Requests
<1>3. SUFFICES ClientsRight'
  BY <1>1, DropStep
<1>4. CASE GetConditionalHeaders(c)
  <2> DEFINE u == request[c].url
             tag == IF u \in Cached THEN cache[u].tag ELSE None
  <2>1. u \in Urls /\ tag \in Versions \cup {None}
    BY <1>2, <1>4, EntryThere DEF GetConditionalHeaders, In, IInv
  <2>2. Asks(c, Request("sent", u, tag))
    BY <1>4 DEF GetConditionalHeaders
  <2> HIDE DEF u, tag
  <2>3. QED
    BY <2>1, <2>2, RequestType, AsksStep
<1>5. CASE Validate(c)
  <2>1. request[c] \in Requests /\ request[c].url \in Urls
    BY <1>2, <1>5 DEF Validate, In
  <2>2. PICK r \in {[request[c] EXCEPT !.phase = "fresh"], Request("sent", request[c].url, None)} :
          Asks(c, r)
    BY <1>5 DEF Validate
  <2>3. r \in Requests /\ r.phase # "200"
    BY <2>1, <2>2, RequestType DEF Requests
  <2>4. QED
    BY <2>2, <2>3, AsksStep
<1>6. CASE ResponseLost(c)
  BY <1>6, AsksStep DEF ResponseLost
<1>7. CASE \E tagged \in BOOLEAN, age \in MaxAges \cup {None} : ServerResponds(c, tagged, age)
  <2>1. PICK tagged \in BOOLEAN, age \in MaxAges \cup {None} : ServerResponds(c, tagged, age)
    BY <1>7
  <2> DEFINE old == request[c]
             phase == IF old.tag = current[old.url] THEN "304" ELSE "200"
             tag == IF tagged THEN current[old.url] ELSE None
             r == [old EXCEPT !.phase = phase, !.tag = tag, !.version = current[old.url], !.age = age]
  <2>2. old \in Requests /\ current[old.url] \in Versions
    BY <1>2, <2>1 DEF ServerResponds, In
  <2>3. phase \in {"304", "200"} /\ tag \in Versions \cup {None}
    BY <2>2
  <2>4. Asks(c, r)
    BY <2>1 DEF ServerResponds
  <2> HIDE DEF phase, tag
  <2>5. r \in Requests /\ r.version \in Versions
    BY <2>1, <2>2, <2>3 DEF Requests
  <2>6. QED
    BY <2>4, <2>5, AsksStep
<1>8. QED
  BY <1>4, <1>5, <1>6, <1>7

LEMMA ForgetStep ==
  ASSUME Assumed, IInv, NEW gone, Forgets(gone)
  PROVE  IInv'
<1>1. cache \in [Urls -> Entry \cup {None}]
  BY DEF IInv, TypeOK
<1>2. QED
  BY <1>1, SameRequests, DropStep DEF Forgets

LEMMA TimeStep ==
  ASSUME Assumed, IInv, TimePasses
  PROVE  IInv'
<1>1. /\ now \in 0 .. MaxTime /\ MaxTime \in Nat /\ now' = now + 1 /\ now' \in 0 .. MaxTime
      /\ cache \in [Urls -> Entry \cup {None}]
      /\ touched \in [Urls -> 0 .. now] /\ confirmed \in [Urls -> 0 .. now]
      /\ UNCHANGED <<config, cache, current, request, observer>>
  BY DEF IInv, TypeOK, TimePasses, Assumed, CacheAssumption
<1>2. Entry \subseteq Entry' /\ 0 .. now \subseteq 0 .. now'
  BY <1>1 DEF Entry
<1>3. TypeOK'
  <2>1. cache' \in [Urls -> Entry' \cup {None}] /\ touched' \in [Urls -> 0 .. now']
        /\ confirmed' \in [Urls -> 0 .. now']
    BY <1>1, <1>2
  <2>2. QED
    BY <1>1, <2>1 DEF IInv, TypeOK
<1>4. ASSUME NEW u \in Cached' PROVE EntryHonest(u)'
  <2>1. u \in Cached /\ cache[u].expires_at \in Nat /\ cache' = cache
    BY <1>1, <1>4, EntryThere DEF Cached, IInv
  <2>2. QED
    BY <1>1, <2>1 DEF IInv, EntryHonest, Expired
<1>5. QED
  BY <1>1, <1>3, <1>4 DEF IInv, AnswerThere, In

LEMMA QuietStep ==
  ASSUME Assumed, IInv,
         (\E f \in Configs : Configure(f)) \/ (\E u \in Urls : ServerChanges(u)) \/ UNCHANGED vars
  PROVE  IInv'
<1>1. /\ UNCHANGED <<now, cache, request, observer>>
      /\ config' \in Configs /\ current' \in [Urls -> Versions]
  BY DEF Configure, ServerChanges, IInv, TypeOK
<1>2. TypeOK'
  BY <1>1 DEF IInv, TypeOK, Entry
<1>3. QED
  BY <1>1, <1>2 DEF IInv, Cached, EntryHonest, Expired, AnswerThere, In

LEMMA IInvInit == Assumed /\ Init => IInv
<1> SUFFICES ASSUME Assumed, Init PROVE IInv
  OBVIOUS
<1>1. TypeOK
  BY DEF Init, TypeOK, Assumed, CacheAssumption, Versions
<1>2. QED
  BY <1>1 DEF Init, IInv, Cached, AnswerThere, In

LEMMA IInvStep == Assumed /\ IInv /\ [Next]_vars => IInv'
<1> SUFFICES ASSUME Assumed, IInv, [Next]_vars PROVE IInv'
  OBVIOUS
<1>1. ASSUME NEW c \in Clients, ClientStep(c) PROVE IInv'
  BY <1>1, GetStep, StoreStep, UpdateStep, AskOnlyStep DEF ClientStep
<1>2. ASSUME (\E u \in Urls : Remove(u)) \/ Clear \/ Cleanup PROVE IInv'
  BY <1>2, ForgetStep DEF Remove, Clear, Cleanup
<1>3. QED
  BY <1>1, <1>2, TimeStep, QuietStep DEF Next

-----------------------------------------------------------------------------
(* The theorems.                                                           *)

\* An entry marked stale has expired (StaleMarkHonest): the mark comes with a
\* read past the expiry, and the time to live is only ever set anew by a store
\* or a validation, both of which take the mark off.
THEOREM MarksAreHonest ==
  ASSUME Assumed
  PROVE  Spec => []StaleMarkHonest
<1>1. Init => IInv
  BY IInvInit
<1>2. IInv /\ [Next]_vars => IInv'
  BY IInvStep
<1>3. IInv => StaleMarkHonest
  BY DEF IInv, EntryHonest, StaleMarkHonest
<1>4. QED
  BY <1>1, <1>2, <1>3, PTL DEF Spec

\* What a client is given was stored or validated no longer ago than the
\* longest lifetime and the stale window (AnswersRecent).
THEOREM AnswersAreRecent ==
  ASSUME Assumed
  PROVE  Spec => AnswersRecent
<1>1. Init => IInv
  BY IInvInit
<1>2. IInv /\ [Next]_vars => IInv'
  BY IInvStep
<1>3. IInv' => [\A u \in Urls : u \in Cached' /\ cache'[u].last_accessed = now
                                => now <= confirmed'[u] + MaxTtl + StaleMaxAge]_vars
  BY DEF IInv, EntryHonest
<1>4. QED
  BY <1>1, <1>2, <1>3, PTL DEF Spec, AnswersRecent

-----------------------------------------------------------------------------
(* Eviction.                                                               *)

\* A set of natural numbers has a least one.
LEMMA LeastThere ==
  ASSUME NEW T \in SUBSET Nat, T # {}
  PROVE  \E m \in T : \A n \in T : m <= n
<1> DEFINE R == {p \in Nat \X Nat : p[1] < p[2]}
<1>1. IsWellFoundedOn(R, Nat)
  BY NatLessThanWellFounded DEF OpToRel
<1>2. PICK m \in T : \A n \in T : ~ (<<n, m>> \in R)
  <2> HIDE DEF R
  <2>1. QED
    BY <1>1, WFMin
<1>3. ASSUME NEW n \in T PROVE m <= n
  <2>1. n \in Nat /\ m \in Nat /\ <<n, m>> \in Nat \X Nat
    OBVIOUS
  <2>2. ~ (n < m)
    BY <1>2, <1>3, <2>1
  <2>3. QED
    BY <2>1, <2>2
<1>4. QED
  BY <1>3

\* A full cache that is not empty has an entry to evict.
LEMMA VictimThere ==
  ASSUME Assumed, TypeOK, Full, Cached # {}
  PROVE  Victims # {}
<1>1. \A w \in Cached : cache[w].last_accessed \in Nat
  BY EntryThere
<1> DEFINE T == {cache[w].last_accessed : w \in Cached}
<1>2. T \in SUBSET Nat /\ T # {}
  BY <1>1
<1>3. PICK m \in T : \A n \in T : m <= n
  BY <1>2, LeastThere
<1>4. PICK v \in Cached : \A w \in Cached : cache[v].last_accessed <= cache[w].last_accessed
  BY <1>3
<1>5. QED
  BY <1>4 DEF Victims

\* A step other than a store gives no url an entry, and drops none while it
\* takes a client's answer.
LEMMA OthersDropOrAnswer ==
  ASSUME Assumed, IInv, [Next]_vars, \A c \in Clients : ~Store(c)
  PROVE  /\ Cached' \subseteq Cached
         /\ (\A c \in Clients : In(c, "200") => In(c, "200")') \/ Cached' = Cached
<1>1. /\ cache \in [Urls -> Entry \cup {None}] /\ None \notin Entry
      /\ request \in [Clients -> Requests \cup {None}]
  BY EntryNotNone DEF IInv, TypeOK
<1>2. ASSUME NEW c \in Clients, NEW u \in Urls, Get(c, u)
      PROVE  Cached' \subseteq Cached /\ \A d \in Clients : In(d, "200") => In(d, "200")'
  <2>1. \A d \in Clients : d # c => request'[d] = request[d]
    BY <1>1, <1>2 DEF Get, Miss, Hit, StaleHit, ExpiredMiss, Asks
  <2>2. \A d \in Clients : In(d, "200") => In(d, "200")'
    BY <1>2, <2>1 DEF In, Get
  <2>3. \A w \in Urls : cache[w] = None => cache'[w] = None
    BY <1>1, <1>2 DEF Get, Miss, Hit, StaleHit, ExpiredMiss, Reads, Cached
  <2>4. QED
    BY <2>2, <2>3 DEF Cached
<1>3. ASSUME NEW c \in Clients, UpdateAfterValidation(c)
      PROVE  Cached' = Cached
  <2>1. request[c] \in Requests
    BY <1>1, <1>3 DEF UpdateAfterValidation, In
  <2>2. \A w \in Urls : cache[w] # None => cache'[w] # None
    BY <1>1, <1>3, <2>1, ValidatedThere DEF UpdateAfterValidation, IInv, Cached
  <2>3. \A w \in Urls : cache[w] = None => cache'[w] = None
    BY <1>1, <1>3 DEF UpdateAfterValidation, Cached
  <2>4. QED
    BY <2>2, <2>3 DEF Cached
<1>4. ASSUME NEW c \in Clients,
             \/ GetConditionalHeaders(c) \/ Validate(c) \/ ResponseLost(c)
             \/ \E tagged \in BOOLEAN, age \in MaxAges \cup {None} : ServerResponds(c, tagged, age)
      PROVE  Cached' = Cached
  BY <1>4 DEF GetConditionalHeaders, Validate, ResponseLost, ServerResponds, Cached
<1>5. ASSUME NEW gone, Forgets(gone)
      PROVE  Cached' \subseteq Cached /\ \A d \in Clients : In(d, "200") => In(d, "200")'
  BY <1>1, <1>5 DEF Forgets, Cached, In
<1>6. ASSUME (\E f \in Configs : Configure(f)) \/ (\E u \in Urls : ServerChanges(u)) \/ TimePasses
             \/ UNCHANGED vars
      PROVE  Cached' = Cached
  BY <1>6 DEF Configure, ServerChanges, TimePasses, Cached
<1>7. QED
  BY <1>2, <1>3, <1>4, <1>5, <1>6 DEF Next, ClientStep, Remove, Clear, Cleanup

\* What a store evicts was used least recently.
LEMMA StoreEvicts ==
  ASSUME Assumed, IInv, NEW c \in Clients, Store(c),
         NEW u \in Cached \ {request[c].url}, u \notin Cached'
  PROVE  \A w \in Cached : touched[u] <= touched[w]
<1> DEFINE r == request[c]
           fresh == [version |-> r.version, tag |-> r.tag, expires_at |-> now + Ttl(r.age),
                     last_accessed |-> now, is_stale |-> FALSE]
<1>1. PICK gone \in IF Victims = {} THEN {{}} ELSE {{v} : v \in Victims} :
        cache' = [w \in Urls |-> IF w = r.url THEN fresh ELSE IF w \in gone THEN None ELSE cache[w]]
  BY DEF Store
<1> HIDE DEF fresh
<1>2. u \in Urls /\ cache[u] # None /\ cache'[u] = None
  BY DEF Cached
<1>3. u \in gone
  BY <1>1, <1>2
<1>4. u \in Victims
  BY <1>1, <1>3
<1>5. \A w \in Cached : cache[u].last_accessed <= cache[w].last_accessed
  BY <1>4 DEF Victims
<1>6. QED
  BY <1>5 DEF IInv, EntryHonest

\* A store leaves no more entries than there were, or than the limit, or one.
LEMMA StoreBounded ==
  ASSUME Assumed, IsFiniteSet(Urls), IInv, NEW c \in Clients, Store(c)
  PROVE  Cardinality(Cached') <= Greatest(Cardinality(Cached), Greatest(1, config.max_entries))
<1> DEFINE r == request[c]
           fresh == [version |-> r.version, tag |-> r.tag, expires_at |-> now + Ttl(r.age),
                     last_accessed |-> now, is_stale |-> FALSE]
           url == r.url
           n == Cardinality(Cached)
           limit == config.max_entries
<1>1. PICK gone \in IF Victims = {} THEN {{}} ELSE {{v} : v \in Victims} :
        cache' = [w \in Urls |-> IF w = url THEN fresh ELSE IF w \in gone THEN None ELSE cache[w]]
  BY DEF Store
<1>2. IsFiniteSet(Cached) /\ n \in Nat /\ limit \in Nat
  <2>1. IsFiniteSet(Cached)
    BY FS_Subset DEF Cached
  <2>2. config \in [max_entries : Nat, swr : BOOLEAN]
    BY DEF IInv, TypeOK, Assumed, CacheAssumption
  <2>3. QED
    BY <2>1, <2>2, FS_CardinalityType
<1> HIDE DEF fresh
<1>3. Cached' \subseteq (Cached \ gone) \cup {url}
  BY <1>1 DEF Cached
<1> HIDE DEF url
<1>4. CASE ~Full
  <2>1. Cached' \subseteq Cached \cup {url} /\ IsFiniteSet(Cached \cup {url})
    BY <1>2, <1>3, FS_AddElement
  <2>2. Cardinality(Cached') <= Cardinality(Cached \cup {url}) /\ Cardinality(Cached') \in Nat
    BY <2>1, FS_Subset, FS_CardinalityType
  <2>3. Cardinality(Cached \cup {url}) <= n + 1 /\ Cardinality(Cached \cup {url}) \in Nat
    BY <1>2, <2>1, FS_AddElement, FS_CardinalityType
  <2>4. n < limit
    BY <1>2, <1>4 DEF Full
  <2> HIDE DEF n, limit
  <2>5. QED
    BY <1>2, <2>2, <2>3, <2>4 DEF Greatest, n, limit
<1>5. CASE Full /\ Cached = {}
  <2>1. Cached' \subseteq {url}
    BY <1>3, <1>5
  <2>2. Cardinality(Cached') <= 1 /\ Cardinality(Cached') \in Nat
    <3>1. IsFiniteSet({url}) /\ Cardinality({url}) = 1
      BY FS_Singleton
    <3>2. Cached' \in SUBSET {url}
      BY <2>1
    <3>3. IsFiniteSet(Cached') /\ Cardinality(Cached') <= Cardinality({url})
      BY <3>1, <3>2, FS_Subset
    <3>4. QED
      BY <3>1, <3>3, FS_CardinalityType
  <2>3. QED
    BY <1>2, <2>2 DEF Greatest
<1>6. CASE Full /\ Cached # {}
  <2>1. PICK v \in Victims : gone = {v}
    BY <1>1, <1>6, VictimThere DEF IInv
  <2>2. v \in Cached
    BY <2>1 DEF Victims
  <2>3. /\ IsFiniteSet(Cached \ {v}) /\ Cardinality(Cached \ {v}) = n - 1
        /\ IsFiniteSet((Cached \ {v}) \cup {url})
        /\ Cardinality((Cached \ {v}) \cup {url}) <= n
    <3>1. IsFiniteSet(Cached \ {v}) /\ Cardinality(Cached \ {v}) = n - 1
      BY <1>2, <2>2, FS_RemoveElement
    <3>2. /\ IsFiniteSet((Cached \ {v}) \cup {url})
          /\ Cardinality((Cached \ {v}) \cup {url})
               = IF url \in Cached \ {v} THEN n - 1 ELSE n - 1 + 1
      BY <3>1, FS_AddElement
    <3> HIDE DEF n
    <3>3. QED
      BY <1>2, <3>1, <3>2
  <2>4. Cached' \subseteq (Cached \ {v}) \cup {url}
    BY <1>3, <2>1
  <2>5. Cardinality(Cached') <= Cardinality((Cached \ {v}) \cup {url}) /\ Cardinality(Cached') \in Nat
    BY <2>3, <2>4, FS_Subset, FS_CardinalityType
  <2>6. Cardinality((Cached \ {v}) \cup {url}) \in Nat
    BY <2>3, FS_CardinalityType
  <2>7. QED
    BY <1>2, <2>3, <2>5, <2>6 DEF Greatest
<1>7. QED
  BY <1>4, <1>5, <1>6

\* A store evicts what was used least recently, and the cache never grows past
\* its limit (EvictsLeastRecent).
THEOREM LeastRecentGoes ==
  ASSUME Assumed, IsFiniteSet(Urls)
  PROVE  Spec => EvictsLeastRecent
<1> DEFINE Taken == \A c \in Clients, u \in Urls :
                      In(c, "200") /\ ~In(c, "200")' /\ u \in Cached \ {request[c].url} /\ u \notin Cached'
                        => \A w \in Cached : touched[u] <= touched[w]
           Kept == Cardinality(Cached')
                     <= Greatest(Cardinality(Cached), Greatest(1, config.max_entries))
<1>1. Init => IInv
  BY IInvInit
<1>2. IInv /\ [Next]_vars => IInv'
  BY IInvStep
<1>3. ASSUME IInv, [Next]_vars PROVE Taken /\ Kept
  <2>1. CASE \E c \in Clients : Store(c)
    <3>1. PICK c \in Clients : Store(c)
      BY <2>1
    <3>2. Kept
      BY <1>3, <3>1, StoreBounded
    <3>3. \A d \in Clients : In(d, "200") /\ ~In(d, "200")' => d = c
      <4>1. request' = [request EXCEPT ![c] = None] /\ request \in [Clients -> Requests \cup {None}]
        BY <1>3, <3>1 DEF Store, Asks, IInv, TypeOK
      <4>2. QED
        BY <4>1 DEF In
    <3>4. Taken
      BY <1>3, <3>1, <3>3, StoreEvicts
    <3>5. QED
      BY <3>2, <3>4
  <2>2. CASE \A c \in Clients : ~Store(c)
    <3>1. /\ Cached' \subseteq Cached
          /\ (\A c \in Clients : In(c, "200") => In(c, "200")') \/ Cached' = Cached
      BY <1>3, <2>2, OthersDropOrAnswer
    <3>2. Taken
      BY <3>1
    <3>3. IsFiniteSet(Cached) /\ config.max_entries \in Nat
      BY <1>3, FS_Subset DEF Cached, IInv, TypeOK, Assumed, CacheAssumption
    <3>4. /\ Cardinality(Cached') <= Cardinality(Cached)
          /\ Cardinality(Cached') \in Nat /\ Cardinality(Cached) \in Nat
      BY <3>1, <3>3, FS_Subset, FS_CardinalityType
    <3>5. Kept
      BY <3>3, <3>4 DEF Greatest
    <3>6. QED
      BY <3>2, <3>5
  <2>3. QED
    BY <2>1, <2>2
<1>4. IInv /\ [Next]_vars => [Taken /\ Kept]_vars
  BY <1>3
<1> HIDE DEF Taken, Kept
<1>5. QED
  BY <1>1, <1>2, <1>4, PTL DEF Spec, EvictsLeastRecent, Taken, Kept

-----------------------------------------------------------------------------
(* The recovery.  EndsAccounted is inductive as it stands: types, books    *)
(* and breaker are shown to be kept in a lemma each.                       *)

USE DEF breaker, recoveryVars

\* A delay is a number, also if the jitter is longer than the delay.
LEMMA DelaysAreNumbers ==
  ASSUME NEW f \in RetryConfigs, NEW n \in Nat
  PROVE  NextDelays(f, n) \subseteq Nat
<1>1. f \in Config
  BY RecoveryAssumption
<1>2. f.max_delay \in Nat /\ f.jitter_range \in Nat
  BY <1>1 DEF Config
<1>3. QED
  BY <1>2 DEF NextDelays

LEMMA TypeStep ==
  ASSUME RecoveryTypeOK, begun' \in 0 .. MaxOperations, [RecoveryNext]_recoveryVars
  PROVE  RecoveryTypeOK'
<1> USE RecoveryAssumption DEF RecoveryTypeOK, Labels, At, Goes
<1>1. ASSUME NEW c \in Callers, NEW live \in BOOLEAN, NEW f \in RetryConfigs, Begins(c, live, f)
      PROVE  RecoveryTypeOK'
  BY <1>1 DEF Begins, NoOperation
<1>2. ASSUME NEW c \in Callers, FuncEnds(c) PROVE RecoveryTypeOK'
  <2>1. CASE Succeeds(c) \/ FailsForGood(c)
    BY <2>1 DEF Succeeds, FailsForGood, Called
  <2>2. CASE Fails(c)
    <3>1. op[c].current_attempt + 1 \in Nat /\ op[c].config \in RetryConfigs
      OBVIOUS
    <3>2. NextDelays(op[c].config, op[c].current_attempt + 1) \subseteq Nat
      BY <3>1, DelaysAreNumbers
    <3>3. CASE CanRetry(op[c].config, op[c].current_attempt + 1)
      <4>1. PICK d \in Nat : Called(c, "sleep", op[c].current_attempt + 1, d)
        BY <2>2, <3>2, <3>3 DEF Fails
      <4>2. QED
        BY <3>1, <4>1 DEF Called
    <3>4. CASE ~CanRetry(op[c].config, op[c].current_attempt + 1)
      BY <2>2, <3>1, <3>4 DEF Fails, Called
    <3>5. QED
      BY <3>3, <3>4
  <2>3. QED
    BY <1>2, <2>1, <2>2 DEF FuncEnds
<1>3. ASSUME NEW c \in Callers, Continues(c) PROVE RecoveryTypeOK'
  <2>1. CASE SleepEnds(c)
    BY <2>1 DEF SleepEnds
  <2>2. CASE UpdateStatistics(c)
    <3>1. Updated(c) \in [total : Nat, successful : Nat, retries : Nat]
      BY DEF Updated
    <3>2. QED
      BY <2>2, <3>1 DEF UpdateStatistics
  <2>3. CASE ClearsFailures(c) \/ CountsFailure(c)
    BY <2>3 DEF ClearsFailures, CountsFailure
  <2>4. CASE TestsBreaker(c)
    BY <2>4 DEF TestsBreaker
  <2>5. QED
    BY <1>3, <2>1, <2>2, <2>3, <2>4 DEF Continues
<1>4. ASSUME NEW f \in RetryConfigs, SetDefaultConfig(f) PROVE RecoveryTypeOK'
  BY <1>4 DEF SetDefaultConfig
<1>5. ASSUME NEW n \in Thresholds, SetCircuitBreakerThreshold(n) PROVE RecoveryTypeOK'
  BY <1>5 DEF SetCircuitBreakerThreshold
<1>6. CASE AddErrorClassifier \/ ResetCloses \/ ResetCounts \/ ResetStatistics
  <2>1. CASE ResetStatistics
    <3>1. statistics' \in [total : Nat, successful : Nat, retries : Nat]
      BY <2>1 DEF ResetStatistics
    <3>2. QED
      BY <2>1, <3>1 DEF ResetStatistics
  <2>2. CASE ResetCloses
    BY <2>2 DEF ResetCloses
  <2>3. CASE ResetCounts
    BY <2>3 DEF ResetCounts
  <2>4. CASE AddErrorClassifier
    BY <2>4 DEF AddErrorClassifier
  <2>5. QED
    BY <1>6, <2>1, <2>2, <2>3, <2>4
<1>7. CASE UNCHANGED recoveryVars
  BY <1>7
<1>8. QED
  BY <1>1, <1>2, <1>3, <1>4, <1>5, <1>6, <1>7 DEF RecoveryNext

-----------------------------------------------------------------------------
(* The books.                                                              *)

\* An operation enters the set of those to be recorded when it begins, and
\* leaves it in the step that records it.
LEMMA BooksStep ==
  ASSUME IsFiniteSet(Callers), OperationsRecordedOnce, [RecoveryNext]_recoveryVars
  PROVE  OperationsRecordedOnce'
<1> USE DEF OperationsRecordedOnce
<1> DEFINE n == Cardinality(Unrecorded)
<1>0. /\ IsFiniteSet(Unrecorded) /\ n \in Nat
      /\ RecoveryTypeOK /\ begun = statistics.total + n /\ statistics.successful <= statistics.total
      /\ begun \in Nat /\ begun <= MaxOperations /\ MaxOperations \in Nat
      /\ statistics.total \in Nat /\ statistics.successful \in Nat
  <2>1. IsFiniteSet(Unrecorded)
    BY FS_Subset DEF Unrecorded
  <2>2. QED
    BY <2>1, RecoveryAssumption, FS_CardinalityType DEF RecoveryTypeOK
<1> USE DEF At, Goes
<1>1. ASSUME NEW c \in Callers, NEW live \in BOOLEAN, NEW f \in RetryConfigs, Begins(c, live, f)
      PROVE  OperationsRecordedOnce'
  <2>1. Unrecorded' = Unrecorded \cup {c} /\ c \notin Unrecorded
    BY <1>0, <1>1 DEF Begins, NoOperation, Unrecorded, RecoveryTypeOK
  <2>2. n' = n + 1
    BY <1>0, <2>1, FS_AddElement
  <2>3. begun' = begun + 1 /\ begun' <= MaxOperations /\ statistics' = statistics
    BY <1>0, <1>1 DEF Begins
  <2>4. RecoveryTypeOK'
    BY <1>0, <1>1, <2>3, TypeStep DEF RecoveryNext
  <2>5. QED
    BY <1>0, <2>2, <2>3, <2>4
<1>2. ASSUME NEW c \in Callers, UpdateStatistics(c) PROVE OperationsRecordedOnce'
  <2>1. Unrecorded' = Unrecorded \ {c} /\ c \in Unrecorded
    BY <1>0, <1>2 DEF UpdateStatistics, Unrecorded, RecoveryTypeOK
  <2>2. n' = n - 1
    BY <1>0, <2>1, FS_RemoveElement
  <2>3. /\ begun' = begun /\ statistics'.total = statistics.total + 1
        /\ \/ statistics'.successful = statistics.successful
           \/ statistics'.successful = statistics.successful + 1
    BY <1>0, <1>2 DEF UpdateStatistics, Updated
  <2>4. RecoveryTypeOK'
    BY <1>0, <1>2, <2>3, TypeStep DEF RecoveryNext, Continues
  <2>5. QED
    BY <1>0, <2>2, <2>3, <2>4
<1>3. CASE ResetStatistics
  <2>1. Unrecorded' = Unrecorded /\ begun' = n /\ n <= begun
    BY <1>0, <1>3 DEF ResetStatistics, Unrecorded
  <2>2. RecoveryTypeOK'
    BY <1>0, <1>3, <2>1, TypeStep DEF RecoveryNext
  <2>3. QED
    BY <1>0, <1>3, <2>1, <2>2 DEF ResetStatistics
<1>4. ASSUME Unrecorded' = Unrecorded, UNCHANGED <<statistics, begun>>
      PROVE  OperationsRecordedOnce'
  BY <1>0, <1>4, TypeStep
<1>5. ASSUME NEW c \in Callers, FuncEnds(c) PROVE OperationsRecordedOnce'
  <2>1. \E label \in {"succeeded", "refused", "sleep", "exhausted"} : \E attempt, delay :
          Called(c, label, attempt, delay)
    BY <1>5 DEF FuncEnds, Succeeds, FailsForGood, Fails
  <2>2. QED
    BY <1>0, <1>4, <2>1 DEF Called, Unrecorded, RecoveryTypeOK
<1>6. ASSUME NEW c \in Callers,
             SleepEnds(c) \/ ClearsFailures(c) \/ CountsFailure(c) \/ TestsBreaker(c)
      PROVE  OperationsRecordedOnce'
  BY <1>0, <1>4, <1>6 DEF SleepEnds, ClearsFailures, CountsFailure, TestsBreaker, Unrecorded,
     RecoveryTypeOK
<1>7. ASSUME NEW f \in RetryConfigs, SetDefaultConfig(f) PROVE OperationsRecordedOnce'
  BY <1>4, <1>7 DEF SetDefaultConfig, Unrecorded
<1>8. ASSUME NEW m \in Thresholds, SetCircuitBreakerThreshold(m) PROVE OperationsRecordedOnce'
  BY <1>4, <1>8 DEF SetCircuitBreakerThreshold, Unrecorded
<1>9. CASE AddErrorClassifier \/ ResetCloses \/ ResetCounts \/ UNCHANGED recoveryVars
  BY <1>4, <1>9 DEF AddErrorClassifier, ResetCloses, ResetCounts, Unrecorded
<1>10. QED
  BY <1>1, <1>2, <1>3, <1>5, <1>6, <1>7, <1>8, <1>9 DEF RecoveryNext, Continues

-----------------------------------------------------------------------------
(* The breaker.                                                            *)

\* Who makes the counter reach a threshold tests the breaker next, and until
\* that is done the formula says nothing.  A threshold of 0 would have been
\* reached before the first failure.
LEMMA BreakerStep ==
  ASSUME RecoveryTypeOK, TripsAtThreshold, [RecoveryNext]_recoveryVars,
         \E n \in Thresholds : n > 0
  PROVE  TripsAtThreshold'
<1> USE RecoveryAssumption DEF RecoveryTypeOK, TripsAtThreshold, At, Goes
<1>1. ASSUME NEW c \in Callers, NEW live \in BOOLEAN, NEW f \in RetryConfigs, Begins(c, live, f)
      PROVE  TripsAtThreshold'
  BY <1>1 DEF Begins, NoOperation
<1>2. ASSUME NEW c \in Callers, FuncEnds(c) PROVE TripsAtThreshold'
  <2>1. \E label \in {"succeeded", "refused", "sleep", "exhausted"} : \E attempt, delay :
          Called(c, label, attempt, delay)
    BY <1>2 DEF FuncEnds, Succeeds, FailsForGood, Fails
  <2>2. QED
    BY <2>1 DEF Called
<1>3. ASSUME NEW c \in Callers, ClearsFailures(c) PROVE TripsAtThreshold'
  BY <1>3 DEF ClearsFailures
<1>4. ASSUME NEW c \in Callers, CountsFailure(c) PROVE TripsAtThreshold'
  BY <1>4 DEF CountsFailure
<1>5. ASSUME NEW c \in Callers, TestsBreaker(c) PROVE TripsAtThreshold'
  BY <1>5 DEF TestsBreaker
<1>6. ASSUME NEW c \in Callers, SleepEnds(c) \/ UpdateStatistics(c) PROVE TripsAtThreshold'
  BY <1>6 DEF SleepEnds, UpdateStatistics
<1>7. CASE \/ \E f \in RetryConfigs : SetDefaultConfig(f)
           \/ \E n \in Thresholds : SetCircuitBreakerThreshold(n)
           \/ AddErrorClassifier \/ ResetStatistics \/ UNCHANGED recoveryVars
  BY <1>7 DEF SetDefaultConfig, SetCircuitBreakerThreshold, AddErrorClassifier, ResetStatistics
<1>8. CASE ResetCloses \/ ResetCounts
  BY <1>8 DEF ResetCloses, ResetCounts
<1>9. QED
  BY <1>1, <1>2, <1>3, <1>4, <1>5, <1>6, <1>7, <1>8 DEF RecoveryNext, Continues

-----------------------------------------------------------------------------

LEMMA AccountsInit ==
  ASSUME RecoveryInit, \E n \in Thresholds : n > 0
  PROVE  EndsAccounted
<1>1. RecoveryTypeOK
  <2>1. statistics \in [total : Nat, successful : Nat, retries : Nat] /\ begun \in 0 .. MaxOperations
    BY RecoveryAssumption DEF RecoveryInit
  <2>2. op \in [Callers -> [at : Labels, live : BOOLEAN, config : RetryConfigs,
                           current_attempt : Nat, delay : Nat]]
    BY DEF RecoveryInit, Labels, NoOperation
  <2>3. QED
    BY <2>1, <2>2 DEF RecoveryInit, RecoveryTypeOK
<1>2. Unrecorded = {}
  BY DEF RecoveryInit, Unrecorded, NoOperation
<1>3. OperationsRecordedOnce
  BY <1>1, <1>2, FS_EmptySet DEF RecoveryInit, OperationsRecordedOnce
<1>4. TripsAtThreshold
  BY RecoveryAssumption DEF RecoveryInit, TripsAtThreshold
<1>5. QED
  BY <1>3, <1>4 DEF EndsAccounted

\* However many callers run operations, and however the statistics, the
\* breaker, the configuration and the threshold are reset beside them: each
\* operation is recorded once, in updateStatistics, and the breaker is open
\* once a counter that reached the threshold has been tested.
THEOREM Accounted ==
  ASSUME IsFiniteSet(Callers), \E n \in Thresholds : n > 0
  PROVE  RecoverySpec => []EndsAccounted
<1>1. RecoveryInit => EndsAccounted
  BY AccountsInit
<1>2. EndsAccounted /\ [RecoveryNext]_recoveryVars => EndsAccounted'
  BY BooksStep, BreakerStep DEF EndsAccounted, OperationsRecordedOnce
<1>3. QED
  BY <1>1, <1>2, PTL DEF RecoverySpec
=============================================================================
