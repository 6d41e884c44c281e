----------------------------- MODULE CacheSystem -----------------------------
(***************************************************************************)
(* BBP::CacheSystem: a cache of HTTP responses with validation, expiry, a  *)
(* stale-while-revalidate window and least-recently-used eviction, used by *)
(* clients that fetch from servers whose content changes.                  *)
(*                                                                         *)
(* Every operation is one critical section of mutex_, hence one action.    *)
(* Contents are versions; ETag and Last-Modified are one validator, whose  *)
(* value names the version it was sent with.  Compression, the statistics  *)
(* and the event callback are left out.                                    *)
(***************************************************************************)
EXTENDS Integers, FiniteSets

CONSTANTS
  Urls, Clients,
  MaxAges,       \* max-age values servers send
  DefaultTtl, MinTtl, MaxTtl, StaleMaxAge,
  Configs,       \* configurations: the entry limit and stale-while-revalidate
  MaxVersion,    \* bound: the contents a server may have, one after the other
  MaxTime,       \* bound: the last second
  None           \* no entry, no validator, no header, no request

Versions == 1 .. MaxVersion

\* What is assumed of the constants, by the modules that instantiate this one.
CacheAssumption ==
  /\ MaxAges \subseteq Nat
  /\ DefaultTtl \in Nat /\ MinTtl \in Nat /\ StaleMaxAge \in Nat
  /\ MaxTtl \in Nat /\ MinTtl <= MaxTtl
  /\ DefaultTtl <= MaxTtl
  /\ Configs \subseteq [max_entries : Nat, swr : BOOLEAN]
  /\ MaxVersion \in Nat \ {0}
  /\ MaxTime \in Nat
  /\ None \notin Versions

VARIABLES
  now,        \* the system clock
  config,     \* config_
  cache,      \* cache_: the entry of each url, or None
  current,    \* the version each server has
  request,    \* what each client is about, or None
  touched,    \* observer: when each url was last stored or returned
  confirmed   \* observer: when its content was last stored or validated

observer == <<touched, confirmed>>
vars == <<now, config, cache, current, request, touched, confirmed>>

Least(a, b) == IF a <= b THEN a ELSE b
Greatest(a, b) == IF a <= b THEN b ELSE a

Cached == {u \in Urls : cache[u] # None}
Expired(u) == now > cache[u].expires_at
Stale(u) == now > cache[u].expires_at + StaleMaxAge

\* Fault: max-age is believed whatever it says.
TtlAsSent(age) == IF age = None THEN DefaultTtl ELSE age

\* parseCacheControl: max-age within the configured limits, or the default.
Ttl(age) == IF age = None THEN DefaultTtl ELSE Greatest(MinTtl, Least(MaxTtl, age))

-----------------------------------------------------------------------------
(* The clients and the servers: code outside the repository, as the        *)
(* interface means them to be.  A client that misses fetches; one that     *)
(* gets a stale copy revalidates.                                          *)

Request(phase, url, tag) ==
  [phase |-> phase, url |-> url, tag |-> tag, version |-> None, age |-> None]

Asks(c, r) == request' = [request EXCEPT ![c] = r]
In(c, phase) == request[c] # None /\ request[c].phase = phase

ServerChanges(u) ==
  /\ current[u] + 1 \in Versions
  /\ current' = [current EXCEPT ![u] = @ + 1]
  /\ UNCHANGED <<now, config, cache, request, observer>>

\* 304 when the validator sent is current, otherwise 200 with the content;
\* the response may or may not carry its validator and a max-age.
ServerResponds(c, tagged, age) ==
  LET r == request[c] IN
  /\ In(c, "sent")
  /\ Asks(c, [r EXCEPT !.phase = IF r.tag = current[r.url] THEN "304" ELSE "200",
                       !.tag = IF tagged THEN current[r.url] ELSE None,
                       !.version = current[r.url],
                       !.age = age])
  /\ UNCHANGED <<now, config, cache, current, observer>>

ResponseLost(c) ==
  /\ request[c] # None /\ Asks(c, None)
  /\ UNCHANGED <<now, config, cache, current, observer>>

-----------------------------------------------------------------------------
(* The operations.                                                         *)

\* Fault: returning an entry is not recorded as a use of it.
ReadUnused(u, stale) ==
  cache' = [cache EXCEPT ![u].is_stale = @ \/ stale]

Reads(u, stale) ==
  cache' = [cache EXCEPT ![u].last_accessed = now, ![u].is_stale = @ \/ stale]

Miss(c, u) ==
  /\ u \notin Cached
  /\ cache' = cache
  /\ Asks(c, Request("sent", u, None))
  /\ touched' = touched

Hit(c, u) ==
  /\ u \in Cached /\ ~Expired(u)
  /\ Reads(u, FALSE)
  /\ request' = request
  /\ touched' = [touched EXCEPT ![u] = now]

StaleHit(c, u) ==
  /\ u \in Cached /\ Expired(u) /\ config.swr /\ ~Stale(u)
  /\ Reads(u, TRUE)
  /\ Asks(c, Request("stale", u, None))
  /\ touched' = [touched EXCEPT ![u] = now]

ExpiredMiss(c, u) ==
  /\ u \in Cached /\ Expired(u) /\ (config.swr => Stale(u))
  /\ cache' = [cache EXCEPT ![u] = None]
  /\ Asks(c, Request("sent", u, None))
  /\ touched' = touched

Get(c, u) ==
  /\ request[c] = None
  /\ Miss(c, u) \/ Hit(c, u) \/ StaleHit(c, u) \/ ExpiredMiss(c, u)
  /\ UNCHANGED <<now, config, current, confirmed>>

\* getConditionalHeaders: the validator of the entry there is by now.
GetConditionalHeaders(c) ==
  LET u == request[c].url IN
  /\ In(c, "stale")
  /\ Asks(c, Request("sent", u, IF u \in Cached THEN cache[u].tag ELSE None))
  /\ UNCHANGED <<now, config, cache, current, observer>>

Full == Cardinality(Cached) >= config.max_entries

\* evictLRU's choice among equals is the order of the hash table.
Victims ==
  IF Full THEN {u \in Cached : \A w \in Cached : cache[u].last_accessed <= cache[w].last_accessed}
  ELSE {}

\* store, of a 200: an entry is evicted when the cache is full, even if the
\* url is already there.
Store(c) ==
  LET r == request[c]
      fresh == [version |-> r.version, tag |-> r.tag, expires_at |-> now + Ttl(r.age),
                last_accessed |-> now, is_stale |-> FALSE]
  IN
  /\ In(c, "200")
  /\ \E gone \in IF Victims = {} THEN {{}} ELSE {{v} : v \in Victims} :
       cache' = [u \in Urls |-> IF u = r.url THEN fresh ELSE IF u \in gone THEN None ELSE cache[u]]
  /\ Asks(c, None)
  /\ touched' = [touched EXCEPT ![r.url] = now]
  /\ confirmed' = [confirmed EXCEPT ![r.url] = now]
  /\ UNCHANGED <<now, config, current>>

\* validate, of a 304: FRESH when the validators agree, or when the response
\* or the entry has none and the entry has not expired.
Validate(c) ==
  LET r == request[c]
      fresh == /\ r.url \in Cached
               /\ IF None \in {r.tag, cache[r.url].tag} THEN ~Expired(r.url)
                  ELSE r.tag = cache[r.url].tag
  IN
  /\ In(c, "304")
  /\ Asks(c, IF fresh THEN [r EXCEPT !.phase = "fresh"] ELSE Request("sent", r.url, None))
  /\ UNCHANGED <<now, config, cache, current, observer>>

\* Fault: the stale mark is not taken off.
KeepsMark(u, r) ==
  [cache[u] EXCEPT !.tag = IF r.tag = None THEN @ ELSE r.tag, !.expires_at = now + Ttl(r.age)]

Validated(u, r) ==
  [cache[u] EXCEPT !.tag = IF r.tag = None THEN @ ELSE r.tag, !.expires_at = now + Ttl(r.age),
                   !.is_stale = FALSE]

\* updateAfterValidation, on whatever entry the url has by now.
UpdateAfterValidation(c) ==
  LET r == request[c] IN
  /\ In(c, "fresh")
  /\ cache' = [u \in Urls |-> IF u = r.url /\ u \in Cached THEN Validated(u, r) ELSE cache[u]]
  /\ confirmed' = [confirmed EXCEPT ![r.url] = IF r.url \in Cached THEN now ELSE @]
  /\ Asks(c, None)
  /\ UNCHANGED <<now, config, current, touched>>

Forgets(gone) ==
  /\ cache' = [u \in Urls |-> IF u \in gone THEN None ELSE cache[u]]
  /\ UNCHANGED <<now, config, current, request, observer>>

\* remove, clear and cleanup.
Remove(u) == u \in Cached /\ Forgets({u})
Clear == Cached # {} /\ Forgets(Urls)
Cleanup == Forgets({u \in Cached : Expired(u) /\ (config.swr => Stale(u))})

Configure(f) ==
  /\ config' = f
  /\ UNCHANGED <<now, cache, current, request, observer>>

TimePasses ==
  /\ now < MaxTime
  /\ now' = now + 1
  /\ UNCHANGED <<config, cache, current, request, observer>>

-----------------------------------------------------------------------------
Init ==
  /\ now = 0
  /\ config \in Configs
  /\ cache = [u \in Urls |-> None]
  /\ current = [u \in Urls |-> 1]
  /\ request = [c \in Clients |-> None]
  /\ touched = [u \in Urls |-> 0]
  /\ confirmed = [u \in Urls |-> 0]

ClientStep(c) ==
  \/ \E u \in Urls : Get(c, u)
  \/ GetConditionalHeaders(c) \/ Store(c) \/ Validate(c) \/ UpdateAfterValidation(c)
  \/ \E tagged \in BOOLEAN, age \in MaxAges \cup {None} : ServerResponds(c, tagged, age)
  \/ ResponseLost(c)

Next ==
  \/ \E c \in Clients : ClientStep(c)
  \/ \E u \in Urls : Remove(u) \/ ServerChanges(u)
  \/ Clear \/ Cleanup
  \/ \E f \in Configs : Configure(f)
  \/ TimePasses

Spec == Init /\ [][Next]_vars

-----------------------------------------------------------------------------
(* Properties.                                                             *)

Entry == [version : Versions, tag : Versions \cup {None}, expires_at : Nat,
          last_accessed : 0 .. now, is_stale : BOOLEAN]
Requests == [phase : {"sent", "stale", "200", "304", "fresh"}, url : Urls,
             tag : Versions \cup {None}, version : Versions \cup {None},
             age : MaxAges \cup {None}]

\* Every variable has its type.
TypeOK ==
  /\ now \in 0 .. MaxTime
  /\ config \in Configs
  /\ cache \in [Urls -> Entry \cup {None}]
  /\ current \in [Urls -> Versions]
  /\ request \in [Clients -> Requests \cup {None}]
  /\ touched \in [Urls -> 0 .. now] /\ confirmed \in [Urls -> 0 .. now]

\* A store into a full cache makes room first, by the entry that was stored or
\* returned to a client least recently: the cache never grows past its limit,
\* whoever stores what (one entry is stored also with a limit of 0).
EvictsLeastRecent ==
  [][/\ \A c \in Clients, u \in Urls :
          In(c, "200") /\ ~In(c, "200")' /\ u \in Cached \ {request[c].url} /\ u \notin Cached'
            => \A w \in Cached : touched[u] <= touched[w]
     /\ Cardinality(Cached') <= Greatest(Cardinality(Cached), Greatest(1, config.max_entries))]_vars

\* What a client is given was stored or validated at most the longest
\* time-to-live and the stale window before, whatever lifetimes servers
\* announce and however long their responses take.
AnswersRecent ==
  [][\A u \in Urls :
       u \in Cached' /\ cache'[u].last_accessed = now
         => now <= confirmed'[u] + MaxTtl + StaleMaxAge]_vars

\* The types are kept, and an entry marked stale has expired: a revalidated or
\* replaced one is not taken for stale, and none is marked before its time.
StaleMarkHonest ==
  /\ TypeOK
  /\ \A u \in Cached : cache[u].is_stale => Expired(u)

(***************************************************************************)
(* Promises of the documentation that the code does not keep.              *)
(***************************************************************************)

\* "Thread-safe HTTP cache with ETag/Last-Modified validation": an entry's
\* validator is the one its content came with, so that a 304 for it means
\* the content is current.
ValidatorMatchesContent ==
  \A u \in Cached : cache[u].tag \in {None, cache[u].version}

\* "Maximum number of entries to keep in cache".
LimitKept == Cardinality(Cached) <= config.max_entries
=============================================================================
