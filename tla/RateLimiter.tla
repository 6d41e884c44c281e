----------------------------- MODULE RateLimiter -----------------------------
(***************************************************************************)
(* BBP::RateLimiter: one token bucket and one backoff delay per domain, an *)
(* optional bucket for all of them, and an operation that sleeps.          *)
(*                                                                         *)
(* Every operation is one critical section of mutex_, hence one action.    *)
(* Time is in milliseconds.  Tokens are counted in parts, Token parts to   *)
(* one token, so that a rate of so many parts per millisecond is a natural *)
(* number while a wait computed from it need not be one.                   *)
(***************************************************************************)
EXTENDS Integers

CONSTANTS
  Domains,       \* the names of domains
  Global,        \* the name of the bucket of all domains
  Clients,       \* the threads that use the limiter
  Token,         \* parts in one token
  Rate,          \* parts per millisecond of each bucket once configured
  Burst,         \* burst capacity given to setBucketConfig; 0 for none
  Configs,       \* the backoff configurations in use
  DefaultConfig, \* the one a new domain has
  Asks,          \* the numbers of tokens asked for
  Failing,       \* domains whose answers the clients report
  MaxTime,       \* bound: the last millisecond
  MaxStreak,     \* bound: consecutive failures reported for a domain
  None           \* no bucket, no sleep, no thread

Buckets == Domains \cup {Global}

\* What is assumed of the constants, by the modules that instantiate this one.
RateAssumption ==
  /\ Global \notin Domains
  /\ Token \in Nat \ {0}
  /\ Rate \in [Buckets -> Nat \ {0}]
  /\ Burst \in [Domains -> Nat]
  /\ Configs \subseteq [initial : Nat, max : Nat, multiplier : Nat \ {0}]
  /\ \A f \in Configs : f.initial \in 1 .. f.max
  /\ DefaultConfig \in Configs
  /\ Failing \subseteq Domains
  /\ Asks \subseteq Nat \ {0}
  /\ MaxTime \in Nat /\ MaxStreak \in Nat

VARIABLES
  now,      \* the steady clock
  bucket,   \* tokens and last_refill of each bucket, or None
  config,   \* backoff_config of each domain
  backoff,  \* current_delay_ms, last_failure and consecutive_failures
  asleep,   \* what each client sleeps for in waitForToken, and until when
  hung,     \* the client that holds mutex_ for ever, or None
  watched,  \* observer: a bucket,
  granted,  \* the parts taken from it since ...
  since     \* ... this time

observer == <<watched, granted, since>>
vars == <<now, bucket, config, backoff, asleep, hung, watched, granted,
          since>>

Least(a, b) == IF a <= b THEN a ELSE b
Greatest(a, b) == IF a <= b THEN b ELSE a

NoBackoff == [delay |-> 0, failed |-> 0, streak |-> 0]

-----------------------------------------------------------------------------
(* Buckets.                                                                *)

\* The default burst is two seconds' worth, here two milliseconds', and at
\* least one token; the global bucket always has the default.
Capacity(k) ==
  IF k \in Domains /\ Burst[k] # 0 THEN Burst[k] ELSE Greatest(Token, 2 * Rate[k])

\* Fault: the time of the refill is not recorded.
RefilledForFree(k) ==
  [bucket[k] EXCEPT !.tokens = Least(Capacity(k), @ + (now - bucket[k].last) * Rate[k])]

Refilled(k) ==
  [tokens |-> Least(Capacity(k), bucket[k].tokens + (now - bucket[k].last) * Rate[k]),
   last |-> now]

Awake(c) == hung = None /\ asleep[c] = None

Configures(c, k) ==
  /\ Awake(c)
  /\ bucket' = [bucket EXCEPT ![k] = [tokens |-> Capacity(k), last |-> now]]
  /\ IF k = watched THEN granted' = 0 /\ since' = now ELSE UNCHANGED <<granted, since>>
  /\ UNCHANGED <<now, config, backoff, asleep, hung, watched>>

SetBucketConfig(c, d) == Configures(c, d)
SetGlobalRateLimit(c) == Configures(c, Global)

\* A new window of observation on the watched bucket; no code.
ObserverLooks ==
  /\ since < now
  /\ granted' = 0 /\ since' = now
  /\ UNCHANGED <<now, bucket, config, backoff, asleep, hung, watched>>

-----------------------------------------------------------------------------
(* Requests.                                                               *)

\* A delay that has wholly elapsed is dropped; until then it stands.
Decayed(d) ==
  IF now - backoff[d].failed >= backoff[d].delay THEN 0 ELSE backoff[d].delay

GlobalDenies(n) ==
  bucket[Global] # None /\ Refilled(Global).tokens < n * Token

Grants(d, n) ==
  /\ ~GlobalDenies(n)
  /\ Decayed(d) = 0
  /\ Refilled(d).tokens >= n * Token

\* The buckets a request of d concerns.
Concerned(d) == {d} \cup {k \in {Global} : bucket[k] # None}

Less(b, parts) == [b EXCEPT !.tokens = @ - parts]

TryAcquire(c, d, n) ==
  /\ Awake(c) /\ bucket[d] # None
  /\ bucket' = [k \in Buckets |->
       IF k \notin Concerned(d) THEN bucket[k]
       ELSE Less(Refilled(k), IF Grants(d, n) THEN n * Token ELSE 0)]
  /\ backoff' = [backoff EXCEPT ![d].delay = IF GlobalDenies(n) THEN @ ELSE Decayed(d)]
  /\ granted' = IF watched \in Concerned(d) /\ Grants(d, n) THEN granted + n * Token ELSE granted
  /\ UNCHANGED <<now, config, asleep, hung, watched, since>>

\* A domain without a bucket: tryAcquire, inside mutex_, calls
\* setBucketConfig, which locks the same mutex.
TryAcquireHangs(c, d) ==
  /\ Awake(c) /\ bucket[d] = None
  /\ hung' = c
  /\ UNCHANGED <<now, bucket, config, backoff, asleep, observer>>

\* Fault: the shorter of the two waits.
ShorterWait(d, n) ==
  LET needed == n * Token - Refilled(d).tokens
  IN  IF needed <= 0 THEN 0
      ELSE IF backoff[d].delay = 0 THEN needed \div Rate[d]
      ELSE Least(needed \div Rate[d], backoff[d].delay)

\* getWaitTime: whole milliseconds; nothing to wait for if there are tokens.
WaitTime(d, n) ==
  LET needed == n * Token - Refilled(d).tokens
  IN  IF needed <= 0 THEN 0 ELSE Greatest(needed \div Rate[d], backoff[d].delay)

WaitForToken(c, d, n) ==
  /\ Awake(c) /\ bucket[d] # None
  /\ bucket' = [bucket EXCEPT ![d] = Refilled(d)]
  /\ asleep' = [asleep EXCEPT ![c] = [domain |-> d, tokens |-> n, until |-> now + WaitTime(d, n)]]
  /\ UNCHANGED <<now, config, backoff, hung, observer>>

\* sleep_for returns, on time or late, whoever holds the mutex.
Wakes(c) ==
  /\ asleep[c] # None /\ asleep[c].until <= now
  /\ asleep' = [asleep EXCEPT ![c] = None]
  /\ UNCHANGED <<now, bucket, config, backoff, hung, observer>>

-----------------------------------------------------------------------------
(* Backoff.                                                                *)

SetBackoffConfig(c, d, f) ==
  /\ Awake(c) /\ config[d] # f
  /\ config' = [config EXCEPT ![d] = f]
  /\ UNCHANGED <<now, bucket, backoff, asleep, hung, observer>>

Backs(c, d, b) ==
  /\ Awake(c)
  /\ backoff' = [backoff EXCEPT ![d] = b]
  /\ UNCHANGED <<now, bucket, config, asleep, hung, observer>>

\* Fault: every failure starts from the initial delay.
DelayRestarts(d) == config[d].initial

\* The delay after one more failure.
NextDelay(d) ==
  IF backoff[d].delay = 0 THEN config[d].initial
  ELSE Least(backoff[d].delay * config[d].multiplier, config[d].max)

ReportFailure(c, d) ==
  /\ backoff[d].streak < MaxStreak
  /\ Backs(c, d, [delay |-> NextDelay(d), failed |-> now, streak |-> backoff[d].streak + 1])

\* The delay after a success: half, or none below the initial one.
Halved(d) ==
  IF backoff[d].delay < 2 * config[d].initial THEN 0 ELSE backoff[d].delay \div 2

ReportSuccess(c, d) ==
  Backs(c, d, [backoff[d] EXCEPT !.delay = Halved(d), !.streak = 0])

ResetBackoff(c, d) ==
  Backs(c, d, [backoff[d] EXCEPT !.delay = 0, !.streak = 0])

\* reset: every domain and the global bucket are forgotten.
Reset(c) ==
  /\ Awake(c)
  /\ bucket' = [k \in Buckets |-> None]
  /\ config' = [d \in Domains |-> DefaultConfig]
  /\ backoff' = [d \in Domains |-> NoBackoff]
  /\ UNCHANGED <<now, asleep, hung, observer>>

TimePasses ==
  /\ now < MaxTime
  /\ now' = now + 1
  /\ UNCHANGED <<bucket, config, backoff, asleep, hung, observer>>

-----------------------------------------------------------------------------
Init ==
  /\ now = 0
  /\ bucket = [k \in Buckets |-> None]
  /\ config = [d \in Domains |-> DefaultConfig]
  /\ backoff = [d \in Domains |-> NoBackoff]
  /\ asleep = [c \in Clients |-> None]
  /\ hung = None
  /\ watched \in Buckets /\ granted = 0 /\ since = 0

DomainStep(c, d) ==
  \/ SetBucketConfig(c, d)
  \/ TryAcquireHangs(c, d)
  \/ \E n \in Asks : TryAcquire(c, d, n) \/ WaitForToken(c, d, n)

AnswerStep(c, d) ==
  \/ \E f \in Configs : SetBackoffConfig(c, d, f)
  \/ ReportFailure(c, d) \/ ReportSuccess(c, d) \/ ResetBackoff(c, d)

Next ==
  \/ \E c \in Clients :
       \/ \E d \in Domains : DomainStep(c, d)
       \/ \E d \in Failing : AnswerStep(c, d)
       \/ SetGlobalRateLimit(c) \/ Reset(c) \/ Wakes(c)
  \/ ObserverLooks
  \/ TimePasses

Spec == Init /\ [][Next]_vars

-----------------------------------------------------------------------------
(* Properties.                                                             *)

Bucket(k) == [tokens : 0 .. Capacity(k), last : 0 .. now]
Sleep == [domain : Domains, tokens : Asks, until : Nat]

\* Every variable has its type.  In particular no bucket ever holds more
\* than its capacity or less than nothing, whatever is taken from it through
\* any domain, and no refill is dated in the future.
TypeOK ==
  /\ now \in 0 .. MaxTime
  /\ \A k \in Buckets : bucket[k] \in Bucket(k) \cup {None}
  /\ config \in [Domains -> Configs]
  /\ backoff \in [Domains -> [delay : Nat, failed : 0 .. now, streak : 0 .. MaxStreak]]
  /\ asleep \in [Clients -> Sleep \cup {None}]
  /\ hung \in Clients \cup {None}
  /\ watched \in Buckets
  /\ granted \in Nat
  /\ since \in 0 .. now

\* The types are kept and, in a window of any length, opened at any moment, a
\* bucket that is not reconfigured gives at most its burst plus its rate times
\* the length of the window: for each domain, and for all domains together
\* when a global limit is set.
WindowBound ==
  /\ TypeOK
  /\ granted <= Capacity(watched) + Rate[watched] * (now - since)

\* A lone client that slept in waitForToken for want of tokens finds, when
\* it wakes, all it asked for up to the fraction of a millisecond getWaitTime
\* drops: less than one millisecond's refill is missing.
WaitAlmostSuffices ==
  \A c \in Clients : asleep[c] # None /\ asleep[c].until <= now =>
    LET s == asleep[c] IN
    bucket[s.domain] # None /\ s.tokens * Token <= Capacity(s.domain)
      => Refilled(s.domain).tokens > s.tokens * Token - Rate[s.domain]

\* A wait is as long as it has to be, for tokens in that sense, and after
\* failures in this one: one more failure never lets a domain be asked earlier
\* than it could have been without it, unless the configured ceiling was
\* lowered meanwhile.
WaitsLongEnough ==
  [][/\ WaitAlmostSuffices'
     /\ \A d \in Domains :
          backoff'[d].streak > backoff[d].streak /\ backoff[d].delay <= config[d].max
            => backoff'[d].failed + backoff'[d].delay >= backoff[d].failed + backoff[d].delay]_vars

(***************************************************************************)
(* Promises of the documentation that the code does not keep.              *)
(***************************************************************************)

\* A request for a domain not configured gets a bucket with the default rate:
\* no request waits for ever inside the limiter.
UnknownDomainServed == hung = None

\* "Calculate wait time needed before next request can be made": a lone
\* client that wakes from waitForToken would be granted its request.
WaitSuffices ==
  [][\A c \in Clients :
       LET s == asleep[c] IN
       s # None /\ asleep'[c] = None /\ bucket[s.domain] # None
         /\ s.tokens * Token <= Capacity(s.domain)
         => Grants(s.domain, s.tokens)]_vars

\* "Adaptive exponential backoff": the second failure in a row and those
\* after it wait longer than the first, up to the ceiling.
BackoffGrows ==
  [][\A d \in Domains :
       LET f == config[d] IN
       backoff'[d].streak > backoff[d].streak /\ backoff[d].streak > 0
         => backoff'[d].delay >= Least(f.initial * f.multiplier, f.max)]_vars
=============================================================================
