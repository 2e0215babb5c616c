----------------------------- MODULE RateLimit -----------------------------
(***************************************************************************)
(* The throttle in front of every request: a budget of requests and one of *)
(* failed authentications, per client and fixed window.                    *)
(*                                                                         *)
(* A client is <<network, host>>: an IPv6 address counts as its /64.       *)
(***************************************************************************)
EXTENDS Integers, FiniteSets

CONSTANTS RequestTasks, Clients, MaxRequestsPerWindow, MaxFailures, RateWindow, SweepSlack, MaxTime
    \* SweepSlack: 64 in the code; MaxTime bounds the clock

\* RateLimiter::new clamps a budget of requests to one; one of failures that is
\* not positive makes no limiter.
ASSUME RateAssumption ==
    /\ IsFiniteSet(RequestTasks) /\ RequestTasks # {}
    /\ MaxRequestsPerWindow \in Nat \ {0} /\ MaxFailures \in Nat \ {0}
    /\ RateWindow \in Nat /\ SweepSlack \in Nat /\ MaxTime \in Nat

VARIABLES
    clock,
    buckets,    \* limiter -> network -> [start, count]
    bucketSweep,\* limiter -> the size it is swept at
    request,    \* task -> {} or {client}: a request with a key that is being answered
    admits,     \* what was let through: {[net, at, nth]}
    guesses     \* keys that were compared and found wrong

rateVars == <<clock, buckets, bucketSweep, request, admits, guesses>>

RateInit ==
    /\ clock = 0
    /\ buckets = [requests |-> <<>>, failures |-> <<>>]
    /\ bucketSweep = [requests |-> 0, failures |-> 0]
    /\ request = [t \in RequestTasks |-> {}]
    /\ admits = {} /\ guesses = {}

\* Mutant: every address has a budget of its own.
BucketKeyAddress(client) == client

BucketKey(client) == client[1]
MaxOf(limiter) == IF limiter = "requests" THEN MaxRequestsPerWindow ELSE MaxFailures

\* The buckets a sweep keeps: those whose window has not ended
Unexpired(map) == {n \in DOMAIN map : clock - map[n].start < RateWindow}

\* check_at: [ok, map, sweep]
CheckAt(limiter, client) ==
    LET map == buckets[limiter]
        full == Cardinality(DOMAIN map) >= bucketSweep[limiter]
        kept == IF full THEN [n \in Unexpired(map) |-> map[n]] ELSE map
        net == BucketKey(client)
        fresh == [start |-> clock, count |-> 0]
        bucket == IF net \in Unexpired(kept) THEN kept[net] ELSE fresh
        ok == bucket.count < MaxOf(limiter)
        spent == IF ok THEN [bucket EXCEPT !.count = @ + 1] ELSE bucket
    IN  [ok |-> ok,
         map |-> [n \in DOMAIN kept \cup {net} |-> IF n = net THEN spent ELSE kept[n]],
         sweep |-> IF full THEN 2 * Cardinality(DOMAIN kept) + SweepSlack ELSE bucketSweep[limiter]]

\* is_exhausted
IsExhausted(client) ==
    LET map == buckets.failures  net == BucketKey(client)
    IN  net \in Unexpired(map) /\ map[net].count >= MaxFailures

Subscriber(client) == client[1]
Note(log, client) ==
    log \cup {[net |-> Subscriber(client), at |-> clock,
               nth |-> Cardinality({e \in log : e.net = Subscriber(client) /\ e.at = clock})]}

\* enforce, up to the handler: refused, or let through; one that carries a key is
\* refused as well when the client is out of guesses.
Enforce(t, client, keyed) ==
    /\ request[t] = {}
    /\ LET checked == CheckAt("requests", client)
           passes == checked.ok /\ ~(keyed /\ IsExhausted(client))
       IN  /\ buckets' = [buckets EXCEPT !.requests = checked.map]
           /\ bucketSweep' = [bucketSweep EXCEPT !.requests = checked.sweep]
           /\ admits' = IF checked.ok THEN Note(admits, client) ELSE admits
           /\ request' = IF passes /\ keyed THEN [request EXCEPT ![t] = {client}] ELSE request
    /\ UNCHANGED <<clock, guesses>>

\* The handler answered: 401 is counted, whatever else is not.
Answered(t, unauthorized) ==
    /\ request[t] # {}
    /\ request' = [request EXCEPT ![t] = {}]
    /\ IF unauthorized
       THEN \E client \in request[t] :
                LET checked == CheckAt("failures", client)
                IN  /\ buckets' = [buckets EXCEPT !.failures = checked.map]
                    /\ bucketSweep' = [bucketSweep EXCEPT !.failures = checked.sweep]
                    /\ guesses' = Note(guesses, client)
       ELSE UNCHANGED <<buckets, bucketSweep, guesses>>
    /\ UNCHANGED <<clock, admits>>

\* Time passes; what is older than a window is forgotten.
Tick ==
    /\ clock < MaxTime
    /\ clock' = clock + 1
    /\ admits' = {e \in admits : clock' - e.at < RateWindow}
    /\ guesses' = {e \in guesses : clock' - e.at < RateWindow}
    /\ UNCHANGED <<buckets, bucketSweep, request>>

RateNext ==
    \/ Tick
    \/ \E t \in RequestTasks :
          \/ \E client \in Clients, keyed \in BOOLEAN : Enforce(t, client, keyed)
          \/ \E unauthorized \in BOOLEAN : Answered(t, unauthorized)

RateSpec == RateInit /\ [][RateNext]_rateVars

---------------------------------------------------------------------------
Recent(log, net) == Cardinality({e \in log : e.net = net /\ clock - e.at < RateWindow})

\* In no stretch of time as long as the window does a client get two whole budgets
\* of requests through, from whichever address of its network, and whatever was
\* swept (check_at, bucket_key).
AdmitsPerWindow ==
    \A c \in Clients : Recent(admits, Subscriber(c)) <= 2 * MaxRequestsPerWindow - 1

\* Guesses are compared before they are counted: the requests that are in flight
\* when a budget is used up are compared beyond it (enforce).
GuessesPerWindow ==
    \A c \in Clients :
        Recent(guesses, Subscriber(c)) <= 2 * (MaxFailures + Cardinality(RequestTasks) - 1) - 1

\* No client gets more requests or guesses out of a window than it is
\* allowed, whatever is swept (RateLimiter).
ThrottleHolds == AdmitsPerWindow /\ GuessesPerWindow
=============================================================================
