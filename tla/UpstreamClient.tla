--------------------------- MODULE UpstreamClient ---------------------------
(***************************************************************************)
(* The HTTP client of one mirror: which URLs a request may visit while it  *)
(* follows redirects, which of them see the credentials, and the record of *)
(* whether the upstream answers that every request and the probe keep.     *)
(***************************************************************************)
EXTENDS Integers, Sequences, FiniteSets, SequencesExt

CONSTANTS
    Tasks,         \* tasks that send requests
    Urls,          \* [host, scheme, literal, resolves]: see below
    Upstream,      \* the configured service index, one of Urls
    MaxRedirects,  \* MAX_REDIRECTS
    MaxRequests    \* bound: requests sent in a behaviour

\* The service index is a URL; an address is private or it is not.
ASSUME ClientAssumption ==
    /\ Upstream \in Urls /\ MaxRedirects \in Nat
    /\ \A u \in Urls : u.literal \in BOOLEAN /\ u.resolves \in BOOLEAN

\* literal: the URL's host is a private address.  resolves: its name resolves
\* to one.  Host stands for host and port.
Outcomes == {"success", "notFound", "gone", "denied", "throttled", "serverError"}

VARIABLES
    upc,       \* "idle", "ask", "decide" (a document was asked for), "tell" (a probe)
    url,       \* the URL each task asks next
    purpose,   \* "document" or "probe"
    answer,    \* the outcome of a probe's request
    trail,     \* history of the current request: see NoTrail
    health,    \* UpstreamStatus
    settings   \* allow_private_upstream, and whether a proxy, which resolves
               \* names itself, is used

uvars == <<upc, url, purpose, answer, trail, health, settings>>

NoHealth == [requests |-> 0, failures |-> 0, consecutive |-> 0,
             succeeded |-> FALSE, since |-> FALSE]

\* hops: URLs contacted so far.  https: one of those before the last was https.
\* last: the last one.  credentials: whether it was sent them.
NoTrail == [hops |-> 0, https |-> FALSE, last |-> Upstream, credentials |-> FALSE]

UInit ==
    /\ upc = [t \in Tasks |-> "idle"] /\ url = [t \in Tasks |-> Upstream]
    /\ purpose = [t \in Tasks |-> "document"]
    /\ answer = [t \in Tasks |-> "none"] /\ trail = [t \in Tasks |-> NoTrail]
    /\ health = NoHealth
    /\ settings \in [allowPrivate : BOOLEAN, proxied : BOOLEAN]

Origin(u) == <<u.scheme, u.host>>

\* check_parsed
CheckParsed(u) ==
    /\ u.scheme \in {"http", "https"}
    /\ settings.allowPrivate \/ ~u.literal

\* check_proxied, and the resolver a direct connection goes through
CheckProxied(u) == ~settings.proxied \/ settings.allowPrivate \/ ~u.resolves
GuardedResolver(u) == settings.proxied \/ settings.allowPrivate \/ ~u.resolves

\* Mutant: the host is compared, not the scheme.
CarriesToHost(u) == u.host = Upstream.host

CarriesCredentials(u) == Origin(u) = Origin(Upstream)

\* redirect_target
MayFollow(from, to) ==
    /\ ~(from.scheme = "https" /\ to.scheme = "http")
    /\ CheckParsed(to)

\* upstream_failed
UpstreamFailed(o) == o \in {"serverError", "denied", "throttled", "error"}

\* record_success, record_failure
Succeed(h) == [h EXCEPT !.requests = @ + 1, !.succeeded = TRUE,
                        !.since = FALSE, !.consecutive = 0]
Fail(h) == [h EXCEPT !.requests = @ + 1, !.failures = @ + 1,
                     !.consecutive = @ + 1, !.since = TRUE]

Reachable == IF health.consecutive > 0 THEN "no"
             ELSE IF health.succeeded THEN "yes" ELSE "unknown"

\* send: whatever send_unrecorded returned is recorded.
Ends(t, o) ==
    /\ answer' = [answer EXCEPT ![t] = IF purpose'[t] = "probe" THEN o ELSE "none"]
    /\ health' = IF UpstreamFailed(o) THEN Fail(health) ELSE Succeed(health)
    /\ upc' = [upc EXCEPT ![t] = IF purpose'[t] = "probe" THEN "tell" ELSE "decide"]
    /\ url' = [url EXCEPT ![t] = Upstream]

Start(t, u, why) ==
    /\ upc[t] = "idle" /\ health.requests < MaxRequests
    /\ purpose' = [purpose EXCEPT ![t] = why] /\ UNCHANGED trail
    /\ IF CheckParsed(u)
       THEN upc' = [upc EXCEPT ![t] = "ask"] /\ url' = [url EXCEPT ![t] = u]
            /\ UNCHANGED <<answer, health>>
       ELSE Ends(t, "error")

\* The loop of send_unrecorded: vet, then ask.
Contact(t) ==
    /\ CheckProxied(url[t]) /\ GuardedResolver(url[t])
    /\ trail' = [trail EXCEPT ![t] =
                    [hops |-> @.hops + 1,
                     https |-> @.https \/ (@.hops > 0 /\ @.last.scheme = "https"),
                     last |-> url[t],
                     credentials |-> CarriesCredentials(url[t])]]

Ask(t) ==
    /\ upc[t] = "ask" /\ UNCHANGED purpose /\ Contact(t)
    /\ \E o \in Outcomes : Ends(t, o)

\* Refused, past its deadline, not connected; or redirected without a usable
\* Location, to a URL that is refused, or once too often.
AskFails(t) ==
    /\ upc[t] = "ask" /\ UNCHANGED purpose
    /\ Contact(t) \/ UNCHANGED trail
    /\ Ends(t, "error")

Redirected(t) ==
    /\ upc[t] = "ask" /\ trail[t].hops < MaxRedirects /\ Contact(t)
    /\ \E u \in Urls : MayFollow(url[t], u) /\ url' = [url EXCEPT ![t] = u]
    /\ UNCHANGED <<upc, purpose, answer, health>>

Return(t) ==
    /\ upc' = [upc EXCEPT ![t] = "idle"] /\ answer' = [answer EXCEPT ![t] = "none"]
    /\ trail' = [trail EXCEPT ![t] = NoTrail]
    /\ purpose' = [purpose EXCEPT ![t] = "document"] /\ UNCHANGED url

\* get_json: a success may still be too large, badly encoded or not JSON.
Decide(t) ==
    /\ upc[t] = "decide" /\ Return(t) /\ UNCHANGED health

\* probe: a 404 and a body that is not JSON were recorded as answers, and are
\* not a usable upstream.
ProbeAnswered(t) ==
    /\ upc[t] = "tell" /\ answer[t] = "success"
    /\ Return(t) /\ UNCHANGED health

ProbeFailed(t) ==
    /\ upc[t] = "tell"
    /\ health' = IF answer[t] = "notFound" \/ health.consecutive = 0
                 THEN Fail(health) ELSE health
    /\ Return(t)

UNext ==
    /\ \E t \in Tasks :
          \/ \E u \in Urls : Start(t, u, "document")
          \/ Start(t, Upstream, "probe")
          \/ Ask(t) \/ AskFails(t) \/ Redirected(t)
          \/ Decide(t) \/ ProbeAnswered(t) \/ ProbeFailed(t)
    /\ UNCHANGED settings

ClientSpec == UInit /\ [][UNext]_uvars

---------------------------------------------------------------------------
\* Along every chain of redirects, a private address is contacted only where
\* that is allowed, whoever resolves the names.
NoPrivateContact ==
    \A t \in Tasks : trail[t].hops > 0 /\ ~settings.allowPrivate =>
        ~trail[t].last.literal /\ ~trail[t].last.resolves

\* No chain leaves https once it is on it, and none is longer than
\* MAX_REDIRECTS allows.
NoDowngrade ==
    \A t \in Tasks :
        /\ trail[t].hops <= MaxRedirects + 1
        /\ trail[t].https => trail[t].last.scheme = "https"

\* The credentials reach the configured host over the configured scheme, and
\* nothing else, also when a chain leaves it and comes back (send_unrecorded).
CredentialsStayHome ==
    \A t \in Tasks : trail[t].hops > 0 =>
        (trail[t].credentials <=>
            trail[t].last.host = Upstream.host /\ trail[t].last.scheme = Upstream.scheme)

\* A probe that fails leaves the status at unreachable, whatever other requests
\* recorded since its own answer was (health.rs, probe).
ProbeTells ==
    [][\A t \in Tasks : upc[t] = "tell" /\ ProbeFailed(t) => Reachable' = "no"]_uvars

\* failing_since is set exactly during a run of failures.
SinceMarksRun == health.since <=> health.consecutive > 0

\* The client contacts no private address, steps down to no plain connection
\* and sends credentials to no other host, through every redirect, and tells
\* the truth about the upstream's health (MirrorClient, UpstreamHealth).
ClientKeepsBounds ==
    /\ [](NoPrivateContact /\ NoDowngrade /\ CredentialsStayHome /\ SinceMarksRun)
    /\ ProbeTells
=============================================================================
