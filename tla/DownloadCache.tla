---------------------------- MODULE DownloadCache ----------------------------
(***************************************************************************)
(* The internalizer's download cache (download.rs): fetches of one URL     *)
(* whose file the host replaces meanwhile, into files named by their       *)
(* SHA-256.  A file is the sequence of its chunks; the hashes tell any two *)
(* sequences apart, so a name, a checksum and a content are one value.     *)
(***************************************************************************)
EXTENDS Naturals, Sequences, SequencesExt, FiniteSets

CONSTANTS Fetchers,        \* concurrent fetches
          HostFiles,       \* the files the host has one after the other, 1 .. n
          ValidatorOf,     \* what proves a range belongs to a version, {} for none
          FileLen,         \* chunks of a file
          MaxBytes,        \* downloads.max_file_bytes, in chunks
          ResumeAttempts,  \* downloads.resume_attempts
          MaxFetches,      \* bound on the fetches begun
          MaxDamage        \* bound on files damaged on disk

\* A validator is of one file, as If-Range takes it: a strong ETag, or a date no two
\* files of the host share.
ASSUME HostAssumption ==
    /\ FileLen \in Nat /\ Cardinality(HostFiles) \in Nat \ {0} /\ HostFiles = 1 .. Cardinality(HostFiles)
    /\ \A v, w \in HostFiles : ValidatorOf[v] # {} /\ ValidatorOf[v] = ValidatorOf[w] => v = w

VARIABLES hostFile,  \* the version the host has now
          cache,     \* the files there are: name -> content
          fetcher,   \* the running fetches
          partials,  \* fetchers whose partial file is on disk
          delivered, \* what the last fetch of each returned
          damage,    \* names whose file was damaged, as often as that happened
          fetches    \* fetches begun

cacheVars == <<hostFile, cache, fetcher, partials, delivered, damage, fetches>>

Chunks(v) == [i \in 1 .. FileLen |-> <<v, i>>]

\* What a script declares: nothing, a SHA-256, or another algorithm's sum.
NoSum == [kind |-> "none", sum |-> <<>>]
Sums == {NoSum} \cup [kind : {"sha256", "other"}, sum : {Chunks(v) : v \in HostFiles}]

IdleFetcher == [pc |-> "idle", declared |-> NoSum, part |-> <<>>, hashed |-> <<>>, validator |-> {},
                body |-> <<>>, attempt |-> 0]

CacheInit ==
    /\ hostFile = 1 /\ cache = <<>>
    /\ fetcher = [d \in Fetchers |-> IdleFetcher]
    /\ partials = {} /\ delivered = [d \in Fetchers |-> {}]
    /\ damage = <<>> /\ fetches = 0

FetcherAt(d, pc) == fetcher[d].pc = pc
FetcherGoes(d, pc) == fetcher' = [fetcher EXCEPT ![d].pc = pc]

Deliver(d, content) ==
    /\ delivered' = [delivered EXCEPT ![d] = {[declared |-> fetcher[d].declared, content |-> content]}]
    /\ fetcher' = [fetcher EXCEPT ![d] = IdleFetcher]

\* download creates the partial file under a name of its own.
CreatePartial(d, declared) ==
    /\ partials' = partials \cup {d}
    /\ fetcher' = [fetcher EXCEPT ![d] = [IdleFetcher EXCEPT !.pc = "request", !.declared = declared]]

---------------------------------------------------------------------------
\* fetch: only a declared SHA-256 can name a file of the cache.
BeginFetch(d, declared) ==
    /\ FetcherAt(d, "idle") /\ fetches < MaxFetches
    /\ fetches' = fetches + 1
    /\ delivered' = [delivered EXCEPT ![d] = {}]
    /\ IF declared.kind = "sha256" /\ declared.sum \in DOMAIN cache
       THEN /\ fetcher' = [fetcher EXCEPT ![d] = [IdleFetcher EXCEPT !.pc = "open", !.declared = declared]]
            /\ UNCHANGED partials
       ELSE CreatePartial(d, declared)
    /\ UNCHANGED <<hostFile, cache, damage>>

\* cached, once metadata found the file: it may have gone since, and it is
\* hashed again before it is used.
OpenCached(d) ==
    LET name == fetcher[d].declared.sum IN
    /\ FetcherAt(d, "open")
    /\ IF name \notin DOMAIN cache
       THEN fetcher' = [fetcher EXCEPT ![d] = IdleFetcher] /\ UNCHANGED delivered
       ELSE IF cache[name] = name
       THEN Deliver(d, cache[name])
       ELSE FetcherGoes(d, "remove") /\ UNCHANGED delivered
    /\ UNCHANGED <<hostFile, cache, partials, damage, fetches>>

\* A file that no longer matches its hash is removed: whatever has its name by now.
RemoveCached(d) ==
    LET name == fetcher[d].declared.sum IN
    /\ FetcherAt(d, "remove")
    /\ IF name \in DOMAIN cache
       THEN /\ cache' = [n \in DOMAIN cache \ {name} |-> cache[n]]
            /\ CreatePartial(d, fetcher[d].declared)
       ELSE /\ fetcher' = [fetcher EXCEPT ![d] = IdleFetcher]
            /\ UNCHANGED <<cache, partials>>
    /\ UNCHANGED <<hostFile, delivered, damage, fetches>>

\* Mutant: a range is asked for without If-Range.
ResumesAnything(d) == fetcher[d].part # <<>>

\* The host sends the rest only while the validator of the request is the one
\* of the file it has (Range and If-Range; starts_at).
Resumes(d) ==
    /\ fetcher[d].part # <<>> /\ fetcher[d].validator # {}
    /\ fetcher[d].validator = ValidatorOf[hostFile]

\* The next attempt: the host goes on where the transfer broke off, or sends
\* the whole file and the download starts over.
AskHost(d) ==
    LET f == fetcher[d]
        whole == Chunks(hostFile)
    IN
    /\ FetcherAt(d, "request")
    /\ fetcher' = [fetcher EXCEPT ![d] =
          IF Resumes(d)
          THEN [f EXCEPT !.pc = "body", !.attempt = f.attempt + 1,
                         !.body = SubSeq(whole, Len(f.part) + 1, FileLen)]
          ELSE [f EXCEPT !.pc = "body", !.attempt = f.attempt + 1, !.body = whole,
                         !.part = <<>>, !.hashed = <<>>, !.validator = ValidatorOf[hostFile]]]
    /\ UNCHANGED <<hostFile, cache, partials, delivered, damage, fetches>>

\* One more chunk, hashed and written.
ReceiveChunk(d) ==
    LET f == fetcher[d] IN
    /\ FetcherAt(d, "body") /\ f.body # <<>> /\ Len(f.part) < MaxBytes
    /\ fetcher' = [fetcher EXCEPT ![d].hashed = Append(@, Head(f.body)), ![d].part = Append(@, Head(f.body)),
                                  ![d].body = Tail(@)]
    /\ UNCHANGED <<hostFile, cache, partials, delivered, damage, fetches>>

\* The transfer breaks off, and there are attempts left.
BreakOff(d) ==
    /\ FetcherAt(d, "body") /\ fetcher[d].attempt <= ResumeAttempts
    /\ FetcherGoes(d, "request")
    /\ UNCHANGED <<hostFile, cache, partials, delivered, damage, fetches>>

\* The end of the body: a file that is what was declared gets its name.
KeepFile(d) ==
    LET f == fetcher[d] IN
    /\ FetcherAt(d, "body") /\ f.body = <<>>
    /\ f.declared.kind # "none" => f.hashed = f.declared.sum
    /\ cache' = [n \in DOMAIN cache \cup {f.hashed} |-> IF n = f.hashed THEN f.part ELSE cache[n]]
    /\ partials' = partials \ {d}
    /\ Deliver(d, f.part)
    /\ UNCHANGED <<hostFile, damage, fetches>>

\* Every other end: a host that answers something else, a file too large, a
\* checksum that does not match, the attempts used up, the whole taking too
\* long.  The partial file goes.
FailFetch(d) ==
    /\ fetcher[d].pc \in {"request", "body"}
    /\ partials' = partials \ {d}
    /\ fetcher' = [fetcher EXCEPT ![d] = IdleFetcher]
    /\ UNCHANGED <<hostFile, cache, delivered, damage, fetches>>

\* The host gets another file at the URL.
HostReplaces ==
    /\ hostFile < Cardinality(HostFiles) /\ hostFile' = hostFile + 1
    /\ UNCHANGED <<cache, fetcher, partials, delivered, damage, fetches>>

\* A file of the cache loses its last chunk on disk.
Damage(name) ==
    /\ Len(damage) < MaxDamage /\ cache[name] # <<>>
    /\ cache' = [cache EXCEPT ![name] = Front(@)]
    /\ damage' = Append(damage, name)
    /\ UNCHANGED <<hostFile, fetcher, partials, delivered, fetches>>

CacheNext ==
    \/ \E d \in Fetchers :
          \/ \E declared \in Sums : BeginFetch(d, declared)
          \/ OpenCached(d) \/ RemoveCached(d)
          \/ AskHost(d) \/ ReceiveChunk(d) \/ BreakOff(d) \/ KeepFile(d) \/ FailFetch(d)
    \/ HostReplaces
    \/ \E name \in DOMAIN cache : Damage(name)

CacheSpec == CacheInit /\ [][CacheNext]_cacheVars

---------------------------------------------------------------------------
\* What a script declares is what it gets, from the cache or from the hostFile, also
\* when the file was damaged on disk or replaced on the host (fetch).
DeclaredIsDelivered ==
    \A d \in Fetchers : \A r \in delivered[d] : r.declared.kind # "none" => r.content = r.declared.sum

\* Without a checksum the file is one the host had as a whole, however often the
\* transfer broke off: never the start of one and the rest of another.
WholeIsDelivered ==
    \A d \in Fetchers : \A r \in delivered[d] : \E v \in HostFiles : r.content = Chunks(v)

\* A file has the content its name says, unless it was damaged after.
CacheIsTrue == \A name \in DOMAIN cache : cache[name] # name => name \in ToSet(damage)

\* A partial file belongs to a transfer that is still going on, or one that will
\* be tried again.
PartialsHaveOwner == partials = {d \in Fetchers : fetcher[d].pc \in {"request", "body"}}

\* The download cache hands out whole files that are what they are called
\* (download.rs).
CacheDeliversWhole == DeclaredIsDelivered /\ WholeIsDelivered /\ CacheIsTrue /\ PartialsHaveOwner
=============================================================================
