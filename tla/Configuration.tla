--------------------------- MODULE Configuration ---------------------------
(***************************************************************************)
(* The configuration: the TOML file overlaid by the environment, the feeds *)
(* resolved from it, `yanuget config check`, and what the server refuses   *)
(* to start on.                                                            *)
(*                                                                         *)
(* An option is {} or {v}; a key is a string, "" a blank one.  A variable  *)
(* of the environment is the sequence of the words between its underscores *)
(* after YANUGET_, and a value [utf8, text]; that of a _FILE variable is   *)
(* what the file holds, "?" when it cannot be read.                        *)
(***************************************************************************)
EXTENDS Naturals, Sequences, FiniteSets, SequencesExt, Results

CONSTANT Plain   \* settings that are not keys: name -> kind

---------------------------------------------------------------------------
\* apply_env_from: plain settings

\* What the text of a variable is read as: "good" and "other" are values, "zero" a
\* number too small for a page size, "bad" what does not parse.
ParsePlain(kind, text) ==
    CASE kind \in {"bool", "int", "host"} -> IF text \in {"", "bad"} THEN Refused ELSE Ok(text)
      [] kind = "size" -> IF text \in {"", "bad", "zero"} THEN Refused ELSE Ok(text)
      [] kind = "optint" -> IF text = "bad" THEN Refused ELSE Ok(IF text = "" THEN "unset" ELSE text)
      [] kind = "text" -> Ok(IF text = "" THEN "unset" ELSE text)
      [] kind = "list" -> Ok(text)

\* A variable that is set replaces the file's value, or the load fails.
OverlayPlain(settings, env) ==
    LET set == DOMAIN settings \cap DOMAIN env
    IN  IF \E s \in set : ~env[s].utf8 \/ ParsePlain(Plain[s], env[s].text) = Refused THEN Refused
        ELSE Ok([s \in DOMAIN settings |->
                    IF s \in set THEN The(ParsePlain(Plain[s], env[s].text)) ELSE settings[s]])

---------------------------------------------------------------------------
\* Keys

File(name) == name \o <<"FILE">>

\* secret_var: what it refuses, and what it reads otherwise.
SecretIsBad(env, name) ==
    \/ name \in DOMAIN env /\ ~env[name].utf8
    \/ File(name) \in DOMAIN env /\ ~env[File(name)].utf8
    \/ {name, File(name)} \subseteq DOMAIN env
    \/ File(name) \in DOMAIN env /\ env[File(name)].text \in {"?", ""}
Secret(env, name) ==
    IF name \in DOMAIN env THEN {env[name].text}
    ELSE IF File(name) \in DOMAIN env THEN {env[File(name)].text} ELSE {}

\* env_key and env_keys: a blank value is refused.
BadKey(env, name) == SecretIsBad(env, name) \/ "" \in Secret(env, name)

RoleSuffix == [api |-> <<"API", "KEY">>, apis |-> <<"API", "KEYS">>, read |-> <<"READ", "API", "KEY">>,
               preview |-> <<"PREVIEW", "API", "KEY">>, admin |-> <<"ADMIN", "API", "KEY">>,
               password |-> <<"MIRROR", "PASSWORD">>, token |-> <<"MIRROR", "TOKEN">>]
Roles == DOMAIN RoleSuffix

\* feed_env_name: a name's words, whatever joins them and whatever their case.
FeedEnvName(name) == name.words
FeedVar(name, role) == <<"FEED">> \o FeedEnvName(name) \o RoleSuffix[role]

\* apply_feed_env: a value two feeds of one name could be meant by is refused; else
\* each feed takes the variables its own name makes.
ApplyFeedEnv(feeds, env) ==
    LET ambiguous == {i \in DOMAIN feeds :
                         \E j \in 1 .. i - 1 : FeedEnvName(feeds[j].name) = FeedEnvName(feeds[i].name)}
        taken(f, role) == LET v == Secret(env, FeedVar(f.name, role)) IN IF v = {} THEN f.keys[role] ELSE v
    IN  IF \/ \E i \in ambiguous, role \in Roles : Secret(env, FeedVar(feeds[i].name, role)) # {}
           \/ \E i \in DOMAIN feeds, role \in Roles : BadKey(env, FeedVar(feeds[i].name, role))
        THEN Refused
        ELSE Ok([i \in DOMAIN feeds |->
                    [feeds[i] EXCEPT !.keys = [role \in Roles |-> taken(feeds[i], role)]]])

GlobalRoles == [api |-> <<"API", "KEY">>, apis |-> <<"API", "KEYS">>, admin |-> <<"ADMIN", "API", "KEY">>,
                monitoring |-> <<"MONITORING", "TOKEN">>]

\* apply_env_from
ApplyEnv(config, env) ==
    IF \/ OverlayPlain(config.plain, env) = Refused \/ ApplyFeedEnv(config.feeds, env) = Refused
       \/ \E role \in DOMAIN GlobalRoles : BadKey(env, GlobalRoles[role])
    THEN Refused
    ELSE Ok([config EXCEPT
               !.plain = The(OverlayPlain(@, env)),
               !.keys = [role \in DOMAIN GlobalRoles |->
                            LET v == Secret(env, GlobalRoles[role]) IN IF v = {} THEN @[role] ELSE v],
               !.feeds = The(ApplyFeedEnv(config.feeds, env))])

\* What apply_env_from asks for when every lookup misses.
Asked(config) ==
    LET secrets == {GlobalRoles[role] : role \in DOMAIN GlobalRoles}
                       \cup {FeedVar(f.name, role) : f \in Range(config.feeds), role \in Roles}
    IN  DOMAIN config.plain \cup secrets \cup {File(n) : n \in secrets}

\* unknown_env_names, but for the names of the command line
UnknownEnvNames(config, names) == names \ Asked(config)

\* Config::default, and a feed of which the file gives the name only: the parts the
\* laws tell apart.  A file setting is absent, "good" or "bad".
NoKeys == [role \in Roles |-> {}]
DefaultFeed(name) ==
    [name |-> name, keys |-> NoKeys, username |-> FALSE, prefixesOk |-> TRUE, reserved |-> {}, promotes |-> {},
     mirror |-> FALSE, upstream |-> "good", proxy |-> "none", headersOk |-> TRUE, ca |-> "none"]
DefaultConfig(settings) ==
    [plain |-> settings, keys |-> [role \in DOMAIN GlobalRoles |-> {}], feeds |-> <<>>, limiter |-> TRUE, window |-> 60,
     tls |-> TRUE, cert |-> {}, certKey |-> {}, dataDir |-> "dir", storage |-> "dir"]

\* combine_keys drops blank ones.
CombineKeys(keys) == (keys.api \cup keys.apis) \ {""}

\* A feed's keys as its handlers check them: push keys of its own or the server's,
\* read and preview of its own, admin of its own or else the server's.
ResolveKeys(config, f) ==
    [push |-> IF CombineKeys(f.keys) # {} THEN CombineKeys(f.keys) ELSE CombineKeys(config.keys),
     read |-> f.keys.read \ {""}, preview |-> f.keys.preview \ {""},
     admin |-> (IF f.keys.admin # {} THEN f.keys.admin ELSE config.keys.admin) \ {""}]

---------------------------------------------------------------------------
\* Reserved prefixes.  An id or prefix is a sequence of characters.

Lower(c) == IF c = "A" THEN "a" ELSE c
SameText(a, b) == Len(a) = Len(b) /\ \A i \in DOMAIN a : Lower(a[i]) = Lower(b[i])
StartsWith(id, prefix) == Len(id) >= Len(prefix) /\ SameText(SubSeq(id, 1, Len(prefix)), prefix)

IdHasPrefix(id, prefix) ==
    \/ StartsWith(id, prefix)
    \/ prefix # <<>> /\ Last(prefix) = "." /\ SameText(id, Front(prefix))

Overlap(a, b) == IdHasPrefix(b, a) \/ IdHasPrefix(a, b) \/ SameText(a, b)

\* What a feed refuses: the prefixes every other feed reserved.
ReservedElsewhere(reserved, feed) == UNION {reserved[g] : g \in DOMAIN reserved \ {feed}}
Refuses(reserved, feed, id) == \E p \in ReservedElsewhere(reserved, feed) : IdHasPrefix(id, p)

\* resolved_feeds refuses overlapping reservations.
Overlapping(reserved) ==
    \E f, g \in DOMAIN reserved : f < g /\ \E p \in reserved[f], q \in reserved[g] : Overlap(p, q)

---------------------------------------------------------------------------
\* Feeds, the check, and the start

ValidFeedName(name) == name.kind = "plain"
\* Feed names are told apart whatever their case.
SameName(a, b) == a.words = b.words /\ a.joint = b.joint

\* MirrorAuthConfig::validate
ValidAuth(f) ==
    /\ ~(f.username /\ f.keys.token # {})
    /\ f.keys.password # {} => f.username

\* resolved_feeds; the exclusions of retention are checked like prefixes.
ResolvedFeedsOk(config) ==
    /\ \A f \in Range(config.feeds) :
          /\ ValidFeedName(f.name) /\ ValidAuth(f) /\ f.prefixesOk
          /\ f.promotes \subseteq {g.name : g \in Range(config.feeds)}
    /\ ~Overlapping([i \in DOMAIN config.feeds |-> config.feeds[i].reserved])
    /\ \A i, j \in DOMAIN config.feeds : i # j => ~SameName(config.feeds[i].name, config.feeds[j].name)

\* Config::validate
Validate(config) ==
    /\ ~(config.limiter /\ config.window = 0)
    /\ config.tls => (config.cert = {}) = (config.certKey = {})
    /\ config.keys.monitoring # {""}

Load(config, env) ==
    IF ApplyEnv(config, env) = Refused THEN Refused
    ELSE IF Validate(The(ApplyEnv(config, env))) THEN ApplyEnv(config, env) ELSE Refused

\* tls::check_pair, and the same files read by the server
PairIsGood(config) == config.tls /\ config.cert # {} => config.cert = {"good"} /\ config.certKey = {"good"}

\* Mutant: the files of a mirror are left to the server.
CheckFeedLightly(f) == TRUE

\* check_feed's errors
CheckFeed(f) == f.mirror => f.ca \in {"none", "good"}

\* check and check_loaded report no error.
CheckIsOk(config, env) ==
    /\ Load(config, env) # Refused
    /\ LET c == The(Load(config, env))
       IN  /\ ResolvedFeedsOk(c) /\ \A f \in Range(c.feeds) : CheckFeed(f)
           /\ PairIsGood(c) /\ c.dataDir # "file"

\* MirrorClient::build_with and auth_headers
MirrorBuilds(f) ==
    f.mirror => f.upstream = "good" /\ f.proxy \in {"none", "good"} /\ f.headersOk /\ f.ca \in {"none", "good"}

\* run_server as far as the configuration decides it
Starts(config, env) ==
    /\ Load(config, env) # Refused
    /\ LET c == The(Load(config, env))
       IN  /\ c.dataDir # "file" /\ c.storage # "file"
           /\ ResolvedFeedsOk(c) /\ \A f \in Range(c.feeds) : MirrorBuilds(f)
           /\ PairIsGood(c)

---------------------------------------------------------------------------
\* A setting the environment sets is in force, whatever the file says, or the server
\* does not start: it is never left as the file has it.
EnvironmentDecides(first, second, env) ==
    LET a == OverlayPlain(first, env)
        b == OverlayPlain(second, env)
    IN  /\ (a = Refused) = (b = Refused)
        /\ a # Refused =>
              \A s \in DOMAIN first \cap DOMAIN env :
                  /\ The(a)[s] = The(b)[s]
                  /\ env[s].text # "bad" \/ Plain[s] \in {"list", "text"}

\* A key somebody set guards what it was set for, or the server does not start: a blank
\* variable, an unreadable file or a second source never leaves a feed open.
SetKeyGuards(config, env) ==
    ApplyEnv(config, env) # Refused =>
        LET c == The(ApplyEnv(config, env))
            set(name) == Secret(env, name) # {}
        IN  \A i \in DOMAIN c.feeds :
                LET f == c.feeds[i]
                    keys == ResolveKeys(c, f)
                IN  /\ (\E role \in {"api", "apis"} : set(FeedVar(f.name, role)) \/ set(GlobalRoles[role]))
                          => keys.push # {}
                    /\ \A role \in {"read", "preview", "admin"} :
                          set(FeedVar(f.name, role)) => keys[role] = Secret(env, FeedVar(f.name, role))
                    /\ set(GlobalRoles.admin) /\ f.keys.admin = {} => keys.admin # {}
                    /\ set(GlobalRoles.monitoring) => c.keys.monitoring = Secret(env, GlobalRoles.monitoring) \ {""}
                    /\ "" \notin keys.push \cup keys.read \cup keys.preview \cup keys.admin

\* A variable is reported as ignored exactly when whatever it holds changes nothing.
IgnoredIsReported(config, env) ==
    \A n \in DOMAIN env :
        LET alone == [m \in {n} |-> [utf8 |-> FALSE, text |-> ""]]
        IN  n \in UnknownEnvNames(config, DOMAIN env) <=> ApplyEnv(config, alone) # Refused

\* An id somebody reserved is brought in by exactly one feed; one nobody reserved by any.
ReservedForOne(reserved, id) ==
    ~Overlapping(reserved) =>
        LET owners == {f \in DOMAIN reserved : \E p \in reserved[f] : IdHasPrefix(id, p)}
            takers == {f \in DOMAIN reserved : ~Refuses(reserved, f, id)}
        IN  /\ takers = (IF owners = {} THEN DOMAIN reserved ELSE owners)
            /\ Cardinality(owners) <= 1

\* What the check finds no error in starts, but for a mirror whose client cannot be
\* built and a storage path that is a file.
CheckedStarts(config, env) ==
    CheckIsOk(config, env) =>
        \/ Starts(config, env)
        \/ \E f \in Range(config.feeds) : f.mirror /\ ~(f.upstream = "good" /\ f.proxy \in {"none", "good"} /\ f.headersOk)
        \/ config.storage = "file"

\* Everything the server would refuse to start on is found before it starts.
CheckFindsAll(config, env) == CheckIsOk(config, env) => Starts(config, env)

\* A variable could be meant for one feed only: "a value set there could be meant for
\* either, so it is refused rather than guessed".
OneFeedPerVariable(config, env) ==
    ApplyEnv(config, env) # Refused =>
        \A i, j \in DOMAIN config.feeds, r, s \in Roles :
            /\ FeedVar(config.feeds[i].name, r) = FeedVar(config.feeds[j].name, s)
            /\ FeedVar(config.feeds[i].name, r) \in DOMAIN env
            => i = j
=============================================================================
