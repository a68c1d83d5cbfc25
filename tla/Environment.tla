---------------------------- MODULE Environment ----------------------------
(* What a Core makes of its environment when it connects: to NATS, with the *)
(* service's own credential and inbox (natsconn), and to a tenant's         *)
(* database, with a pool of the size that was asked for (poolconfig.go).    *)
(* A service name is a sequence of tokens, as a subject is; a variable of a *)
(* pool is Unset, Junk or a number, durations being numbers too.            *)
EXTENDS Integers, Sequences, FiniteSets

CONSTANTS
  Unset, Junk,    \* no value, and one that cannot be read
  Wildcards,      \* the tokens that match others
  NatsEnvs,       \* [creds, seed, user, pass, option, service]: the options too
  PoolEnvs,       \* [max, min, idle, name, service, pod, url]
  DefaultMax,     \* 3 connections
  DefaultIdle,    \* 10 minutes
  IntHalf,        \* a pool counts from -IntHalf to IntHalf - 1: 2 ^ 31
  Anonymous,      \* who connects without a credential
  Refusal,        \* the error of Options
  MaxDials        \* bound: connections to NATS

ASSUME EnvironmentAssumption ==
  /\ IntHalf \in Nat /\ DefaultMax \in 1 .. IntHalf - 1
  /\ Unset \notin Int /\ Junk \notin Int /\ Anonymous \notin {"creds", "seed", "user"}
  /\ \A e \in NatsEnvs : e.option \in Seq(STRING) /\ e.service \in Seq(STRING)
  /\ \A e \in PoolEnvs : {e.max, e.min} \subseteq Int \cup {Unset, Junk}

VARIABLES
  links,   \* the connections to NATS, with the environment of each
  pool     \* the settings of a pool and the environment they came from

environmentVars == <<links, pool>>

NoName == << >>

-----------------------------------------------------------------------------
(* natsconn.Options. *)
CredentialsSet(e) ==
  {c \in {"creds", "seed"} : e[c] # Unset}
    \cup {c \in {"user"} : e.user # Unset \/ e.pass # Unset}

\* A seed is parsed at once, a file of credentials only has to be there.
Readable(e, credential) ==
  CASE credential = "creds" -> e.creds # "missing"
    [] credential = "seed" -> e.seed # "missing" /\ e.seed # Junk
    [] OTHER -> e.user # Unset /\ e.pass # Unset

\* WithService, or NATS_SERVICE_NAME.
Service(e) == IF e.option # NoName THEN e.option ELSE e.service

\* Mutant: a name of several tokens will do.
AnyTokens(name) == \A i \in DOMAIN name : name[i] \notin Wildcards

\* The name becomes one token of a subject.
CheckToken(name) == Len(name) = 1 /\ name[1] \notin Wildcards

Inbox(name) == <<"_INBOX">> \o name

Options(e) ==
  IF \/ Cardinality(CredentialsSet(e)) > 1
     \/ \E c \in CredentialsSet(e) : ~Readable(e, c)
     \/ Service(e) # NoName /\ ~CheckToken(Service(e))
  THEN Refusal
  ELSE [as |-> IF CredentialsSet(e) = {} THEN Anonymous
               ELSE CHOOSE c \in CredentialsSet(e) : TRUE,
        inbox |-> Inbox(Service(e))]

-----------------------------------------------------------------------------
(* PoolSettingsFromEnv. *)
\* int32(v)
Wrapped(v) == ((v + IntHalf) % (2 * IntHalf)) - IntHalf

ValueOr(v, least, default) ==
  IF v \in {Unset, Junk} \/ v < least THEN default ELSE v

PoolSettings(e) ==
  LET max == Wrapped(ValueOr(e.max, 1, DefaultMax))
      min == Wrapped(ValueOr(e.min, 0, 0))
      named == <<e.name, e.service, e.pod>>
      first == {i \in DOMAIN named : named[i] # Unset}
  IN [max |-> max,
      min |-> IF min > max THEN max ELSE min,
      idle |-> ValueOr(e.idle, 0, DefaultIdle),
      \* apply: what the connection string names is not overridden.
      name |-> IF e.url # Unset THEN e.url
               ELSE IF first = {} THEN Unset
               ELSE named[CHOOSE i \in first : \A j \in first : i <= j]]

-----------------------------------------------------------------------------
EnvironmentInit == links = {} /\ pool = Unset

Connect(e) ==
  /\ Cardinality(links) < MaxDials
  /\ links' = links \cup {[env |-> e, got |-> Options(e)]}
  /\ UNCHANGED pool

Configure(e) == pool = Unset /\ pool' = [env |-> e, got |-> PoolSettings(e)] /\ UNCHANGED links

DialNext == \E e \in NatsEnvs : Connect(e)
PoolNext == \E e \in PoolEnvs : Configure(e)
EnvironmentNext == DialNext \/ PoolNext

EnvironmentSpec == EnvironmentInit /\ [][EnvironmentNext]_environmentVars

-----------------------------------------------------------------------------
Matches(a, b) == a = b \/ {a, b} \cap Wildcards # {}

\* Some subject is below both inboxes.
Overlap(p, q) == \A i \in DOMAIN p \cap DOMAIN q : Matches(p[i], q[i])

Connected == {l \in links : l.got # Refusal}

\* A user who may read one service's replies reads no other's, as soon as both
\* have a name (natsconn.go:23-27).
InboxesApart ==
  \A k, l \in {m \in Connected : Service(m.env) # NoName} :
    Service(k.env) # Service(l.env) => ~Overlap(k.got.inbox, l.got.inbox)

\* Nobody connects as someone else than the one the operator named, or as
\* nobody when somebody was named (natsconn.go:19-21).
AsNamed ==
  \A l \in Connected :
    LET named == {v \in {"creds", "seed", "user", "pass"} : l.env[v] # Unset}
    IN CASE l.got.as = Anonymous -> named = {}
         [] l.got.as = "user" -> named = {"user", "pass"}
         [] OTHER -> named = {l.got.as}

Fits(v) == v \in {Unset, Junk} \/ v < IntHalf

\* A pool never keeps more connections than it may open, nor waits for one it
\* may not; a value that can be read and makes sense is the one in force
\* (poolconfig.go:51-52), as long as it fits: beyond, int32 makes it negative.
PoolsAreAsAsked ==
  pool # Unset =>
    LET e == pool.env
        s == pool.got
    IN /\ s.min <= s.max
       /\ Fits(e.max) /\ Fits(e.min) =>
            /\ 1 <= s.max /\ 0 <= s.min
            /\ e.max \in Int /\ e.max >= 1 => s.max = e.max
            /\ e.min \in Int /\ e.min \in 0 .. s.max => s.min = e.min

\* What the operator says of a connection is what happens, or nothing does.
Honoured == InboxesApart /\ AsNamed /\ PoolsAreAsAsked

\* What is kept is what its environment gave.
EnvironmentInv ==
  /\ \A l \in links : l.env \in NatsEnvs /\ l.got = Options(l.env)
  /\ pool # Unset => pool.env \in PoolEnvs /\ pool.got = PoolSettings(pool.env)
=============================================================================
