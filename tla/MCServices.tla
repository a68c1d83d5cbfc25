----------------------------- MODULE MCServices -----------------------------
(* Small instances of what a Core uses one at a time: the idempotency       *)
(* interceptor, the rate limiter, the two blob stores, the exchange rates,  *)
(* the fan-out over tenants, the catalogs it refers to, what its neighbours *)
(* know, the traces of its requests and the bundle of its UI. They share no *)
(* state, and a behaviour is about one of them.                             *)
EXTENDS Idempotency, RateLimit, Stores, Rates, Fanout, References,
        Neighbours, Tracing, Bundle, TLC

CONSTANTS c1, c2, c3, q1, q2, h1, h2, w1, w2, b1, b2

VARIABLE part

ThreeCalls == {c1, c2, c3}
TwoRequests == {q1, q2}
TwoHandlers == {h1, h2}
TwoWorkers == {w1, w2}
TwoContents == {b1, b2}

\* People have a burst of two; what is no known type has an agent's, of one.
SomeHolders == [tenant : {"t1"}, type : {"user", "robot"}]
BurstOfTwo == [rate |-> 1, burst |-> 2]
BurstOfOne == [rate |-> 1, burst |-> 0]
Unlimited == [rate |-> 0, burst |-> 0]

\* The second key leaves its tenant's directory, the third repeats the tenant.
TwoTenants == {"t1", "t2"}
SomeKeys ==
  {<<"t1", "a">>, <<"t1", "..", "t2", "a">>, <<"t1", "t1", "a">>}
TypeFile(path) == Append(Front(path), Last(path) \o ".ct")
SomeCores == {<<"x">>, <<"x", "t1">>}
SomeTTLs == {0, 2, 3}

SomeConfigs ==
  [token : BOOLEAN, https : BOOLEAN, attempts : {-1, 0, 2}, backoff : {0, 2}, maxBackoff : {0, 3}]
SomeIndicators == {0, 317}
TwoDays == 1 .. 2
SomeReplies ==
  {[status |-> s, retryAfter |-> 0] : s \in {304, 401, 404, 503}}
    \cup {[status |-> 429, retryAfter |-> 5]}

\* Days and values that are there or missing, positive or not, or no such thing.
SomePoints == [day : TwoDays, value : {Null, Junk, 0, 4}] \cup {[day |-> Junk, value |-> 4]}
SomeSeries == {<< >>} \cup {<<p>> : p \in SomePoints} \cup {<<p, q>> : p, q \in SomePoints}
BodyOf(estado, datos) == [estado |-> estado, datos |-> datos]
EntryOf(code, series) == [code |-> code, series |-> series]
Estados == {TRUE, FALSE, Null}
SomeBodies ==
  {BodyOf(estado, datos) : estado \in Estados, datos \in {Null, << >>}}
    \cup {BodyOf(estado, <<EntryOf(317, series)>>) : estado \in Estados, series \in SomeSeries}
    \cup {BodyOf(TRUE, <<EntryOf(code, <<p>>), EntryOf(317, <<q>>)>>) :
            code \in {317, 318}, p, q \in SomePoints}
    \cup {BodyOf(TRUE, <<EntryOf(318, <<p>>)>>) : p \in SomePoints}

\* Two tenants' databases, and three whose names are much like theirs.
SomeDatabases == {<<"d", "_", "a">>, <<"d", "_", "b">>}
OtherDatabases == {<<"d", "x", "c">>, <<"d", "_", "?">>, <<"d", "_">>}
DatabasePrefix == <<"d", "_">>
NoSuffix == << >>
Letters == {"a", "b", "c", "d", "x", "_"}
MinusOne == -1

Symmetry == Permutations(TwoWorkers) \cup Permutations(TwoContents)

\* Three ids fit two bits; -2 and 5 would be 2 and 1 if they were cut.
SomeLookups == {{}, {1, 2}, {-2, 1}, {2, 5}, {0, 1}, {1, 2, 3}}
ItemOf(subject, resource) == [subject |-> subject, resource |-> resource]
SomeItems == {ItemOf(s, r) : s \in {"s1", "s2"}, r \in {"r1", "r2"}}
SomeBatches ==
  UNION {[1 .. n -> SomeItems] : n \in 0 .. 2} \cup {[i \in 1 .. 3 |-> ItemOf("s1", "r1")]}

\* A Core that exports its spans, and one whose SDK is disabled.
SomeEnvironments ==
  [disabled : BOOLEAN, endpoint : {TRUE}, named : {TRUE}]

Sha256(build) == <<"sha256", build>>

\* What a part may begin with is of interest in its own behaviours only.
MCInit ==
  /\ part \in {"idempotency", "limiter", "disk", "bucket", "rates", "fanout",
              "references", "suppliers", "policy", "traces", "bundle"}
  /\ Init /\ LimitInit /\ DiskInit /\ ObjectInit /\ RatesInit /\ FanoutInit
  /\ ReferencesInit /\ NeighboursInit /\ TracingInit /\ BundleInit
  /\ part # "idempotency" => request = [c \in Call |-> q1]
  /\ part # "fanout" => mayCreate = FALSE /\ db = [n \in Names |-> Missing]
  /\ part # "traces" => \A n \in Nodes : ~columns[n] /\ env[n].disabled
  /\ part # "bundle" => \A r \in Replicas : running[r] = Embedded(1)

\* The state of the parts, in two halves.
storageVars == <<vars, limitVars, diskVars, objectVars, ratesVars, fanoutVars>>
outsideVars == <<referencesVars, neighboursVars, tracingVars, bundleVars>>

MCNext ==
  /\ UNCHANGED part
  /\ \/ /\ part = "idempotency" /\ Next
        /\ UNCHANGED <<limitVars, diskVars, objectVars, ratesVars, fanoutVars, outsideVars>>
     \/ /\ part = "limiter" /\ LimitNext
        /\ UNCHANGED <<vars, diskVars, objectVars, ratesVars, fanoutVars, outsideVars>>
     \/ /\ part = "disk" /\ DiskNext
        /\ UNCHANGED <<vars, limitVars, objectVars, ratesVars, fanoutVars, outsideVars>>
     \/ /\ part = "bucket" /\ ObjectNext
        /\ UNCHANGED <<vars, limitVars, diskVars, ratesVars, fanoutVars, outsideVars>>
     \/ /\ part = "rates" /\ RatesNext
        /\ UNCHANGED <<vars, limitVars, diskVars, objectVars, fanoutVars, outsideVars>>
     \/ /\ part = "fanout" /\ FanoutNext
        /\ UNCHANGED <<vars, limitVars, diskVars, objectVars, ratesVars, outsideVars>>
     \/ /\ part = "references" /\ ReferencesNext
        /\ UNCHANGED <<neighboursVars, tracingVars, bundleVars, storageVars>>
     \/ /\ part = "suppliers" /\ LookupNext
        /\ UNCHANGED <<referencesVars, tracingVars, bundleVars, storageVars>>
     \/ /\ part = "policy" /\ BatchNext
        /\ UNCHANGED <<referencesVars, tracingVars, bundleVars, storageVars>>
     \/ /\ part = "traces" /\ TracingNext
        /\ UNCHANGED <<referencesVars, neighboursVars, bundleVars, storageVars>>
     \/ /\ part = "bundle" /\ BundleNext
        /\ UNCHANGED <<referencesVars, neighboursVars, tracingVars, storageVars>>

MCSpec == MCInit /\ [][MCNext]_<<storageVars, outsideVars, part>>
=============================================================================
