---------------------------- MODULE ObjectStore ----------------------------
(* blob.S3Store and the Presigner (s3.go): Cores share a bucket (external), *)
(* each under a prefix of its own, and give up on a pending after 30 s,     *)
(* when it may still be under way. MemStore is the bucket without a         *)
(* network. Browsers use the links that were signed for them.               *)
EXTENDS BlobKeys, FiniteSets

CONSTANTS
  Cores,         \* S3Config.Core as configured, a sequence of path segments
  Requesters,    \* goroutines that call a store
  Bytes,         \* contents; a content's type is of the same name
  TTLs,          \* what callers ask a link to live for
  NoObject,      \* no object; no answer
  InDoubt,       \* writes of an object overlapped, or one was given up on
  MaxRequests,   \* bound: requests in a behaviour
  MaxLinks,      \* bound: links signed
  MaxTimeouts,   \* bound: requests given up on
  MaxClock       \* bound: the time links may see

ASSUME ObjectAssumption ==
  /\ MaxRequests \in Nat /\ MaxLinks \in Nat /\ MaxTimeouts \in Nat /\ MaxClock \in Nat
  /\ Cores \subseteq Seq(STRING) /\ TTLs \subseteq Int
  /\ InDoubt \notin {NoObject} \cup [bytes : Bytes, type : Bytes, core : Cores]

\* NewS3: the prefix is one path segment.
NewS3(core) == Len(core) = 1 /\ core[1] \notin {"", ".", ".."} \cup Forbidden

\* object: where a Core's key is in the bucket.
Object(core, key) == core \o key
Objects == {Object(core, key) : core \in Cores, key \in Keys}

VARIABLES
  bucket,     \* object -> its version: content, type and the Core that wrote it
  pending,    \* the call of each goroutine
  late,       \* writes given up on that the bucket has not seen
  promised,   \* object -> what the last write that ran alone was acknowledged for
  read,       \* the last answer of a Get: what it got and what was promised
  links,      \* signed URLs
  used,       \* the last use of one
  clock, requests, timeouts

objectVars == <<bucket, pending, late, promised, read, links, used, clock, requests, timeouts>>

Quiet == [op |-> "none"]
Version(bytes, type, core) == [bytes |-> bytes, type |-> type, core |-> core]
Modifies(r, object) == r.op \in {"put", "delete"} /\ r.object = object

ObjectInit ==
  /\ bucket = [o \in Objects |-> NoObject]
  /\ pending = [w \in Requesters |-> Quiet]
  /\ late = {}
  /\ promised = [o \in Objects |-> NoObject]
  /\ read = NoObject /\ links = {} /\ used = NoObject
  /\ clock = 0 /\ requests = 0 /\ timeouts = 0

\* What a write makes of an object; MemStore does it under its mutex, at once.
Written(r) == IF r.op = "put" THEN Version(r.bytes, r.bytes, r.core) ELSE NoObject

Undisturbed(w, object) ==
  /\ \A v \in Requesters \ {w} : ~Modifies(pending[v], object)
  /\ \A r \in late : r.object # object

\* Put, Get and Delete reach the network for a key of the tenant only.
Send(w, core, op, tenant, key, bytes) ==
  /\ NewS3(core) /\ CheckKey(tenant, key)
  /\ pending[w] = Quiet /\ requests < MaxRequests
  /\ requests' = requests + 1
  /\ pending' = [v \in Requesters |->
       IF v = w THEN [op |-> op, core |-> core, object |-> Object(core, key), bytes |-> bytes,
                      step |-> "sent", alone |-> Undisturbed(w, Object(core, key))]
       ELSE IF pending[v] # Quiet /\ pending[v].object = Object(core, key) /\ op # "get"
            THEN [pending[v] EXCEPT !.alone = FALSE] ELSE pending[v]]
  /\ UNCHANGED <<bucket, late, promised, read, links, used, clock, timeouts>>

Moves(w, from, to) ==
  /\ pending[w] # Quiet /\ pending[w].step = from
  /\ pending' = [pending EXCEPT ![w].step = to]

Finished(w) == pending' = [pending EXCEPT ![w] = Quiet]

Land(w) ==
  /\ pending[w].op \in {"put", "delete"} /\ Moves(w, "sent", "landed")
  /\ bucket' = [bucket EXCEPT ![pending[w].object] = Written(pending[w])]
  /\ UNCHANGED <<late, promised, read, links, used, clock, requests, timeouts>>

Ack(w) ==
  /\ pending[w] # Quiet /\ pending[w].step = "landed"
  /\ Finished(w)
  /\ promised' = [promised EXCEPT ![pending[w].object] =
                   IF pending[w].alone THEN Written(pending[w]) ELSE InDoubt]
  /\ UNCHANGED <<bucket, late, read, links, used, clock, requests, timeouts>>

\* The 30 s are over: an error, and the write may be under way.
GiveUp(w) ==
  /\ pending[w] # Quiet /\ timeouts < MaxTimeouts
  /\ timeouts' = timeouts + 1
  /\ Finished(w)
  /\ IF pending[w].op = "get" THEN UNCHANGED <<late, promised>>
     ELSE /\ late' = IF pending[w].step = "sent" THEN late \cup {pending[w]} ELSE late
          /\ promised' = [promised EXCEPT ![pending[w].object] = InDoubt]
  /\ UNCHANGED <<bucket, read, links, used, clock, requests>>

\* A write nobody waits for lands after all, or never.
Straggle(r) ==
  /\ late' = late \ {r}
  /\ \/ UNCHANGED <<bucket, promised, pending>>
     \/ /\ bucket' = [bucket EXCEPT ![r.object] = Written(r)]
        /\ promised' = [promised EXCEPT ![r.object] = InDoubt]
        /\ pending' = [w \in Requesters |->
             IF pending[w] # Quiet /\ pending[w].object = r.object
             THEN [pending[w] EXCEPT !.alone = FALSE] ELSE pending[w]]
  /\ UNCHANGED <<read, links, used, clock, requests, timeouts>>

Answer(w, got) ==
  /\ read' = [got |-> got, owed |-> IF pending[w].alone THEN promised[pending[w].object] ELSE InDoubt]
  /\ Finished(w)

\* Get stats the object and then reads what it has just seen of it.
Stat(w) ==
  LET version == bucket[pending[w].object]
  IN /\ pending[w].op = "get" /\ pending[w].step = "sent"
     /\ IF version = NoObject THEN Answer(w, NoObject)
        ELSE /\ pending' = [pending EXCEPT ![w].step = "stat", ![w].bytes = version]
             /\ UNCHANGED read
     /\ UNCHANGED <<bucket, late, promised, links, used, clock, requests, timeouts>>

\* The client library reads on the condition that the object is the one it saw.
ReadAll(w) ==
  LET version == bucket[pending[w].object]
  IN /\ pending[w] # Quiet /\ pending[w].step = "stat"
     /\ IF version \in {NoObject, pending[w].bytes} THEN Answer(w, version)
        ELSE Finished(w) /\ UNCHANGED read
     /\ UNCHANGED <<bucket, late, promised, links, used, clock, requests, timeouts>>

\* PresignGet and PresignPut, of a key of the tenant.
Presign(core, method, tenant, key, ttl) ==
  /\ NewS3(core) /\ CheckKey(tenant, key) /\ CheckTTL(ttl)
  /\ Cardinality(links) < MaxLinks
  /\ links' = links \cup {[method |-> method, object |-> Object(core, key), core |-> core,
                           tenant |-> tenant, issued |-> clock, expires |-> clock + ttl]}
  /\ UNCHANGED <<bucket, pending, late, promised, read, used, clock, requests, timeouts>>

\* A browser uses a link (external): whoever has it, as long as it lives.
Follow(link, bytes) ==
  /\ clock < link.expires
  /\ used' = [link |-> link, at |-> clock]
  /\ IF link.method = "GET" THEN UNCHANGED <<bucket, promised, pending>>
     ELSE /\ bucket' = [bucket EXCEPT ![link.object] = Version(bytes, bytes, link.core)]
          /\ promised' = [promised EXCEPT ![link.object] = InDoubt]
          /\ pending' = [w \in Requesters |->
               IF pending[w] # Quiet /\ pending[w].object = link.object
               THEN [pending[w] EXCEPT !.alone = FALSE] ELSE pending[w]]
  /\ UNCHANGED <<late, read, links, clock, requests, timeouts>>

ClockTick ==
  /\ clock < MaxClock /\ links # {}
  /\ clock' = clock + 1
  /\ UNCHANGED <<bucket, pending, late, promised, read, links, used, requests, timeouts>>

ObjectNext ==
  \/ \E w \in Requesters, core \in Cores, tenant \in Tenants, key \in Keys :
       \/ \E bytes \in Bytes : Send(w, core, "put", tenant, key, bytes)
       \/ \E op \in {"get", "delete"} : Send(w, core, op, tenant, key, NoObject)
  \/ \E w \in Requesters : Land(w) \/ Ack(w) \/ GiveUp(w) \/ Stat(w) \/ ReadAll(w)
  \/ \E r \in late : Straggle(r)
  \/ \E core \in Cores, method \in {"GET", "PUT"}, tenant \in Tenants, key \in Keys, ttl \in TTLs :
       Presign(core, method, tenant, key, ttl)
  \/ \E link \in links, bytes \in Bytes : Follow(link, bytes)
  \/ ClockTick

ObjectSpec == ObjectInit /\ [][ObjectNext]_objectVars

-----------------------------------------------------------------------------
\* An acknowledged Put or Delete that ran alone is what every Get finds, until
\* another write of the object begins, a link uploads to it, or one that was
\* given up on lands after all (s3.go:85-125).
AckedIsRead == read # NoObject /\ read.owed # InDoubt => read.got = read.owed

\* Bytes and type are of one upload, also when another lands between the two
\* requests of a Get (s3.go:107-119).
OneUpload ==
  read # NoObject /\ read.got # NoObject => read.got.type = read.got.bytes

\* A link moves no file of another tenant, and none later than MaxPresignTTL
\* after it was asked for (blob.go:48-52).
LinksExpire ==
  used # NoObject =>
    /\ used.at - used.link.issued < MaxPresignTTL
    /\ used.link.object[2] = used.link.tenant

\* In the shared bucket no Core's object is under another Core's prefix,
\* whatever the keys (blob.go:17-18).
CoresApart ==
  \A o \in Objects : bucket[o] # NoObject => bucket[o].core = <<Head(o)>>

Versions == {Version(bytes, bytes, core) : bytes \in Bytes, core \in Cores}
RequestsOf(op, steps, bytes) ==
  {r \in [op : {op}, core : Cores, object : Objects, bytes : bytes, step : steps, alone : BOOLEAN] :
     r.core = <<Head(r.object)>>}
WritesAt(steps) == RequestsOf("put", steps, Bytes) \cup RequestsOf("delete", steps, {NoObject})
AnyRequest ==
  WritesAt({"sent", "landed"}) \cup RequestsOf("get", {"sent", "stat"}, Versions \cup {NoObject})
AnyLink ==
  {link \in [method : {"GET", "PUT"}, object : Objects, core : Cores, tenant : Tenants,
             issued : Int, expires : Int] :
     /\ link.core = <<Head(link.object)>> /\ link.object[2] = link.tenant
     /\ link.expires - link.issued <= MaxPresignTTL}

ObjectTypeOK ==
  /\ bucket \in [Objects -> Versions \cup {NoObject}]
  /\ pending \in [Requesters -> {Quiet} \cup AnyRequest]
  /\ late \subseteq WritesAt({"sent"})
  /\ promised \in [Objects -> Versions \cup {NoObject, InDoubt}]
  /\ links \subseteq AnyLink /\ clock \in Nat

\* A request that runs alone is the only one that could change its object ...
OnItsOwn(w) ==
  pending[w] # Quiet /\ pending[w].alone => Undisturbed(w, pending[w].object)

\* ... which is what it made of it.
HasLanded(w) ==
  pending[w] # Quiet /\ pending[w].alone /\ pending[w].step = "landed" =>
    bucket[pending[w].object] = Written(pending[w])

\* Nothing is promised of an object while a write that was given up on is late.
LateIsInDoubt == \A r \in late : promised[r.object] = InDoubt

\* What is promised is in the bucket, when no request is about to change it.
InBucket(object) ==
  promised[object] # InDoubt /\ (\A w \in Requesters : ~Modifies(pending[w], object)) =>
    bucket[object] = promised[object]

ObjectInv ==
  /\ ObjectTypeOK /\ AckedIsRead /\ OneUpload /\ LinksExpire /\ CoresApart /\ LateIsInDoubt
  /\ \A w \in Requesters : OnItsOwn(w) /\ HasLanded(w)
  /\ \A object \in Objects : InBucket(object)
=============================================================================
