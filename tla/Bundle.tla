------------------------------- MODULE Bundle -------------------------------
(* The bundle of a Core's UI, which has one name for ever, behind a cache   *)
(* that nobody here controls (the edge, a browser), while the replicas of   *)
(* the Core are deployed one after the other (uiserve/uiserve.go). One file *)
(* of the bundle is modelled; a directory has no ETag and is left out.      *)
EXTENDS FiniteSets

CONSTANTS
  Replicas,   \* the replicas of the Core, any of which may answer
  Builds,     \* what the file holds, deploy by deploy
  Hash(_),    \* sha256
  NoCopy,     \* the cache has nothing
  NoAsk,      \* no request is under way
  NoFile      \* nothing was served in the last step

ASSUME BundleAssumption ==
  /\ \A b, c \in Builds : Hash(b) = Hash(c) => b = c
  /\ NoCopy \notin [build : Builds, etag : {Hash(b) : b \in Builds}, fresh : BOOLEAN]
  /\ NoFile \notin Builds

VARIABLES
  running,   \* the build each replica embeds, and its ETag
  cache,     \* the copy of the cache, its ETag, and whether it may serve it unasked
  ask,       \* a request at the cache, with the builds that ran meanwhile
  served     \* what the last step gave the browser, with the same

bundleVars == <<running, cache, ask, served>>

Running == {running[r].build : r \in Replicas}

\* Handler: the hashes are taken once, when a process starts.
Embedded(build) == [build |-> build, etag |-> Hash(build)]

\* A replica of another build takes over.
Deploy(r, build) ==
  /\ running' = [running EXCEPT ![r] = Embedded(build)]
  /\ ask' = IF ask = NoAsk THEN NoAsk ELSE [during |-> ask.during \cup {build}]
  /\ served' = NoFile
  /\ UNCHANGED cache

\* A browser asks the cache.
Ask ==
  /\ ask = NoAsk
  /\ ask' = [during |-> Running]
  /\ served' = NoFile
  /\ UNCHANGED <<running, cache>>

Gives(build, copy) ==
  /\ served' = [build |-> build, during |-> ask.during]
  /\ cache' = copy
  /\ ask' = NoAsk
  /\ UNCHANGED running

\* Mutant: the answer does not say no-cache, and the cache keeps it for hours.
NoHeader(file) == [build |-> file.build, etag |-> file.etag, fresh |-> TRUE]

\* The file with its ETag and Cache-Control: no-cache.
Response(file) == [build |-> file.build, etag |-> file.etag, fresh |-> FALSE]

\* The copy, without a word to a replica.
FromCache == /\ ask # NoAsk /\ cache # NoCopy
             /\ cache.fresh
             /\ Gives(cache.build, cache)

\* The ETag of the copy still is the replica's (If-None-Match): no body.
NotModified(r) == /\ ask # NoAsk /\ cache # NoCopy
                  /\ ~cache.fresh /\ cache.etag = running[r].etag
                  /\ Gives(cache.build, cache)

\* It is not, or there is no copy; the cache may keep the file or not.
Whole(r) == /\ ask # NoAsk
            /\ cache # NoCopy => ~cache.fresh /\ cache.etag # running[r].etag
            /\ \E copy \in {NoCopy, Response(running[r])} : Gives(running[r].build, copy)

\* A cache drops what it likes.
Evict ==
  /\ cache' = NoCopy /\ served' = NoFile
  /\ UNCHANGED <<running, ask>>

BundleInit ==
  /\ running \in [Replicas -> {Embedded(b) : b \in Builds}]
  /\ cache = NoCopy /\ ask = NoAsk /\ served = NoFile

BundleNext ==
  \/ Ask \/ FromCache \/ Evict
  \/ \E r \in Replicas : NotModified(r) \/ Whole(r) \/ \E build \in Builds : Deploy(r, build)

BundleSpec == BundleInit /\ [][BundleNext]_bundleVars

-----------------------------------------------------------------------------
\* Whatever is cached, a browser gets a build that some replica ran while it
\* was asking; after a deploy of them all, that is the new one
\* (uiserve.go:18-22).
DeployIsSeen == served # NoFile => served.build \in served.during

\* What keeps it so, however often builds come and go: a copy is never served
\* unasked, and names its build.
CopyNamesBuild ==
  /\ \A r \in Replicas : running[r].etag = Hash(running[r].build) /\ running[r].build \in Builds
  /\ cache # NoCopy => ~cache.fresh /\ cache.build \in Builds /\ cache.etag = Hash(cache.build)
  /\ ask # NoAsk => \A r \in Replicas : running[r].build \in ask.during
  /\ DeployIsSeen
=============================================================================
