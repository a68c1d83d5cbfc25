----------------------------- MODULE DiskStore -----------------------------
(* blob.DiskStore (disk.go): a blob is a file and a sidecar with its type,  *)
(* and no call holds a lock, so that calls of one key interleave file by    *)
(* file and a crash leaves whatever was on the disk.                        *)
EXTENDS BlobKeys

CONSTANTS
  Workers,      \* goroutines that call the store
  Contents,     \* the bytes of a blob; its type is of the same name
  Empty,        \* a file that was truncated and not yet written
  Absent,       \* no file; no blob
  Torn,         \* writes of a key overlapped, or one was cut off
  SidecarOf(_), \* where the type of a path's file is: p + ".ct"
  MaxCalls,     \* bound: calls in a behaviour
  MaxCrashes    \* bound: crashes in a behaviour

ASSUME DiskAssumption ==
  /\ MaxCalls \in Nat /\ MaxCrashes \in Nat
  /\ Absent \notin Contents \cup {Empty} \cup [data : Contents, type : Contents]

Paths == {Path(key) : key \in Keys}
Files == Paths \cup {SidecarOf(path) : path \in Paths}

\* No key comes with the path of another one's sidecar: nothing in the code
\* refuses "<key>.ct", and such a key would read and overwrite a type.
ASSUME SidecarAssumption ==
  \A path, other \in Paths :
    SidecarOf(path) # other /\ (SidecarOf(path) = SidecarOf(other) => path = other)

VARIABLES
  file,      \* the files on the disk, blobs and sidecars
  worker,    \* the call of each goroutine
  settled,   \* path -> what the last write that ran alone left there, or Torn
  found,    \* the last answer of a Get: [tenant, path, got, owed]
  calls, crashes

diskVars == <<file, worker, settled, found, calls, crashes>>

\* What is at a path, its bytes and its type.
data == [path \in Paths |-> file[path]]
sidecar == [path \in Paths |-> file[SidecarOf(path)]]

Idle == [op |-> "idle"]
Blob(bytes, type) == [data |-> bytes, type |-> type]
Writes(w, path) == worker[w].op \in {"put", "delete"} /\ worker[w].path = path

DiskInit ==
  /\ file = [f \in Files |-> Absent]
  /\ worker = [w \in Workers |-> Idle]
  /\ settled = [p \in Paths |-> Absent]
  /\ found = Absent /\ calls = 0 /\ crashes = 0

Alone(w, path) == ~\E v \in Workers \ {w} : Writes(v, path)

\* A write makes every other call of its key unsure of what it finds or leaves.
Begin(w, call) ==
  /\ worker[w] = Idle /\ calls < MaxCalls
  /\ calls' = calls + 1
  /\ worker' = [v \in Workers |->
       IF v = w THEN call
       ELSE IF worker[v] # Idle /\ worker[v].path = call.path /\ call.op # "get"
            THEN [worker[v] EXCEPT !.alone = FALSE] ELSE worker[v]]

CallOf(op, tenant, path, first, bytes, w) ==
  [op |-> op, tenant |-> tenant, path |-> path, step |-> first, bytes |-> bytes,
   alone |-> Alone(w, path)]

\* Put, Get and Delete of a key that CheckKey lets through; a refused key is an
\* error and changes nothing.
DiskCall(w, op, tenant, key, bytes) ==
  LET first == CASE op = "put" -> "truncate" [] op = "get" -> "read" [] OTHER -> "unlinkType"
  IN /\ CheckKey(tenant, key)
     /\ Begin(w, CallOf(op, tenant, Path(key), first, bytes, w))
     /\ UNCHANGED <<file, settled, found, crashes>>

At(w, step) == worker[w] # Idle /\ worker[w].step = step
GoTo(w, step) == worker' = [worker EXCEPT ![w].step = step]
Ends(w) == worker' = [worker EXCEPT ![w] = Idle]

\* os.WriteFile opens with O_TRUNC and then writes.
Truncate(w) ==
  /\ At(w, "truncate")
  /\ file' = [file EXCEPT ![worker[w].path] = Empty]
  /\ GoTo(w, "write")
  /\ UNCHANGED <<settled, found, calls, crashes>>

WriteData(w) ==
  /\ At(w, "write")
  /\ file' = [file EXCEPT ![worker[w].path] = worker[w].bytes]
  /\ GoTo(w, "truncateType")
  /\ UNCHANGED <<settled, found, calls, crashes>>

TruncateType(w) ==
  /\ At(w, "truncateType")
  /\ file' = [file EXCEPT ![SidecarOf(worker[w].path)] = Empty]
  /\ GoTo(w, "writeType")
  /\ UNCHANGED <<settled, found, calls, crashes>>

\* What a write leaves when it ends.
Settle(w, value) ==
  settled' = [settled EXCEPT ![worker[w].path] = IF worker[w].alone THEN value ELSE Torn]

WriteType(w) ==
  /\ At(w, "writeType")
  /\ file' = [file EXCEPT ![SidecarOf(worker[w].path)] = worker[w].bytes]
  /\ Settle(w, Blob(worker[w].bytes, worker[w].bytes))
  /\ Ends(w)
  /\ UNCHANGED <<found, calls, crashes>>

\* The disk is full, or the directory cannot be made: Put returns the error.
PutFails(w) ==
  /\ worker[w].op = "put"
  /\ settled' = [settled EXCEPT ![worker[w].path] = Torn]
  /\ Ends(w)
  /\ UNCHANGED <<file, found, calls, crashes>>

\* A missing file is NotFound. The bytes of a file are read at once.
ReadData(w) ==
  /\ At(w, "read")
  /\ IF file[worker[w].path] = Absent
     THEN /\ found' = [tenant |-> worker[w].tenant, path |-> worker[w].path, got |-> Absent,
                        owed |-> IF worker[w].alone THEN settled[worker[w].path] ELSE Torn]
          /\ Ends(w)
     ELSE /\ worker' = [worker EXCEPT ![w].step = "readType", ![w].bytes = file[worker[w].path]]
          /\ UNCHANGED found
  /\ UNCHANGED <<file, settled, calls, crashes>>

\* The error of a sidecar that is not there is ignored: the type is empty.
ReadType(w) ==
  LET path == worker[w].path
      type == IF file[SidecarOf(path)] = Absent THEN Empty ELSE file[SidecarOf(path)]
  IN /\ At(w, "readType")
     /\ found' = [tenant |-> worker[w].tenant, path |-> path, got |-> Blob(worker[w].bytes, type),
                   owed |-> IF worker[w].alone THEN settled[path] ELSE Torn]
     /\ Ends(w)
     /\ UNCHANGED <<file, settled, calls, crashes>>

\* Mutant: without a sidecar there is nothing to delete.
UnlinkTypeFirst(w) ==
  /\ At(w, "unlinkType")
  /\ file' = [file EXCEPT ![SidecarOf(worker[w].path)] = Absent]
  /\ IF file[SidecarOf(worker[w].path)] = Absent
     THEN Settle(w, Absent) /\ Ends(w)
     ELSE GoTo(w, "unlink") /\ UNCHANGED settled
  /\ UNCHANGED <<found, calls, crashes>>

\* Delete removes the sidecar first and ignores that it is not there.
UnlinkType(w) ==
  /\ At(w, "unlinkType")
  /\ file' = [file EXCEPT ![SidecarOf(worker[w].path)] = Absent]
  /\ GoTo(w, "unlink")
  /\ UNCHANGED <<settled, found, calls, crashes>>

Unlink(w) ==
  /\ At(w, "unlink")
  /\ file' = [file EXCEPT ![worker[w].path] = Absent]
  /\ Settle(w, Absent)
  /\ Ends(w)
  /\ UNCHANGED <<found, calls, crashes>>

\* The process dies; what is on the disk stays.
DiskCrash ==
  /\ crashes < MaxCrashes
  /\ crashes' = crashes + 1
  /\ worker' = [w \in Workers |-> Idle]
  /\ settled' = [p \in Paths |-> IF \E w \in Workers : Writes(w, p) THEN Torn ELSE settled[p]]
  /\ UNCHANGED <<file, found, calls>>

DiskNext ==
  \/ \E w \in Workers, op \in {"put", "get", "delete"}, tenant \in Tenants, key \in Keys,
        bytes \in Contents : DiskCall(w, op, tenant, key, bytes)
  \/ \E w \in Workers :
       \/ Truncate(w) \/ WriteData(w) \/ TruncateType(w) \/ WriteType(w) \/ PutFails(w)
       \/ ReadData(w) \/ ReadType(w)
       \/ UnlinkType(w) \/ Unlink(w)
  \/ DiskCrash

DiskSpec == DiskInit /\ [][DiskNext]_diskVars

-----------------------------------------------------------------------------
\* A write that ran alone is what a Get finds, bytes and type together, as long
\* as no other write of the key is or was on the way since: also when it put an
\* end to what a crash or two overlapping writes had left (disk.go:34-75).
SettledIsRead ==
  found # Absent /\ found.owed # Torn => found.got = found.owed

\* No call of a tenant reads or changes a file outside its own directory,
\* whatever key it comes with (blob.go:9-15).
OwnDirectory ==
  /\ found # Absent => Head(found.path) = found.tenant
  /\ \A w \in Workers : worker[w] # Idle => Head(worker[w].path) = worker[w].tenant

PutSteps == {"truncate", "write", "truncateType", "writeType"}
CallsOf(op, steps, bytes) ==
  [op : {op}, tenant : Tenants, path : Paths, step : steps, bytes : bytes, alone : BOOLEAN]

AnyCall ==
  CallsOf("put", PutSteps, Contents)
    \cup CallsOf("get", {"read", "readType"}, Contents \cup {Empty})
    \cup CallsOf("delete", {"unlinkType", "unlink"}, Contents)

DiskTypeOK ==
  /\ file \in [Files -> Contents \cup {Empty, Absent}]
  /\ worker \in [Workers -> {Idle} \cup AnyCall]
  /\ settled \in [Paths -> {Absent, Torn} \cup {Blob(b, b) : b \in Contents}]

\* Who runs alone has the path for itself, as far as writing goes ...
NobodyElseWrites(w) ==
  worker[w] # Idle /\ worker[w].alone => Alone(w, worker[w].path)

\* ... and finds what it left there, or read there, a step ago.
StillThere(w) ==
  worker[w] # Idle /\ worker[w].alone =>
    /\ worker[w].step \in {"truncateType", "writeType", "readType"} =>
         data[worker[w].path] = worker[w].bytes
    /\ worker[w].step = "unlink" => sidecar[worker[w].path] = Absent

\* What is settled is on the disk, both files of it, when nobody is writing.
OnDisk(path) ==
  settled[path] # Torn /\ (\A w \in Workers : ~Writes(w, path)) =>
    \/ settled[path] = Absent /\ data[path] = Absent /\ sidecar[path] = Absent
    \/ \E b \in Contents : settled[path] = Blob(b, b) /\ data[path] = b /\ sidecar[path] = b

DiskInv ==
  /\ DiskTypeOK /\ SettledIsRead /\ OwnDirectory
  /\ \A w \in Workers : NobodyElseWrites(w) /\ StillThere(w)
  /\ \A path \in Paths : OnDisk(path)
=============================================================================
