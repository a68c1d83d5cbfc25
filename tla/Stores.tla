------------------------------- MODULE Stores -------------------------------
(* The package blob as a Core sees it: one interface, kept by a disk or by  *)
(* a bucket, and what both owe whichever a Core is configured with.         *)
EXTENDS DiskStore, ObjectStore

\* The promise of a Store (blob.go:20-40), kept by the two of them in their own
\* way: what a Get finds is what was written last, bytes and type of one Put.
StoredIsRead == SettledIsRead /\ AckedIsRead /\ OneUpload

\* Neither a key nor a link leads out of its tenant, its Core or its time
\* (blob.go:9-18, 48-52).
TenantsApart == OwnDirectory /\ LinksExpire /\ CoresApart
=============================================================================
