------------------------------ MODULE BlobKeys ------------------------------
(* The keys of the package blob (blob.go): "<tenant>/<...>", a sequence of  *)
(* segments here. A key with a backslash or a control character, or one of  *)
(* more than 1024 bytes, has a segment in Forbidden.                        *)
EXTENDS Integers, Sequences, SequencesExt

CONSTANTS
  Tenants,
  Keys,         \* the keys callers come with, their own or not
  Forbidden,    \* segments that hold what no key may hold
  MaxPresignTTL

ASSUME KeysAssumption == Keys \subseteq Seq(STRING) /\ MaxPresignTTL \in Nat \ {0}

\* Mutant: any segment will do after the tenant's own.
CheckTenant(tenant, key) == Len(key) >= 2 /\ Head(key) = tenant

\* CheckKey, with a tenant in the context.
CheckKey(tenant, key) ==
  /\ Len(key) >= 2
  /\ \A i \in DOMAIN key : key[i] \notin {"", ".", ".."} \cup Forbidden
  /\ Head(key) = tenant

\* filepath.Join: where a key is on a disk.
Path(key) ==
  LET joined[n \in 0 .. Len(key)] ==
        IF n = 0 THEN << >>
        ELSE IF key[n] \in {"", "."} THEN joined[n - 1]
        ELSE IF key[n] # ".." THEN Append(joined[n - 1], key[n])
        ELSE IF joined[n - 1] = << >> THEN << >> ELSE Front(joined[n - 1])
  IN joined[Len(key)]

\* checkTTL.
CheckTTL(ttl) == ttl > 0 /\ ttl <= MaxPresignTTL
=============================================================================
