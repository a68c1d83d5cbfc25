--------------------------- MODULE Tenancy_proofs ---------------------------
(* The package tenancy. However many callers, tenants and pools there are, a *)
(* tenant's pool is its own and the registry neither doubles nor forgets     *)
(* one; and however many databases, a run over them loses no tenant.         *)
EXTENDS Pools, Fanout, FiniteSetTheorems, SequenceTheorems, TLAPS

USE PoolsAssumption

\* No pool has the number that stands for none.
LEMMA PoolIdOK == PoolId \subseteq Nat \ {0}
BY DEF PoolId

LEMMA PoolsInvInit == Init => PoolsInv
<1> SUFFICES ASSUME Init PROVE PoolsInv
  OBVIOUS
<1>1. Known = {} /\ Registered = {} /\ Opened = {}
  BY DEF Init, Known, Has, Registered, Opened
<1>2. TypeOK
  BY <1>1 DEF Init, TypeOK
<1>3. CallersOK
  BY DEF Init, CallersOK, CallerOK
<1>4. RegistryOK
  BY <1>1, FS_EmptySet DEF RegistryOK
<1>5. NoLeak
  BY <1>1 DEF NoLeak
<1> QED
  BY <1>2, <1>3, <1>4, <1>5 DEF PoolsInv

---------------------------------------------------------------------------
(* What a registration and a reaping do to the registry.                     *)

\* What is closed for a new entry is one tenant's at the most, and leaves room.
LEMMA EvictsOne ==
  ASSUME PoolsInv, NEW S \in SUBSET Known, Evicts(S), NEW t \in Tenant \ Known
  PROVE  /\ IsFiniteSet((Known \ S) \cup {t})
         /\ Cardinality((Known \ S) \cup {t}) <= Limit
<1>1. IsFiniteSet(Known) /\ Cardinality(Known) \in Nat /\ Cardinality(Known) <= Limit
  BY FS_CardinalityType DEF PoolsInv, RegistryOK
<1>2. CASE S = {}
  <2>1. (Known \ S) \cup {t} = Known \cup {t}
    BY <1>2
  <2>2. Cardinality(Known) < Limit
    BY <1>1, <1>2 DEF Evicts
  <2>3. IsFiniteSet(Known \cup {t}) /\ Cardinality(Known \cup {t}) = Cardinality(Known) + 1
    BY <1>1, FS_AddElement
  <2> QED
    BY <1>1, <2>1, <2>2, <2>3
<1>3. CASE S # {}
  <2>1. PICK last \in Known : S = {last}
    BY <1>3 DEF Evicts
  <2>2. IsFiniteSet(Known \ S) /\ Cardinality(Known \ S) = Cardinality(Known) - 1
    BY <1>1, <2>1, FS_RemoveElement
  <2>3. /\ IsFiniteSet((Known \ S) \cup {t})
        /\ Cardinality((Known \ S) \cup {t}) = Cardinality(Known \ S) + 1
    BY <2>2, FS_AddElement
  <2> QED
    BY <1>1, <2>2, <2>3
<1> QED
  BY <1>2, <1>3

\* The registry after Register: the new entry and the old ones but for S.
LEMMA RegisterEffect ==
  ASSUME PoolsInv, NEW c \in Caller, Register(c)
  PROVE  /\ pool[c] \in PoolId /\ tenant[c] \in Tenant \ Known
         /\ owner[pool[c]] = tenant[c] /\ pool[c] \notin Registered \cup closing
         /\ step' = [step EXCEPT ![c] = "hold"]
         /\ \E S \in SUBSET Known :
              /\ Evicts(S)
              /\ entries' = [t \in Tenant |->
                   IF t = tenant[c] THEN pool[c] ELSE IF t \in S THEN 0 ELSE entries[t]]
              /\ Known' = (Known \ S) \cup {tenant[c]}
              /\ front' = InFront(tenant[c], S)
              /\ closing' = closing \cup {entries[t] : t \in S}
              /\ age' = Fresh({tenant[c]} \cup S)
<1>1. /\ pool[c] \in PoolId /\ tenant[c] \in Tenant \ Known
      /\ owner[pool[c]] = tenant[c] /\ pool[c] \notin Registered \cup closing
  BY DEF PoolsInv, CallersOK, CallerOK, Register, Known
<1>2. PICK S \in SUBSET Known :
        /\ Evicts(S)
        /\ entries' = [t \in Tenant |->
             IF t = tenant[c] THEN pool[c] ELSE IF t \in S THEN 0 ELSE entries[t]]
        /\ front' = InFront(tenant[c], S)
        /\ closing' = closing \cup {entries[t] : t \in S}
        /\ age' = Fresh({tenant[c]} \cup S)
  BY DEF Register
<1>3. Known' = (Known \ S) \cup {tenant[c]}
  BY <1>1, <1>2, PoolIdOK DEF Known, Has
<1>4. step' = [step EXCEPT ![c] = "hold"]
  BY DEF Register
<1> QED
  BY <1>1, <1>2, <1>3, <1>4

\* The registry after ReapIdle: the old one without the idle tenants.
LEMMA ReapEffect ==
  ASSUME PoolsInv, ReapIdle
  PROVE  /\ Idle \subseteq Known /\ Known' = Known \ Idle
         /\ \A t \in Known' : entries'[t] = entries[t]
         /\ closing' = closing \cup {entries[t] : t \in Idle}
<1>1. Idle \subseteq Known
  BY DEF Idle
<1>2. Known' = Known \ Idle
  BY <1>1 DEF ReapIdle, Known, Has
<1> QED
  BY <1>1, <1>2 DEF ReapIdle, Known

\* A pool that was just dialled is known to nobody else.
LEMMA DialEffect ==
  ASSUME PoolsInv, NEW c \in Caller, Dial(c)
  PROVE  \E p \in PoolId :
           /\ owner[p] = NoTenant /\ p \notin Registered \cup closing
           /\ \A d \in Caller : pool[d] # p
           /\ owner' = [owner EXCEPT ![p] = tenant[c]]
           /\ pool' = [pool EXCEPT ![c] = p]
<1>1. PICK p \in Unused :
        /\ owner' = [owner EXCEPT ![p] = tenant[c]]
        /\ pool' = [pool EXCEPT ![c] = p]
  BY DEF Dial
<1>2. p \in PoolId /\ p \notin Opened /\ p \notin Registered /\ \A d \in Caller : pool[d] # p
  BY DEF Unused
<1>3. p \notin closing
  BY <1>2 DEF PoolsInv, TypeOK
<1> QED
  BY <1>1, <1>2, <1>3 DEF Opened

\* What a caller finds in the registry is its tenant's pool.
LEMMA FoundIsTheirs ==
  ASSUME PoolsInv, Free, NEW t \in Tenant, Has(t)
  PROVE  /\ t \in Known /\ entries[t] \in PoolId /\ entries[t] \in Registered
         /\ owner[entries[t]] = t /\ entries[t] \notin closing
BY DEF PoolsInv, TypeOK, RegistryOK, Known, Has, Registered

---------------------------------------------------------------------------
(* One lemma per part of the invariant, one step per action.                 *)

\* Who is known and registered depends on the entries alone ...
LEMMA SameEntries ==
  ASSUME entries' = entries PROVE Known' = Known /\ Registered' = Registered
BY DEF Known, Registered, Has

\* ... and which pools are open on their owners.
LEMMA SameOwners ==
  ASSUME owner' = owner PROVE Opened' = Opened
BY DEF Opened

LEMMA TypeNext ==
  ASSUME PoolsInv, [Next]_vars
  PROVE  TypeOK'
<1> USE PoolIdOK
<1>0. TypeOK
  BY DEF PoolsInv
<1>1. ASSUME NEW c \in Caller, NEW t \in Tenant, NEW use \in BOOLEAN, Hit(c, t, use)
      PROVE  TypeOK'
  <2>1. entries[t] \in PoolId /\ t \in Known
    BY <1>1, FoundIsTheirs DEF Hit
  <2>2. Known' = Known /\ Opened' = Opened
    BY <1>1 DEF Hit, Known, Has, Opened
  <2>3. front' \subseteq Known \X Known /\ age' \in [Tenant -> 0 .. IdleClose]
    BY <1>0, <1>1, <2>1 DEF Hit, Touched, Untouched, TypeOK, InFront, Without
  <2> QED
    BY <1>0, <1>1, <2>1, <2>2, <2>3 DEF Hit, TypeOK
<1>2. ASSUME NEW c \in Caller, NEW t \in Tenant, NEW use \in BOOLEAN, Miss(c, t, use)
      PROVE  TypeOK'
  BY <1>0, <1>2, SameEntries, SameOwners DEF Miss, TypeOK
<1>3. ASSUME NEW c \in Caller, Dial(c) PROVE TypeOK'
  <2>1. PICK p \in PoolId :
          /\ owner[p] = NoTenant /\ p \notin closing
          /\ owner' = [owner EXCEPT ![p] = tenant[c]]
          /\ pool' = [pool EXCEPT ![c] = p]
    BY <1>3, DialEffect
  <2>2. tenant[c] \in Tenant
    BY <1>3 DEF Dial, PoolsInv, CallersOK, CallerOK
  <2>3. closing' \subseteq Opened'
    BY <1>0, <1>3, <2>1, <2>2 DEF Dial, TypeOK, Opened
  <2> QED
    BY <1>0, <1>3, <2>1, <2>2, <2>3 DEF Dial, TypeOK, Known, Has
<1>4. ASSUME NEW c \in Caller, Leave(c) PROVE TypeOK'
  BY <1>0, <1>4, SameEntries, SameOwners DEF Leave, TypeOK
<1>5. ASSUME NEW c \in Caller, KeepTheirs(c) PROVE TypeOK'
  <2>1. tenant[c] \in Known /\ entries[tenant[c]] \in PoolId
        /\ pool[c] \in PoolId /\ pool[c] \notin closing
    BY <1>5, FoundIsTheirs DEF KeepTheirs, PoolsInv, CallersOK, CallerOK
  <2>2. Known' = Known
    BY <1>5 DEF KeepTheirs, Known, Has
  <2>3. front' \subseteq Known \X Known /\ age' \in [Tenant -> 0 .. IdleClose]
    BY <1>0, <1>5, <2>1 DEF KeepTheirs, Touched, Untouched, TypeOK, InFront, Without, Known
  <2>4. closing' \subseteq Opened'
    BY <1>0, <1>5, <2>1 DEF KeepTheirs, TypeOK, Opened
  <2> QED
    BY <1>0, <1>5, <2>1, <2>2, <2>3, <2>4 DEF KeepTheirs, TypeOK
<1>6. ASSUME NEW c \in Caller, Register(c) PROVE TypeOK'
  <2>1. pool[c] \in PoolId /\ tenant[c] \in Tenant \ Known
    BY <1>6, RegisterEffect
  <2>2. PICK S \in SUBSET Known :
          /\ entries' = [t \in Tenant |->
               IF t = tenant[c] THEN pool[c] ELSE IF t \in S THEN 0 ELSE entries[t]]
          /\ Known' = (Known \ S) \cup {tenant[c]}
          /\ front' = InFront(tenant[c], S)
          /\ closing' = closing \cup {entries[t] : t \in S}
          /\ age' = Fresh({tenant[c]} \cup S)
    BY <1>6, RegisterEffect
  <2>3. front' \subseteq Known' \X Known'
    BY <1>0, <2>2 DEF InFront, Without, TypeOK
  <2>4. age' \in [Tenant -> 0 .. IdleClose]
    BY <1>0, <2>2 DEF Fresh, TypeOK
  <2>5. closing' \subseteq Opened'
    <3>1. \A t \in S : entries[t] \in PoolId /\ owner[entries[t]] = t /\ t \in Tenant
      BY <1>6, FoundIsTheirs DEF Register, Known
    <3>2. NoTenant \notin Tenant /\ owner' = owner
      BY <1>6, PoolsAssumption DEF Register
    <3>3. {entries[t] : t \in S} \subseteq Opened
      BY <3>1, <3>2 DEF Opened
    <3>4. Opened' = Opened
      BY <3>2 DEF Opened
    <3> QED
      BY <1>0, <2>2, <3>3, <3>4 DEF TypeOK
  <2> QED
    BY <1>0, <1>6, <2>1, <2>2, <2>3, <2>4, <2>5 DEF Register, TypeOK
<1>7. ASSUME NEW c \in Caller, Borrow(c) PROVE TypeOK'
  BY <1>0, <1>7, SameEntries, SameOwners DEF Borrow, TypeOK
<1>8. ASSUME NEW p \in closing, Teardown(p) PROVE TypeOK'
  <2>1. closing' \subseteq Opened'
    BY <1>0, <1>8 DEF Teardown, TypeOK, Opened
  <2> QED
    BY <1>0, <1>8, <2>1 DEF Teardown, TypeOK, callerVars, Known, Has
<1>9. ASSUME NEW t \in Tenant, Age(t) PROVE TypeOK'
  <2>1. age' \in [Tenant -> 0 .. IdleClose]
    BY <1>0, <1>9 DEF Age, TypeOK
  <2> QED
    BY <1>0, <1>9, <2>1, SameEntries, SameOwners DEF Age, TypeOK, callerVars
<1>10. CASE ReapIdle
  <2>1. Idle \subseteq Known /\ Known' = Known \ Idle /\ closing' = closing \cup {entries[t] : t \in Idle}
    BY <1>10, ReapEffect
  <2>2. front' \subseteq Known' \X Known'
    BY <1>0, <1>10, <2>1 DEF ReapIdle, Without, TypeOK
  <2>3. closing' \subseteq Opened'
    <3>1. \A t \in Idle : entries[t] \in PoolId /\ owner[entries[t]] = t /\ t \in Tenant
      BY <1>10, <2>1, FoundIsTheirs DEF ReapIdle, Free, Known
    <3>2. NoTenant \notin Tenant /\ owner' = owner
      BY <1>10, PoolsAssumption DEF ReapIdle
    <3>3. {entries[t] : t \in Idle} \subseteq Opened
      BY <3>1, <3>2 DEF Opened
    <3>4. Opened' = Opened
      BY <3>2 DEF Opened
    <3> QED
      BY <1>0, <2>1, <3>3, <3>4 DEF TypeOK
  <2>4. entries' \in [Tenant -> PoolId \cup {0}] /\ age' \in [Tenant -> 0 .. IdleClose]
    BY <1>0, <1>10 DEF ReapIdle, Fresh, TypeOK
  <2> QED
    BY <1>0, <1>10, <2>2, <2>3, <2>4 DEF ReapIdle, TypeOK, callerVars
<1>11. CASE CloseLock
  BY <1>0, <1>11, SameEntries, SameOwners DEF CloseLock, TypeOK, callerVars
<1>12. CASE CloseOne
  <2>1. Known' = Known /\ Opened' = Opened
    BY <1>12, SameEntries, SameOwners DEF CloseOne
  <2>2. closing' \subseteq Opened
    BY <1>0, <1>12 DEF CloseOne, TypeOK
  <2> QED
    BY <1>0, <1>12, <2>1, <2>2 DEF CloseOne, TypeOK, callerVars
<1>13. CASE CloseDone
  BY <1>0, <1>13, SameOwners DEF CloseDone, TypeOK, callerVars
<1>14. CASE UNCHANGED vars
  BY <1>0, <1>14, SameEntries, SameOwners DEF vars, TypeOK, callerVars
<1> QED
  BY <1>1, <1>2, <1>3, <1>4, <1>5, <1>6, <1>7, <1>8, <1>9, <1>10, <1>11, <1>12, <1>13, <1>14
  DEF Next, Get, Use, DialFailed, BorrowFailed, Return

LEMMA CallersNext ==
  ASSUME PoolsInv, [Next]_vars
  PROVE  CallersOK'
<1> SUFFICES ASSUME NEW d \in Caller PROVE CallerOK(d)'
  BY DEF CallersOK
<1> USE PoolIdOK
<1>0. TypeOK /\ CallerOK(d)
  BY DEF PoolsInv, CallersOK
<1>1. ASSUME NEW c \in Caller, NEW t \in Tenant, NEW use \in BOOLEAN, Hit(c, t, use)
      PROVE  CallerOK(d)'
  <2>1. /\ entries[t] \in PoolId /\ entries[t] \in Registered
        /\ owner[entries[t]] = t
    BY <1>1, FoundIsTheirs DEF Hit
  <2>2. Registered' = Registered
    BY <1>1, SameEntries DEF Hit
  <2> QED
    BY <1>0, <1>1, <2>1, <2>2 DEF Hit, TypeOK, CallerOK
<1>2. ASSUME NEW c \in Caller, NEW t \in Tenant, NEW use \in BOOLEAN, Miss(c, t, use)
      PROVE  CallerOK(d)'
  BY <1>0, <1>2, SameEntries DEF Miss, TypeOK, CallerOK
<1>3. ASSUME NEW c \in Caller, Dial(c) PROVE CallerOK(d)'
  <2>1. PICK p \in PoolId :
          /\ owner[p] = NoTenant /\ p \notin Registered \cup closing
          /\ \A e \in Caller : pool[e] # p
          /\ owner' = [owner EXCEPT ![p] = tenant[c]]
          /\ pool' = [pool EXCEPT ![c] = p]
    BY <1>3, DialEffect
  <2>2. Registered' = Registered
    BY <1>3, SameEntries DEF Dial
  <2> QED
    BY <1>0, <1>3, <2>1, <2>2 DEF Dial, TypeOK, CallerOK
<1>4. ASSUME NEW c \in Caller, Leave(c) PROVE CallerOK(d)'
  BY <1>0, <1>4, SameEntries DEF Leave, TypeOK, CallerOK
<1>5. ASSUME NEW c \in Caller, KeepTheirs(c) PROVE CallerOK(d)'
  <2>1. /\ entries[tenant[c]] \in PoolId /\ entries[tenant[c]] \in Registered
        /\ owner[entries[tenant[c]]] = tenant[c]
        /\ pool[c] \in PoolId /\ pool[c] \notin Registered
        /\ \A e \in Caller \ {c} : pool[e] # pool[c]
    BY <1>5, FoundIsTheirs DEF KeepTheirs, PoolsInv, CallersOK, CallerOK
  <2>2. Registered' = Registered
    BY <1>5, SameEntries DEF KeepTheirs
  <2> QED
    BY <1>0, <1>5, <2>1, <2>2 DEF KeepTheirs, TypeOK, CallerOK
<1>6. ASSUME NEW c \in Caller, Register(c) PROVE CallerOK(d)'
  <2>1. PICK S \in SUBSET Known :
          /\ entries' = [t \in Tenant |->
               IF t = tenant[c] THEN pool[c] ELSE IF t \in S THEN 0 ELSE entries[t]]
          /\ Known' = (Known \ S) \cup {tenant[c]}
          /\ closing' = closing \cup {entries[t] : t \in S}
    BY <1>6, RegisterEffect
  <2>2. tenant[c] \in Tenant
    BY <1>6, RegisterEffect
  <2>3. Registered' \subseteq Registered \cup {pool[c]}
    BY <2>1, <2>2 DEF Registered, Known
  <2>4. closing' \subseteq closing \cup Registered
    BY <2>1 DEF Registered
  <2>5. d # c => pool[d] # pool[c]
    BY <1>6 DEF Register, PoolsInv, CallersOK, CallerOK
  <2> QED
    BY <1>0, <1>6, <2>3, <2>4, <2>5 DEF Register, TypeOK, CallerOK
<1>7. ASSUME NEW c \in Caller, Borrow(c) PROVE CallerOK(d)'
  BY <1>0, <1>7, SameEntries DEF Borrow, TypeOK, CallerOK
<1>8. ASSUME NEW p \in closing, Teardown(p) PROVE CallerOK(d)'
  <2>1. Registered' = Registered
    BY <1>8, SameEntries DEF Teardown
  <2> QED
    BY <1>0, <1>8, <2>1 DEF Teardown, callerVars, TypeOK, CallerOK
<1>9. ASSUME NEW t \in Tenant, Age(t) PROVE CallerOK(d)'
  BY <1>0, <1>9, SameEntries DEF Age, callerVars, CallerOK
<1>10. CASE ReapIdle
  <2>1. /\ Idle \subseteq Known /\ Known' = Known \ Idle
        /\ \A t \in Known' : entries'[t] = entries[t]
        /\ closing' = closing \cup {entries[t] : t \in Idle}
    BY <1>10, ReapEffect
  <2>2. Registered' \subseteq Registered /\ closing' \subseteq closing \cup Registered
    BY <2>1 DEF Registered
  <2> QED
    BY <1>0, <1>10, <2>2 DEF ReapIdle, callerVars, CallerOK
<1>11. CASE CloseLock
  BY <1>0, <1>11, SameEntries DEF CloseLock, callerVars, CallerOK
<1>12. CASE CloseOne
  <2>1. Registered' = Registered /\ closing' \subseteq closing \cup Registered
    BY <1>12, SameEntries DEF CloseOne
  <2> QED
    BY <1>0, <1>12, <2>1 DEF CloseOne, callerVars, CallerOK
<1>13. CASE CloseDone
  <2>1. Registered' = {}
    BY <1>13 DEF CloseDone, Registered, Known, Has
  <2> QED
    BY <1>0, <1>13, <2>1 DEF CloseDone, callerVars, CallerOK
<1>14. CASE UNCHANGED vars
  BY <1>0, <1>14, SameEntries DEF vars, callerVars, CallerOK
<1> QED
  BY <1>1, <1>2, <1>3, <1>4, <1>5, <1>6, <1>7, <1>8, <1>9, <1>10, <1>11, <1>12, <1>13, <1>14
  DEF Next, Get, Use, DialFailed, BorrowFailed, Return

\* Steps that leave the registry and what its pools are alone.
LEMMA RegistryRests ==
  ASSUME PoolsInv, UNCHANGED <<entries, closing, owner, shutdown>>
  PROVE  RegistryOK'
<1>1. Known' = Known /\ Free' = Free
  BY DEF Known, Has, Free
<1> QED
  BY <1>1 DEF PoolsInv, RegistryOK

LEMMA RegistryNext ==
  ASSUME PoolsInv, [Next]_vars
  PROVE  RegistryOK'
<1> USE PoolIdOK
<1>0. TypeOK /\ RegistryOK
  BY DEF PoolsInv
<1>1. ASSUME NEW c \in Caller, Dial(c) PROVE RegistryOK'
  <2>1. PICK p \in PoolId : p \notin Registered /\ owner' = [owner EXCEPT ![p] = tenant[c]]
    BY <1>1, DialEffect
  <2>2. Known' = Known /\ Free' = Free
    BY <1>1 DEF Dial, Known, Has, Free
  <2>3. \A t \in Known : owner'[entries[t]] = owner[entries[t]]
    BY <1>0, <2>1 DEF Registered, TypeOK
  <2> QED
    BY <1>0, <1>1, <2>2, <2>3 DEF Dial, RegistryOK
<1>2. ASSUME NEW c \in Caller, KeepTheirs(c) PROVE RegistryOK'
  <2>1. pool[c] \in PoolId /\ pool[c] \notin Registered
    BY <1>2 DEF KeepTheirs, PoolsInv, CallersOK, CallerOK
  <2>2. Known' = Known /\ Free' = Free
    BY <1>2 DEF KeepTheirs, Known, Has, Free
  <2>3. \A t \in Known : owner'[entries[t]] = owner[entries[t]]
    BY <1>0, <1>2, <2>1 DEF KeepTheirs, Registered, TypeOK
  <2> QED
    BY <1>0, <1>2, <2>2, <2>3 DEF KeepTheirs, RegistryOK
<1>3. ASSUME NEW c \in Caller, Register(c) PROVE RegistryOK'
  <2>1. /\ pool[c] \in PoolId /\ tenant[c] \in Tenant \ Known
        /\ owner[pool[c]] = tenant[c] /\ pool[c] \notin Registered \cup closing
    BY <1>3, RegisterEffect
  <2>2. PICK S \in SUBSET Known :
          /\ Evicts(S)
          /\ entries' = [t \in Tenant |->
               IF t = tenant[c] THEN pool[c] ELSE IF t \in S THEN 0 ELSE entries[t]]
          /\ Known' = (Known \ S) \cup {tenant[c]}
          /\ closing' = closing \cup {entries[t] : t \in S}
    BY <1>3, RegisterEffect
  <2>3. IsFiniteSet(Known') /\ Cardinality(Known') <= Limit
    BY <2>1, <2>2, EvictsOne
  <2>4. owner' = owner /\ Free /\ Free'
    BY <1>3 DEF Register, Free
  <2>5. /\ entries'[tenant[c]] = pool[c]
        /\ \A t \in Known \ S : entries'[t] = entries[t] /\ entries[t] \in Registered
    BY <2>1, <2>2 DEF Known, Registered
  <2>6. \A t, u \in Known' : entries'[t] = entries'[u] => t = u
    BY <1>0, <2>1, <2>2, <2>5 DEF RegistryOK
  <2>7. \A t \in Known' : owner'[entries'[t]] = t
    BY <1>0, <2>1, <2>2, <2>4, <2>5 DEF RegistryOK
  <2>8. \A t \in Known' : entries'[t] \notin closing'
    <3>1. \A t \in Known \ S : entries[t] \notin closing /\ entries[t] \notin {entries[s] : s \in S}
      BY <1>0, <2>2, <2>4 DEF RegistryOK
    <3>2. pool[c] \notin closing /\ pool[c] \notin {entries[s] : s \in S}
      BY <2>1, <2>2 DEF Registered
    <3> QED
      BY <2>2, <2>5, <3>1, <3>2
  <2> QED
    BY <2>3, <2>4, <2>6, <2>7, <2>8 DEF RegistryOK
<1>4. ASSUME NEW p \in closing, Teardown(p) PROVE RegistryOK'
  <2>1. Known' = Known /\ Free' = Free /\ entries' = entries /\ closing' \subseteq closing
    BY <1>4 DEF Teardown, callerVars, Known, Has, Free
  <2>2. \A t \in Known : owner'[entries[t]] \in {owner[entries[t]], NoTenant}
    BY <1>0, <1>4 DEF Teardown, TypeOK, Known, Has
  <2>3. Free => \A t \in Known : owner'[entries[t]] = owner[entries[t]]
    BY <1>0, <1>4 DEF Teardown, TypeOK, RegistryOK, Known, Has
  <2> QED
    BY <1>0, <2>1, <2>2, <2>3 DEF RegistryOK
<1>5. CASE ReapIdle
  <2>1. /\ Idle \subseteq Known /\ Known' = Known \ Idle
        /\ \A t \in Known' : entries'[t] = entries[t]
        /\ closing' = closing \cup {entries[t] : t \in Idle}
    BY <1>5, ReapEffect
  <2>2. IsFiniteSet(Known') /\ Cardinality(Known') <= Cardinality(Known)
        /\ Cardinality(Known) \in Nat /\ Cardinality(Known') \in Nat
    BY <1>0, <2>1, FS_Subset, FS_CardinalityType DEF RegistryOK
  <2>3. owner' = owner /\ Free /\ Free'
    BY <1>5 DEF ReapIdle, Free
  <2>4. \A t \in Known' : entries'[t] \notin closing'
    BY <1>0, <2>1, <2>3 DEF RegistryOK
  <2> QED
    BY <1>0, <2>1, <2>2, <2>3, <2>4 DEF RegistryOK
<1>6. CASE CloseLock
  <2>1. Known' = Known /\ ~ Free'
    BY <1>6 DEF CloseLock, Known, Has, Free
  <2> QED
    BY <1>0, <1>6, <2>1 DEF CloseLock, RegistryOK
<1>7. CASE CloseOne
  <2>1. Known' = Known /\ ~ Free'
    BY <1>7 DEF CloseOne, Known, Has, Free
  <2> QED
    BY <1>0, <1>7, <2>1 DEF CloseOne, RegistryOK
<1>8. CASE CloseDone
  <2>1. Known' = {}
    BY <1>8 DEF CloseDone, Known, Has
  <2> QED
    BY <2>1, FS_EmptySet DEF RegistryOK
<1>9. ASSUME NEW c \in Caller,
             \/ \E t \in Tenant, use \in BOOLEAN : Hit(c, t, use) \/ Miss(c, t, use)
             \/ DialFailed(c) \/ Use(c)
      PROVE  RegistryOK'
  BY <1>9, RegistryRests DEF Hit, Miss, DialFailed, Use, Borrow, BorrowFailed, Return, Leave
<1>10. ASSUME NEW t \in Tenant, Age(t) PROVE RegistryOK'
  BY <1>10, RegistryRests DEF Age
<1>11. CASE UNCHANGED vars
  BY <1>11, RegistryRests DEF vars
<1> QED
  BY <1>1, <1>2, <1>3, <1>4, <1>5, <1>6, <1>7, <1>8, <1>9, <1>10, <1>11 DEF Next, Get

LEMMA NoLeakNext ==
  ASSUME PoolsInv, [Next]_vars
  PROVE  NoLeak'
<1> USE PoolIdOK
<1> SUFFICES ASSUME NEW p \in Opened'
             PROVE  \/ p \in (Registered \cup closing)'
                    \/ \E c \in Caller : step'[c] = "register" /\ pool'[c] = p
  BY DEF NoLeak
<1>0. TypeOK /\ NoLeak /\ p \in PoolId /\ owner'[p] # NoTenant
  BY DEF PoolsInv, Opened
<1>a. ASSUME p \in Opened
      PROVE  p \in Registered \cup closing \/ \E e \in Caller : step[e] = "register" /\ pool[e] = p
  BY <1>0, <1>a DEF NoLeak
<1>1. ASSUME NEW c \in Caller, Dial(c)
      PROVE  p \in (Registered \cup closing)' \/ \E e \in Caller : step'[e] = "register" /\ pool'[e] = p
  <2>1. PICK q \in PoolId :
          /\ owner' = [owner EXCEPT ![q] = tenant[c]]
          /\ pool' = [pool EXCEPT ![c] = q]
          /\ \A e \in Caller : pool[e] # q
    BY <1>1, DialEffect
  <2>2. CASE p = q
    BY <1>0, <1>1, <2>1, <2>2 DEF Dial, TypeOK
  <2>3. CASE p # q
    <3>1. p \in Opened
      BY <1>0, <2>1, <2>3 DEF Opened, TypeOK
    <3>2. (Registered \cup closing)' = Registered \cup closing
      BY <1>1 DEF Dial, Registered, Known, Has
    <3> QED
      BY <1>0, <1>1, <1>a, <2>1, <3>1, <3>2 DEF Dial, TypeOK
  <2> QED
    BY <2>2, <2>3
<1>2. ASSUME NEW c \in Caller, KeepTheirs(c)
      PROVE  p \in (Registered \cup closing)' \/ \E e \in Caller : step'[e] = "register" /\ pool'[e] = p
  <2>1. p # pool[c] /\ p \in Opened
    BY <1>0, <1>2 DEF KeepTheirs, Opened, TypeOK
  <2>2. (Registered \cup closing)' = Registered \cup closing
    BY <1>2 DEF KeepTheirs, Registered, Known, Has
  <2> QED
    BY <1>0, <1>2, <1>a, <2>1, <2>2 DEF KeepTheirs, TypeOK
<1>3. ASSUME NEW c \in Caller, Register(c)
      PROVE  p \in (Registered \cup closing)' \/ \E e \in Caller : step'[e] = "register" /\ pool'[e] = p
  <2>1. PICK S \in SUBSET Known :
          /\ entries' = [t \in Tenant |->
               IF t = tenant[c] THEN pool[c] ELSE IF t \in S THEN 0 ELSE entries[t]]
          /\ Known' = (Known \ S) \cup {tenant[c]}
          /\ closing' = closing \cup {entries[t] : t \in S}
    BY <1>3, RegisterEffect
  <2>2. tenant[c] \in Tenant \ Known
    BY <1>3, RegisterEffect
  <2>3. pool[c] \in Registered'
    BY <2>1, <2>2 DEF Registered
  <2>4. Registered \subseteq (Registered \cup closing)'
    <3> SUFFICES ASSUME NEW t \in Known PROVE entries[t] \in (Registered \cup closing)'
      BY DEF Registered
    <3>1. CASE t \in S
      BY <2>1, <3>1
    <3>2. CASE t \notin S
      <4>1. t \in Known' /\ entries'[t] = entries[t]
        BY <2>1, <2>2, <3>2 DEF Known
      <4> QED
        BY <4>1 DEF Registered
    <3> QED
      BY <3>1, <3>2
  <2>5. p \in Opened
    BY <1>0, <1>3 DEF Register, Opened
  <2> QED
    BY <1>0, <1>3, <1>a, <2>1, <2>3, <2>4, <2>5 DEF Register, TypeOK
<1>4. ASSUME NEW q \in closing, Teardown(q)
      PROVE  p \in (Registered \cup closing)' \/ \E e \in Caller : step'[e] = "register" /\ pool'[e] = p
  <2>1. p # q /\ p \in Opened
    BY <1>0, <1>4 DEF Teardown, Opened, TypeOK
  <2>2. Registered' = Registered /\ closing' = closing \ {q}
    BY <1>4 DEF Teardown, Registered, Known, Has
  <2> QED
    BY <1>4, <1>a, <2>1, <2>2 DEF Teardown, callerVars
<1>5. CASE ReapIdle
  <2>1. /\ Idle \subseteq Known /\ Known' = Known \ Idle
        /\ \A t \in Known' : entries'[t] = entries[t]
        /\ closing' = closing \cup {entries[t] : t \in Idle}
    BY <1>5, ReapEffect
  <2>2. Registered \subseteq (Registered \cup closing)'
    BY <2>1 DEF Registered
  <2>3. p \in Opened
    BY <1>0, <1>5 DEF ReapIdle, Opened
  <2> QED
    BY <1>5, <1>a, <2>1, <2>2, <2>3 DEF ReapIdle, callerVars
<1>6. CASE CloseDone
  <2>1. p \in Opened /\ p \notin Registered
    BY <1>0, <1>6 DEF CloseDone, Opened
  <2> QED
    BY <1>6, <1>a, <2>1 DEF CloseDone, callerVars
<1>7. ASSUME owner' = owner, entries' = entries, closing \subseteq closing',
             \A e \in Caller : step[e] = "register" => step'[e] = "register" /\ pool'[e] = pool[e]
      PROVE  p \in (Registered \cup closing)' \/ \E e \in Caller : step'[e] = "register" /\ pool'[e] = p
  <2>1. p \in Opened
    BY <1>0, <1>7 DEF Opened
  <2>2. Registered' = Registered
    BY <1>7 DEF Registered, Known, Has
  <2> QED
    BY <1>7, <1>a, <2>1, <2>2
<1>8. ASSUME NEW c \in Caller,
             \/ \E t \in Tenant, use \in BOOLEAN : Hit(c, t, use) \/ Miss(c, t, use)
             \/ DialFailed(c) \/ Use(c)
      PROVE  p \in (Registered \cup closing)' \/ \E e \in Caller : step'[e] = "register" /\ pool'[e] = p
  BY <1>0, <1>7, <1>8 DEF Hit, Miss, DialFailed, Use, Borrow, BorrowFailed, Return, Leave, TypeOK
<1>9. ASSUME \/ \E t \in Tenant : Age(t)
             \/ CloseLock \/ CloseOne \/ UNCHANGED vars
      PROVE  p \in (Registered \cup closing)' \/ \E e \in Caller : step'[e] = "register" /\ pool'[e] = p
  BY <1>7, <1>9 DEF Age, CloseLock, CloseOne, callerVars, vars
<1> QED
  BY <1>1, <1>2, <1>3, <1>4, <1>5, <1>6, <1>8, <1>9 DEF Next, Get

---------------------------------------------------------------------------
(* The theorems.                                                             *)

\* Dials, evictions, reapings and Close, in any order (Pools.get, evictLocked,
\* reapIdle, Close), keep the registry and its callers as they should be.
THEOREM PoolsInvHolds == Spec => []PoolsInv
<1>1. Init => PoolsInv
  BY PoolsInvInit
<1>2. PoolsInv /\ [Next]_vars => PoolsInv'
  BY TypeNext, CallersNext, RegistryNext, NoLeakNext DEF PoolsInv
<1> QED
  BY <1>1, <1>2, PTL DEF Spec

\* The pool get returns is the one of the tenant it was asked for, or has been
\* torn down since, whoever else was at the registry (Pools).
THEOREM IsolationHolds == Spec => []Isolation
<1>1. PoolsInv => Isolation
  BY DEF PoolsInv, CallersOK, CallerOK, Isolation, Opened
<1> QED
  BY <1>1, PoolsInvHolds, PTL

\* A tenant has one live pool, the registry keeps to its limit, and every open
\* pool is registered, on its way in, or being closed (Pools.get, evictLocked).
THEOREM RegistryInvHolds == Spec => []RegistryInv
<1>1. ASSUME PoolsInv PROVE OneLivePool
  <2>1. Cardinality(Known) <= Limit
    BY <1>1 DEF PoolsInv, RegistryOK
  <2>2. ASSUME NEW p \in Registered, NEW q \in Registered, owner[p] = owner[q], owner[p] # NoTenant
        PROVE  p = q
    <3>1. PICK t \in Known : p = entries[t]
      BY DEF Registered
    <3>2. PICK u \in Known : q = entries[u]
      BY DEF Registered
    <3>3. t = u
      BY <1>1, <2>2, <3>1, <3>2 DEF PoolsInv, RegistryOK
    <3> QED
      BY <3>1, <3>2, <3>3
  <2> QED
    BY <2>1, <2>2 DEF OneLivePool
<1>2. PoolsInv => RegistryInv
  BY <1>1 DEF PoolsInv, RegistryInv
<1> QED
  BY <1>2, PoolsInvHolds, PTL

HIDE PoolsAssumption

-----------------------------------------------------------------------------
(* The fan-out over the tenants' databases (discover.go).                    *)

\* The name of a tenant's database is what its slug resolves to.
LEMMA TrimmedResolves ==
  ASSUME NEW name \in Seq(STRING), Like(name)
  PROVE  /\ Resolve(Trimmed(name)) = name
         /\ Trimmed(name) = SubSeq(name, Len(Prefix) + 1, Len(name) - Len(Suffix))
<1> DEFINE p == Len(Prefix)
           s == Len(Suffix)
           l == Len(name)
           slug == SubSeq(name, p + 1, l - s)
<1>1. /\ Prefix \in Seq(STRING) /\ Suffix \in Seq(STRING)
      /\ p \in Nat /\ s \in Nat /\ l \in Nat /\ l >= p + s
  BY FanoutAssumption DEF Like
<1>2. SubSeq(name, 1, p) = Prefix /\ SubSeq(name, l - s + 1, l) = Suffix
  BY DEF Like
<1>3. Trimmed(name) = slug
  BY <1>2 DEF Trimmed
<1>4. /\ \A i \in 1 .. p : Prefix[i] = name[i]
      /\ \A i \in 1 .. s : Suffix[i] = name[l - s + i]
  <2>1. ASSUME NEW i \in 1 .. p PROVE SubSeq(name, 1, p)[i] = name[i]
    BY <1>1, <2>1
  <2>2. ASSUME NEW i \in 1 .. s PROVE SubSeq(name, l - s + 1, l)[i] = name[l - s + i]
    BY <1>1, <2>2
  <2> QED
    BY <1>2, <2>1, <2>2
<1>5. /\ slug \in Seq(STRING) /\ Len(slug) = l - s - p
      /\ \A i \in 1 .. l - s - p : slug[i] = name[p + i]
  <2>1. ASSUME NEW i \in p + 1 .. l - s PROVE i \in 1 .. l
    BY <1>1
  <2>2. slug \in Seq(STRING)
    BY <1>1, <2>1, SubSeqProperties
  <2>3. Len(slug) = l - s - p
    BY <1>1
  <2>4. ASSUME NEW i \in 1 .. l - s - p PROVE slug[i] = name[p + i]
    BY <1>1, <2>4
  <2> QED
    BY <2>2, <2>3, <2>4
<1> HIDE DEF slug
<1>6. /\ Prefix \o slug \in Seq(STRING) /\ Len(Prefix \o slug) = l - s
      /\ \A i \in 1 .. l - s : (Prefix \o slug)[i] = name[i]
  <2>1. /\ Prefix \o slug \in Seq(STRING) /\ Len(Prefix \o slug) = p + (l - s - p)
        /\ \A i \in 1 .. p + (l - s - p) : (Prefix \o slug)[i] = IF i <= p THEN Prefix[i] ELSE slug[i - p]
    BY <1>1, <1>5, ConcatProperties
  <2>2. p + (l - s - p) = l - s
    BY <1>1
  <2>3. ASSUME NEW i \in 1 .. l - s PROVE (Prefix \o slug)[i] = name[i]
    <3>1. CASE i <= p
      BY <1>1, <1>4, <2>1, <2>2, <3>1
    <3>2. CASE ~ (i <= p)
      <4>1. i - p \in 1 .. l - s - p /\ p + (i - p) = i
        BY <1>1, <3>2
      <4> QED
        BY <1>1, <1>5, <2>1, <2>2, <3>2, <4>1
    <3> QED
      BY <3>1, <3>2
  <2> QED
    BY <2>1, <2>2, <2>3
<1>7. /\ Prefix \o slug \o Suffix \in Seq(STRING) /\ Len(Prefix \o slug \o Suffix) = l
      /\ \A i \in 1 .. l : (Prefix \o slug \o Suffix)[i] = name[i]
  <2>1. /\ Prefix \o slug \o Suffix \in Seq(STRING) /\ Len(Prefix \o slug \o Suffix) = (l - s) + s
        /\ \A i \in 1 .. (l - s) + s : (Prefix \o slug \o Suffix)[i] =
             IF i <= l - s THEN (Prefix \o slug)[i] ELSE Suffix[i - (l - s)]
    <3>1. PICK lead \in Seq(STRING) : lead = Prefix \o slug /\ Len(lead) = l - s
      BY <1>6
    <3>2. /\ lead \o Suffix \in Seq(STRING) /\ Len(lead \o Suffix) = Len(lead) + s
          /\ \A i \in 1 .. Len(lead) + s : (lead \o Suffix)[i] =
               IF i <= Len(lead) THEN lead[i] ELSE Suffix[i - Len(lead)]
      BY <1>1, ConcatProperties
    <3> QED
      BY <3>1, <3>2
  <2>2. (l - s) + s = l
    BY <1>1
  <2>3. ASSUME NEW i \in 1 .. l PROVE (Prefix \o slug \o Suffix)[i] = name[i]
    <3>1. CASE i <= l - s
      BY <1>1, <1>6, <2>1, <2>2, <3>1
    <3>2. CASE ~ (i <= l - s)
      <4>1. i - (l - s) \in 1 .. s /\ l - s + (i - (l - s)) = i
        BY <1>1, <3>2
      <4> QED
        BY <1>1, <1>4, <2>1, <2>2, <3>2, <4>1
    <3> QED
      BY <3>1, <3>2
  <2> QED
    BY <2>1, <2>2, <2>3
<1>8. Prefix \o slug \o Suffix = name
  BY <1>7, SeqEqual
<1> QED
  BY <1>3, <1>8 DEF Resolve, slug

\* Tenants and their databases.
LEMMA TenantShape ==
  /\ \A name \in TenantNames : Resolve(Trimmed(name)) = name /\ Trimmed(name) \in TenantSlugs
  /\ \A slug \in TenantSlugs : Resolve(slug) \in TenantNames /\ Trimmed(Resolve(slug)) = slug
  /\ TenantNames \subseteq Names
<1>1. \A name \in TenantNames : Resolve(Trimmed(name)) = name
  BY TrimmedResolves, FanoutAssumption DEF TenantNames
<1> QED
  BY <1>1 DEF TenantSlugs, TenantNames

\* Only tenants are enumerated, and those that could be swept all are.
LEMMA EnumerateShape ==
  ASSUME NEW onlyConnectable
  PROVE  /\ Enumerate(onlyConnectable) \subseteq TenantSlugs
         /\ \A name \in TenantNames : Active(db[name]) => Trimmed(name) \in Enumerate(onlyConnectable)
<1>1. ASSUME NEW name \in Others, Like(name), ValidSlug(Trimmed(name)) PROVE FALSE
  <2> DEFINE i == Len(Prefix) + 1
             j == Len(name) - Len(Suffix)
  <2>1. name \in Seq(STRING) /\ Prefix \in Seq(STRING) /\ Suffix \in Seq(STRING)
    BY FanoutAssumption
  <2>2. Resolve(Trimmed(name)) = name /\ Trimmed(name) = SubSeq(name, i, j)
    BY <1>1, <2>1, TrimmedResolves
  <2>3. SubSeq(name, i, j) # << >>
    BY <1>1, <2>2 DEF ValidSlug
  <2>4. i <= j
    BY <2>1, <2>3
  <2>5. i \in 1 .. Len(name) /\ j \in 1 .. Len(name)
    BY <2>1, <2>4
  <2> QED
    BY <1>1, <2>2, <2>5, NamingAssumption
<1>2. Enumerate(onlyConnectable) \subseteq TenantSlugs
  BY <1>1 DEF Enumerate, TenantSlugs, TenantNames
<1>3. ASSUME NEW name \in TenantNames, Active(db[name]) PROVE Trimmed(name) \in Enumerate(onlyConnectable)
  BY <1>3 DEF Enumerate, TenantNames, Active
<1> QED
  BY <1>2, <1>3

\* What a run observes while it goes on.
LEMMA ObserveShape ==
  ASSUME NEW disturbed, Observe(disturbed), FanoutTypeOK
  PROVE  /\ steady' \subseteq {name \in Names : Active(db'[name])} /\ steady' \subseteq steady \ disturbed
         /\ activated' \subseteq Names /\ activated \subseteq activated'
         /\ \A name \in Names : Active(db'[name]) => name \in activated'
BY DEF Observe, FanoutTypeOK

LEMMA FanoutInvInit == FanoutInit => FanoutInv
<1> SUFFICES ASSUME FanoutInit PROVE FanoutInv
  OBVIOUS
<1>1. FanoutTypeOK
  <2>1. Stages \subseteq AnyDatabase
    <3>1. Missing \in AnyDatabase
      BY DEF Missing, AnyDatabase, SchemaVersions
    <3>2. ASSUME NEW c \in BOOLEAN, NEW v \in {NoSchema} \cup 0 .. Target
          PROVE  [exists |-> TRUE, connect |-> c, schema |-> v] \in AnyDatabase
      BY DEF AnyDatabase, SchemaVersions
    <3> QED
      BY <3>1, <3>2 DEF Stages
  <2>2. NoRun \in AnyRun
    BY DEF NoRun, AnyRun, SchemaVersions
  <2> QED
    BY <2>1, <2>2 DEF FanoutInit, FanoutTypeOK
<1>2. OneList /\ NobodyIsLost /\ RunShape
  BY DEF FanoutInit, NoRun, OneList, NobodyIsLost, RunShape, InHand
<1> QED
  BY <1>1, <1>2 DEF FanoutInv

\* The verdict on the tenant in hand: one that is not kept is not steady any
\* more, and one that is kept is at the last migration.
LEMMA VerdictKeepsInv ==
  ASSUME FanoutInv, InHand, NEW slug, slug = fanout.slug, NEW disturbed, UNCHANGED db, Observe(disturbed),
         \/ Skip(slug) /\ Resolve(slug) \notin steady'
         \/ Fail(slug) /\ Resolve(slug) \notin steady'
         \/ /\ Keep(slug)
            /\ fanout.mode = "migrate" /\ Resolve(slug) \in steady' =>
                 db[Resolve(slug)].schema = Target
  PROVE  FanoutInv'
<1>0. FanoutTypeOK /\ OneList /\ NobodyIsLost /\ RunShape
  BY DEF FanoutInv
<1>1. /\ steady' \subseteq {name \in Names : Active(db'[name])} /\ steady' \subseteq steady
      /\ activated' \subseteq Names
  BY <1>0, ObserveShape
<1>2. PICK rest \in AnyRun :
        /\ rest = Next1(fanout) /\ rest.pc = "next" /\ rest.todo = fanout.todo /\ rest.mode = fanout.mode
        /\ rest.result = fanout.result /\ rest.migrated = fanout.migrated
        /\ rest.skipped = fanout.skipped /\ rest.failures = fanout.failures
  <2>1. PICK run \in AnyRun : run = fanout
    BY <1>0 DEF FanoutTypeOK
  <2>2. NoSchema \in SchemaVersions
    BY DEF SchemaVersions
  <2>3. Next1(fanout) = [run EXCEPT !.pc = "next", !.slug = << >>, !.from = NoSchema]
    BY <2>1 DEF Next1
  <2>4. [run EXCEPT !.pc = "next", !.slug = << >>, !.from = NoSchema] \in AnyRun
    BY <2>2 DEF AnyRun
  <2>5. PICK rest \in AnyRun : rest = [run EXCEPT !.pc = "next", !.slug = << >>, !.from = NoSchema]
    BY <2>4
  <2>6. /\ rest.pc = "next" /\ rest.todo = run.todo /\ rest.mode = run.mode
        /\ rest.result = run.result /\ rest.migrated = run.migrated
        /\ rest.skipped = run.skipped /\ rest.failures = run.failures
    BY <2>5 DEF AnyRun
  <2> QED
    BY <2>1, <2>3, <2>5, <2>6
<1>3. PICK migrated \in SUBSET TenantSlugs, skipped \in SUBSET TenantSlugs,
           failures \in SUBSET TenantSlugs :
        /\ fanout' = [rest EXCEPT !.migrated = migrated, !.skipped = skipped, !.failures = failures]
        /\ \/ /\ migrated = fanout.migrated \cup {slug}
              /\ skipped = fanout.skipped /\ failures = fanout.failures
              /\ fanout.mode = "migrate" /\ Resolve(slug) \in steady' => db[Resolve(slug)].schema = Target
           \/ /\ migrated = fanout.migrated /\ Resolve(slug) \notin steady'
              /\ \/ skipped = fanout.skipped \cup {slug} /\ failures = fanout.failures
                 \/ skipped = fanout.skipped /\ failures = fanout.failures \cup {slug}
  <2>1. slug \in TenantSlugs
    BY <1>0 DEF OneList
  <2>2. fanout.migrated \subseteq TenantSlugs /\ fanout.skipped \subseteq TenantSlugs
        /\ fanout.failures \subseteq TenantSlugs
    BY <1>0 DEF FanoutTypeOK, AnyRun
  <2>3. CASE Skip(slug) /\ Resolve(slug) \notin steady'
    <3>1. fanout' = [rest EXCEPT !.migrated = fanout.migrated, !.skipped = fanout.skipped \cup {slug},
                                 !.failures = fanout.failures]
      BY <1>2, <2>3 DEF Skip, AnyRun
    <3> QED
      BY <2>1, <2>2, <2>3, <3>1
  <2>4. CASE Fail(slug) /\ Resolve(slug) \notin steady'
    <3>1. fanout' = [rest EXCEPT !.migrated = fanout.migrated, !.skipped = fanout.skipped,
                                 !.failures = fanout.failures \cup {slug}]
      BY <1>2, <2>4 DEF Fail, AnyRun
    <3> QED
      BY <2>1, <2>2, <2>4, <3>1
  <2>5. CASE /\ Keep(slug)
             /\ fanout.mode = "migrate" /\ Resolve(slug) \in steady' => db[Resolve(slug)].schema = Target
    <3>1. fanout' = [rest EXCEPT !.migrated = fanout.migrated \cup {slug}, !.skipped = fanout.skipped,
                                 !.failures = fanout.failures]
      BY <1>2, <2>5 DEF Keep, AnyRun
    <3> QED
      BY <2>1, <2>2, <2>5, <3>1
  <2> QED
    BY <2>3, <2>4, <2>5
<1>4. /\ fanout' \in AnyRun
      /\ fanout'.pc = "next" /\ fanout'.todo = fanout.todo /\ fanout'.mode = fanout.mode
      /\ fanout'.result = fanout.result /\ fanout'.migrated = migrated /\ fanout'.skipped = skipped
      /\ fanout'.failures = failures
  BY <1>2, <1>3 DEF AnyRun
<1>5. FanoutTypeOK'
  BY <1>0, <1>1, <1>4 DEF FanoutTypeOK
<1>6. OneList'
  <2>1. slug \notin fanout.todo \cup fanout.migrated \cup fanout.skipped \cup fanout.failures
    BY <1>0 DEF OneList
  <2> QED
    BY <1>0, <1>3, <1>4, <2>1 DEF OneList, InHand
<1>7. NobodyIsLost'
  <2> SUFFICES ASSUME NEW name \in steady' \cap TenantNames
               PROVE  /\ Trimmed(name) \in fanout'.todo \cup fanout'.migrated
                      /\ Trimmed(name) \in fanout'.migrated /\ fanout'.mode = "migrate" =>
                           db'[name].schema = Target
    BY DEF NobodyIsLost
  <2>1. name \in steady \cap TenantNames /\ Resolve(Trimmed(name)) = name
    BY <1>1, TenantShape
  <2>2. /\ Trimmed(name) \in fanout.todo \cup fanout.migrated \/ slug = Trimmed(name)
        /\ Trimmed(name) \in fanout.migrated /\ fanout.mode = "migrate" => db[name].schema = Target
    BY <1>0, <2>1 DEF NobodyIsLost, InHand
  <2> QED
    BY <1>3, <1>4, <2>1, <2>2
<1>8. RunShape'
  BY <1>0, <1>4 DEF RunShape, InHand
<1> QED
  BY <1>5, <1>6, <1>7, <1>8 DEF FanoutInv

\* A step of the run that leaves the databases and the lists alone.
LEMMA StartKeepsInv ==
  ASSUME FanoutInv, NEW mode \in {"migrate", "discover"}, Start(mode)
  PROVE  FanoutInv'
<1>0. FanoutTypeOK
  BY DEF FanoutInv
<1>1. /\ fanout' \in AnyRun
      /\ fanout'.mode = mode /\ fanout'.pc = "list" /\ fanout'.result = "none"
      /\ fanout'.todo = {} /\ fanout'.migrated = {} /\ fanout'.skipped = {} /\ fanout'.failures = {}
  BY DEF Start, NoRun, AnyRun, SchemaVersions
<1>2. db' = db /\ steady' = {n \in Names : Active(db[n])} /\ activated' = steady'
  BY DEF Start
<1>3. FanoutTypeOK'
  BY <1>0, <1>1, <1>2 DEF FanoutTypeOK
<1>4. OneList' /\ NobodyIsLost' /\ RunShape'
  BY <1>1 DEF OneList, NobodyIsLost, RunShape, InHand
<1> QED
  BY <1>3, <1>4 DEF FanoutInv

LEMMA ListKeepsInv ==
  ASSUME FanoutInv, List \/ ListFails
  PROVE  FanoutInv'
<1>0. FanoutTypeOK /\ RunShape /\ fanout.pc = "list"
  BY DEF FanoutInv, List, ListFails
<1>1. PICK run \in AnyRun :
        /\ run = fanout /\ run.pc = "list" /\ run.result = "none" /\ run.mode # "none" /\ run.todo = {}
        /\ run.migrated = {} /\ run.skipped = {} /\ run.failures = {}
  BY <1>0 DEF FanoutTypeOK, RunShape
<1>2. CASE List
  <2>1. PICK found \in SUBSET TenantSlugs :
          /\ fanout' = [run EXCEPT !.pc = "next", !.todo = found]
          /\ \A name \in TenantNames : Active(db[name]) => Trimmed(name) \in found
    BY <1>1, <1>2, EnumerateShape DEF List
  <2>2. db' = db /\ Observe({})
    BY <1>2 DEF List
  <2>3. /\ fanout' \in AnyRun
        /\ fanout'.pc = "next" /\ fanout'.todo = found /\ fanout'.result = "none"
        /\ fanout'.mode = run.mode
        /\ fanout'.migrated = {} /\ fanout'.skipped = {} /\ fanout'.failures = {}
    BY <1>1, <2>1 DEF AnyRun
  <2>4. steady' \subseteq {name \in Names : Active(db'[name])} /\ activated' \subseteq Names
    BY <1>0, <2>2, ObserveShape
  <2>5. FanoutTypeOK'
    BY <1>0, <2>2, <2>3, <2>4 DEF FanoutTypeOK
  <2>6. OneList' /\ RunShape'
    BY <1>1, <2>3 DEF OneList, RunShape, InHand
  <2>7. NobodyIsLost'
    BY <2>1, <2>2, <2>3, <2>4 DEF NobodyIsLost
  <2> QED
    BY <2>5, <2>6, <2>7 DEF FanoutInv
<1>3. CASE ListFails
  <2>1. fanout' = [run EXCEPT !.pc = "idle", !.result = "unlisted"] /\ db' = db /\ Observe(Names)
    BY <1>1, <1>3 DEF ListFails
  <2>2. /\ fanout' \in AnyRun
        /\ fanout'.pc = "idle" /\ fanout'.todo = {} /\ fanout'.result = "unlisted"
        /\ fanout'.migrated = {} /\ fanout'.skipped = {} /\ fanout'.failures = {}
    BY <1>1, <2>1 DEF AnyRun
  <2>3. steady' = {} /\ activated' \subseteq Names
    BY <1>0, <2>1, ObserveShape DEF FanoutTypeOK
  <2>4. FanoutTypeOK'
    BY <1>0, <2>1, <2>2, <2>3 DEF FanoutTypeOK
  <2>5. OneList' /\ RunShape' /\ NobodyIsLost'
    BY <2>2, <2>3 DEF OneList, RunShape, NobodyIsLost, InHand
  <2> QED
    BY <2>4, <2>5 DEF FanoutInv
<1> QED
  BY <1>2, <1>3

LEMMA TakeKeepsInv ==
  ASSUME FanoutInv, Take
  PROVE  FanoutInv'
<1>0. FanoutTypeOK /\ RunShape /\ OneList /\ NobodyIsLost
  BY DEF FanoutInv
<1>1. PICK run \in AnyRun : run = fanout /\ run.pc = "next" /\ run.result = "none" /\ run.mode # "none"
  BY <1>0 DEF FanoutTypeOK, RunShape, Take
<1>2. PICK slug \in run.todo :
        fanout' = [run EXCEPT !.pc = "check", !.slug = slug, !.todo = run.todo \ {slug}]
  BY <1>1 DEF Take, AnyRun
<1>3. db' = db /\ steady' = steady /\ activated' = {name \in Names : Active(db[name])}
  BY DEF Take
<1>4. slug \in TenantSlugs /\ run.todo \subseteq TenantSlugs
  BY DEF AnyRun
<1>5. /\ fanout' \in AnyRun
      /\ fanout'.pc = "check" /\ fanout'.slug = slug /\ fanout'.todo = run.todo \ {slug}
      /\ fanout'.result = run.result /\ fanout'.mode = run.mode /\ fanout'.migrated = run.migrated
      /\ fanout'.skipped = run.skipped /\ fanout'.failures = run.failures
  BY <1>2, <1>4 DEF AnyRun
<1>6. /\ steady' \subseteq {name \in Names : Active(db'[name])} /\ activated' \subseteq Names
      /\ steady' \subseteq steady
  BY <1>0, <1>3 DEF FanoutTypeOK
<1>7. FanoutTypeOK'
  BY <1>0, <1>3, <1>5, <1>6 DEF FanoutTypeOK
<1>8. OneList'
  BY <1>0, <1>1, <1>4, <1>5 DEF OneList, InHand
<1>9. RunShape'
  BY <1>1, <1>5 DEF RunShape
<1>10. NobodyIsLost'
  BY <1>0, <1>1, <1>3, <1>5, <1>6 DEF NobodyIsLost, InHand
<1> QED
  BY <1>7, <1>8, <1>9, <1>10 DEF FanoutInv

\* The tenant in hand and its database.
LEMMA InHandShape ==
  ASSUME FanoutInv, InHand
  PROVE  /\ fanout.slug \in TenantSlugs /\ Resolve(fanout.slug) \in TenantNames
         /\ Resolve(fanout.slug) \in Names /\ Reached(fanout.slug) = db[Resolve(fanout.slug)]
         /\ Trimmed(Resolve(fanout.slug)) = fanout.slug /\ db[Resolve(fanout.slug)] \in AnyDatabase
<1>1. fanout.slug \in TenantSlugs
  BY DEF FanoutInv, OneList
<1>2. Resolve(fanout.slug) \in TenantNames /\ Resolve(fanout.slug) \in Names
      /\ Trimmed(Resolve(fanout.slug)) = fanout.slug
  BY <1>1, TenantShape
<1> QED
  BY <1>1, <1>2 DEF Reached, FanoutInv, FanoutTypeOK

\* To go on with the tenant in hand, and with what may have become of its schema.
LEMMA OnwardKeepsInv ==
  ASSUME FanoutInv, InHand, NEW pc \in {"migrate", "up"}, NEW from \in SchemaVersions,
         NEW name, name = Resolve(fanout.slug), NEW schema \in 0 .. Target,
         fanout' = [fanout EXCEPT !.pc = pc, !.from = from], Observe({}), fanout.mode = "migrate",
         db' = db \/ db' = [db EXCEPT ![name].schema = schema],
         name \in activated',
         pc = "up" => /\ from \in 0 .. Target
                      /\ name \in steady' => db'[name].schema = from
  PROVE  FanoutInv'
<1>0. FanoutTypeOK /\ RunShape /\ OneList /\ NobodyIsLost
  BY DEF FanoutInv
<1>1. PICK run \in AnyRun : run = fanout
  BY <1>0 DEF FanoutTypeOK
<1>2. /\ fanout' \in AnyRun
      /\ fanout'.pc = pc /\ fanout'.from = from /\ fanout'.slug = fanout.slug
      /\ fanout'.todo = fanout.todo /\ fanout'.result = fanout.result /\ fanout'.mode = fanout.mode
      /\ fanout'.migrated = fanout.migrated /\ fanout'.skipped = fanout.skipped
      /\ fanout'.failures = fanout.failures
  BY <1>1 DEF AnyRun
<1>3. /\ name \in TenantNames /\ name \in Names /\ Trimmed(name) = fanout.slug
      /\ db[name] \in AnyDatabase
  BY InHandShape
<1>4. /\ db' \in [Names -> AnyDatabase]
      /\ \A n \in Names \ {name} : db'[n] = db[n]
  <2>1. CASE db' = db
    BY <1>0, <2>1 DEF FanoutTypeOK
  <2>2. CASE db' = [db EXCEPT ![name].schema = schema]
    <3>1. [db[name] EXCEPT !.schema = schema] \in AnyDatabase
      BY <1>3 DEF AnyDatabase, SchemaVersions
    <3> QED
      BY <1>0, <2>2, <3>1 DEF FanoutTypeOK
  <2> QED
    BY <2>1, <2>2
<1>5. /\ steady' \subseteq {n \in Names : Active(db'[n])} /\ activated' \subseteq Names
      /\ steady' \subseteq steady
  BY <1>0, ObserveShape
<1>6. FanoutTypeOK'
  BY <1>2, <1>4, <1>5 DEF FanoutTypeOK
<1>7. OneList'
  BY <1>0, <1>2 DEF OneList, InHand
<1>8. RunShape'
  BY <1>0, <1>2 DEF RunShape, InHand
<1>9. NobodyIsLost'
  <2> SUFFICES ASSUME NEW n \in steady' \cap TenantNames
               PROVE  /\ Trimmed(n) \in fanout.todo \cup fanout.migrated \/ fanout.slug = Trimmed(n)
                      /\ Trimmed(n) \in fanout.migrated /\ fanout.mode = "migrate" =>
                           db'[n].schema = Target
    BY <1>2 DEF NobodyIsLost, InHand
  <2>1. /\ Trimmed(n) \in fanout.todo \cup fanout.migrated \/ fanout.slug = Trimmed(n)
        /\ Trimmed(n) \in fanout.migrated /\ fanout.mode = "migrate" => db[n].schema = Target
    BY <1>0, <1>5 DEF NobodyIsLost, InHand
  <2>2. fanout.slug \notin fanout.migrated
    BY <1>0 DEF OneList
  <2>3. n # name => db'[n] = db[n]
    BY <1>4, TenantShape
  <2> QED
    BY <1>3, <2>1, <2>2, <2>3
<1> QED
  BY <1>6, <1>7, <1>8, <1>9 DEF FanoutInv

\* Who is not there, or fails, is not steady; who is kept stands at its schema.
LEMMA CheckKeepsInv ==
  ASSUME FanoutInv, Check
  PROVE  FanoutInv'
<1>0. FanoutTypeOK /\ RunShape /\ InHand /\ fanout.pc = "check"
  BY DEF FanoutInv, Check, InHand
<1>1. PICK name \in Names : name = Resolve(fanout.slug) /\ Reached(fanout.slug) = db[name]
  BY <1>0, InHandShape
<1>2. UNCHANGED db /\ Observe({})
  BY DEF Check
<1>3. /\ steady' \subseteq {n \in Names : Active(db'[n])}
      /\ \A n \in Names : Active(db'[n]) => n \in activated'
  BY <1>0, <1>2, ObserveShape
<1>4. CASE ~ Active(db[name])
  <2>1. Skip(fanout.slug) /\ Resolve(fanout.slug) \notin steady'
    BY <1>1, <1>2, <1>3, <1>4 DEF Check
  <2> QED
    BY <1>0, <1>2, <2>1, VerdictKeepsInv
<1>5. CASE Active(db[name]) /\ fanout.mode = "discover"
  <2>1. Keep(fanout.slug) /\ fanout.mode # "migrate"
    BY <1>1, <1>5 DEF Check
  <2> QED
    BY <1>0, <1>2, <2>1, VerdictKeepsInv
<1>6. CASE Active(db[name]) /\ fanout.mode # "discover"
  <2>1. fanout' = [fanout EXCEPT !.pc = "migrate"]
    BY <1>1, <1>6 DEF Check
  <2>2. fanout' = [fanout EXCEPT !.pc = "migrate", !.from = fanout.from] /\ fanout.from \in SchemaVersions
    BY <1>0, <2>1 DEF FanoutTypeOK, AnyRun
  <2>3. fanout.mode = "migrate"
    BY <1>0, <1>6 DEF FanoutTypeOK, RunShape, AnyRun
  <2>4. name \in activated'
    BY <1>2, <1>3, <1>6
  <2>5. 0 \in 0 .. Target
    BY FanoutAssumption
  <2>6. PICK from \in SchemaVersions : from = fanout.from
    BY <2>2
  <2> QED
    BY <1>0, <1>1, <1>2, <2>2, <2>3, <2>4, <2>5, <2>6, OnwardKeepsInv
<1> QED
  BY <1>4, <1>5, <1>6

LEMMA StepFailsKeepsInv ==
  ASSUME FanoutInv, StepFails
  PROVE  FanoutInv'
<1>1. InHand /\ Fail(fanout.slug) /\ UNCHANGED db /\ Observe({Resolve(fanout.slug)})
  BY DEF StepFails, InHand
<1>2. Resolve(fanout.slug) \notin steady'
  BY <1>1, ObserveShape DEF FanoutInv
<1> QED
  BY <1>1, <1>2, VerdictKeepsInv

LEMMA MigrateKeepsInv ==
  ASSUME FanoutInv, Migrate
  PROVE  FanoutInv' /\ (db' # db => Resolve(fanout.slug) \in activated)
<1>0. FanoutTypeOK /\ RunShape /\ InHand /\ fanout.pc = "migrate" /\ Observe({})
  BY DEF FanoutInv, Migrate, InHand
<1>1. PICK name \in Names :
        name = Resolve(fanout.slug) /\ Reached(fanout.slug) = db[name] /\ db[name] \in AnyDatabase
  BY <1>0, InHandShape
<1>2. /\ steady' \subseteq {n \in Names : Active(db'[n])} /\ activated \subseteq activated'
      /\ steady' \subseteq steady
  BY <1>0, ObserveShape
<1>3. fanout.mode = "migrate" /\ name \in activated
  BY <1>0, <1>1 DEF RunShape
<1>4. CASE Fail(fanout.slug) /\ UNCHANGED db /\ ~ Active(db[name])
  <2>1. Resolve(fanout.slug) \notin steady'
    BY <1>1, <1>2, <1>4
  <2> QED
    BY <1>0, <1>4, <2>1, VerdictKeepsInv
<1>5. CASE ~ (Fail(fanout.slug) /\ UNCHANGED db /\ ~ Active(db[name]))
  <2>1. PICK from : from = IF db[name].schema = NoSchema THEN 0 ELSE db[name].schema
    OBVIOUS
  <2>2. /\ db' = [db EXCEPT ![name].schema = from]
        /\ fanout' = [fanout EXCEPT !.pc = "up", !.from = from]
    BY <1>1, <1>5, <2>1 DEF Migrate, Active
  <2>3. from \in 0 .. Target /\ from \in SchemaVersions
    BY <1>1, <2>1, FanoutAssumption DEF AnyDatabase, SchemaVersions
  <2>4. db'[name].schema = from
    BY <1>0, <1>1, <2>2 DEF FanoutTypeOK, AnyDatabase
  <2> QED
    BY <1>0, <1>1, <1>2, <1>3, <2>2, <2>3, <2>4, OnwardKeepsInv
<1> QED
  BY <1>4, <1>5

LEMMA UpKeepsInv ==
  ASSUME FanoutInv, Up
  PROVE  FanoutInv' /\ (db' # db => Resolve(fanout.slug) \in activated)
<1>0. /\ FanoutTypeOK /\ RunShape /\ InHand /\ fanout.pc = "up" /\ Observe({})
  BY DEF FanoutInv, Up, InHand
<1>1. PICK name \in Names :
        name = Resolve(fanout.slug) /\ Reached(fanout.slug) = db[name] /\ db[name] \in AnyDatabase
  BY <1>0, InHandShape
<1>2. steady' \subseteq steady /\ activated \subseteq activated'
  BY <1>0, ObserveShape
<1>3. PICK from \in 0 .. Target :
        from = fanout.from /\ (name \in steady => db[name].schema = from)
  BY <1>0, <1>1 DEF RunShape
<1>4. fanout.mode = "migrate" /\ name \in activated
  BY <1>0, <1>1 DEF RunShape
<1>5. CASE from = Target
  <2>1. Keep(fanout.slug) /\ UNCHANGED db
    BY <1>3, <1>5 DEF Up
  <2>2. Resolve(fanout.slug) \in steady' => db[Resolve(fanout.slug)].schema = Target
    BY <1>1, <1>2, <1>3, <1>5
  <2> QED
    BY <1>0, <2>1, <2>2, VerdictKeepsInv
<1>6. CASE from # Target /\ db[name].schema # from
  <2>1. Fail(fanout.slug) /\ UNCHANGED db
    BY <1>1, <1>3, <1>6 DEF Up
  <2>2. Resolve(fanout.slug) \notin steady'
    BY <1>1, <1>2, <1>3, <1>6
  <2> QED
    BY <1>0, <2>1, <2>2, VerdictKeepsInv
<1>7. CASE from # Target /\ db[name].schema = from
  <2>1. PICK next \in 0 .. Target : next = from + 1 /\ next \in SchemaVersions
    BY <1>3, <1>7, FanoutAssumption DEF SchemaVersions
  <2>2. /\ db' = [db EXCEPT ![name].schema = next]
        /\ fanout' = [fanout EXCEPT !.from = next]
    BY <1>1, <1>3, <1>7, <2>1 DEF Up
  <2>3. fanout' = [fanout EXCEPT !.pc = "up", !.from = next]
    BY <1>0, <2>2 DEF FanoutTypeOK, AnyRun
  <2>4. db'[name].schema = next
    BY <1>0, <1>1, <2>2 DEF FanoutTypeOK, AnyDatabase
  <2> QED
    BY <1>0, <1>1, <1>2, <1>4, <2>1, <2>2, <2>3, <2>4, OnwardKeepsInv
<1> QED
  BY <1>5, <1>6, <1>7

LEMMA FinishKeepsInv ==
  ASSUME FanoutInv, Finish
  PROVE  FanoutInv'
<1>0. FanoutTypeOK /\ RunShape /\ OneList /\ NobodyIsLost
  BY DEF FanoutInv
<1>1. PICK run \in AnyRun : run = fanout /\ run.pc = "next" /\ run.todo = {}
  BY <1>0 DEF FanoutTypeOK, Finish
<1>2. PICK result \in {"failed", "done"} :
        /\ fanout' = [run EXCEPT !.pc = "idle", !.result = result]
        /\ result = "done" /\ run.mode = "migrate" => run.failures = {}
  BY <1>1 DEF Finish
<1>3. db' = db /\ Observe({})
  BY DEF Finish
<1>4. /\ fanout' \in AnyRun
      /\ fanout'.pc = "idle" /\ fanout'.result = result /\ fanout'.todo = {}
      /\ fanout'.mode = run.mode /\ fanout'.migrated = run.migrated
      /\ fanout'.skipped = run.skipped /\ fanout'.failures = run.failures
  BY <1>1, <1>2 DEF AnyRun
<1>5. /\ steady' \subseteq {name \in Names : Active(db'[name])} /\ activated' \subseteq Names
      /\ steady' \subseteq steady
  BY <1>0, <1>3, ObserveShape
<1>6. FanoutTypeOK'
  BY <1>0, <1>3, <1>4, <1>5 DEF FanoutTypeOK
<1>7. OneList' /\ RunShape'
  BY <1>0, <1>1, <1>2, <1>4 DEF OneList, RunShape, InHand
<1>8. NobodyIsLost'
  BY <1>0, <1>1, <1>3, <1>4, <1>5 DEF NobodyIsLost, InHand
<1> QED
  BY <1>6, <1>7, <1>8 DEF FanoutInv

\* What the provisioner does disturbs one database, which is not steady then.
LEMMA ProvisionKeepsInv ==
  ASSUME FanoutInv, NEW name \in Names, Provision(name)
  PROVE  FanoutInv'
<1>0. FanoutTypeOK /\ RunShape /\ OneList /\ NobodyIsLost
  BY DEF FanoutInv
<1>1. PICK state \in AnyDatabase : state = db[name]
  BY <1>0 DEF FanoutTypeOK
<1>2. PICK new \in AnyDatabase : db' = [db EXCEPT ![name] = new]
  <2>1. /\ [Missing EXCEPT !.exists = TRUE] \in AnyDatabase /\ Missing \in AnyDatabase
        /\ [state EXCEPT !.connect = ~@] \in AnyDatabase
        /\ [state EXCEPT !.schema = 0] \in AnyDatabase
        /\ [state EXCEPT !.schema = NoSchema] \in AnyDatabase
    <3>1. 0 \in SchemaVersions /\ NoSchema \in SchemaVersions
      BY FanoutAssumption DEF SchemaVersions
    <3>2. Missing \in AnyDatabase /\ [Missing EXCEPT !.exists = TRUE] \in AnyDatabase
      BY <3>1 DEF AnyDatabase, Missing
    <3>3. [state EXCEPT !.connect = ~@] \in AnyDatabase
      BY DEF AnyDatabase
    <3>4. [state EXCEPT !.schema = 0] \in AnyDatabase /\ [state EXCEPT !.schema = NoSchema] \in AnyDatabase
      BY <3>1 DEF AnyDatabase
    <3> QED
      BY <3>2, <3>3, <3>4
  <2>2. state.schema \in 0 .. Target - 1 => [state EXCEPT !.schema = @ + 1] \in AnyDatabase
    BY FanoutAssumption DEF AnyDatabase, SchemaVersions
  <2> QED
    BY <1>1, <2>1, <2>2 DEF Provision
<1>3. fanout' = fanout /\ Observe({name})
  BY DEF Provision
<1>4. /\ db' \in [Names -> AnyDatabase]
      /\ \A n \in Names \ {name} : db'[n] = db[n]
  BY <1>0, <1>2 DEF FanoutTypeOK
<1>5. /\ steady' \subseteq {n \in Names : Active(db'[n])} /\ activated' \subseteq Names
      /\ steady' \subseteq steady \ {name} /\ activated \subseteq activated'
  BY <1>0, <1>3, ObserveShape
<1>6. FanoutTypeOK'
  BY <1>0, <1>3, <1>4, <1>5 DEF FanoutTypeOK
<1>7. OneList'
  BY <1>0, <1>3 DEF OneList, InHand
<1>8. RunShape'
  <2>1. \A n \in steady' : n \in steady /\ n \in Names /\ db'[n] = db[n]
    BY <1>4, <1>5
  <2> QED
    BY <1>0, <1>3, <1>5, <2>1 DEF RunShape
<1>9. NobodyIsLost'
  <2>1. \A n \in steady' : n \in steady /\ db'[n] = db[n]
    BY <1>4, <1>5
  <2> QED
    BY <1>0, <1>3, <2>1 DEF NobodyIsLost, InHand
<1> QED
  BY <1>6, <1>7, <1>8, <1>9 DEF FanoutInv

LEMMA FanoutInvNext == FanoutInv /\ [FanoutNext]_fanoutVars => FanoutInv'
<1> SUFFICES ASSUME FanoutInv, [FanoutNext]_fanoutVars PROVE FanoutInv'
  OBVIOUS
<1>1. CASE UNCHANGED fanoutVars
  BY <1>1 DEF fanoutVars, FanoutInv, FanoutTypeOK, OneList, NobodyIsLost, RunShape, InHand, Active
<1>2. ASSUME NEW mode \in {"migrate", "discover"}, Start(mode) PROVE FanoutInv'
  BY <1>2, StartKeepsInv
<1>3. ASSUME NEW name \in Names, Provision(name) PROVE FanoutInv'
  BY <1>3, ProvisionKeepsInv
<1> QED
  BY <1>1, <1>2, <1>3, ListKeepsInv, TakeKeepsInv, CheckKeepsInv, StepFailsKeepsInv, MigrateKeepsInv,
     UpKeepsInv, FinishKeepsInv DEF FanoutNext

\* A deployment hook creates no schema where the module has not been active since
\* its loop came to that database (discover.go:165-170).
THEOREM HookNeverActivates == FanoutSpec => NeverActivates
<1> DEFINE Step == \A name \in Names :
             fanout # fanout' /\ db[name].schema = NoSchema /\ db'[name].schema # NoSchema
               => name \in activated
<1>1. FanoutInv /\ [FanoutNext]_fanoutVars => [Step]_fanoutVars
  <2> SUFFICES ASSUME FanoutInv, FanoutNext, NEW name \in Names, fanout # fanout',
                      db[name].schema = NoSchema, db'[name].schema # NoSchema
               PROVE  name \in activated
    OBVIOUS
  <2>1. Migrate \/ Up
    BY DEF FanoutNext, Start, List, ListFails, Take, Check, StepFails, Finish, Provision
  <2>2. Resolve(fanout.slug) \in activated
    BY <2>1, MigrateKeepsInv, UpKeepsInv
  <2>3. name = Resolve(fanout.slug)
    BY <2>1 DEF Migrate, Up, FanoutInv, FanoutTypeOK
  <2> QED
    BY <2>2, <2>3
<1> QED
  BY <1>1, FanoutInvInit, FanoutInvNext, PTL DEF FanoutSpec, NeverActivates

\* Whatever fails, vanishes or is activated under a run, it tells of every
\* tenant, in one list only, and of nothing that is none (discover.go:99-130,
\* 190-197, 302-318).
THEOREM EveryTenantTold == FanoutSpec => []EveryTenantIsTold
<1>1. FanoutInv => FailureHidesNothing
  <2> SUFFICES ASSUME FanoutInv, Ended, NEW name \in steady, Like(name), ValidSlug(Trimmed(name))
               PROVE  /\ Trimmed(name) \in fanout.migrated
                      /\ fanout.mode = "migrate" => db[name].schema = Target
    BY DEF FailureHidesNothing
  <2>1. fanout.pc = "idle" /\ fanout.result \in {"done", "failed"} /\ fanout.todo = {}
    BY DEF FanoutInv, FanoutTypeOK, AnyRun, RunShape, Ended
  <2>2. name \in TenantNames
    BY DEF FanoutInv, FanoutTypeOK, TenantNames
  <2> QED
    BY <2>1, <2>2 DEF FanoutInv, NobodyIsLost, InHand
<1>2. FanoutInv => ReportsOnTenants
  <2> SUFFICES ASSUME FanoutInv PROVE ReportsOnTenants
    OBVIOUS
  <2> DEFINE lists == <<fanout.todo, fanout.migrated, fanout.skipped, fanout.failures>>
  <2>1. DOMAIN lists = 1 .. 4
    OBVIOUS
  <2>2. /\ lists[1] = fanout.todo /\ lists[2] = fanout.migrated
        /\ lists[3] = fanout.skipped /\ lists[4] = fanout.failures
    OBVIOUS
  <2>3. OneList /\ fanout \in AnyRun
    BY DEF FanoutInv, FanoutTypeOK
  <2> HIDE DEF lists
  <2>4. \A i, j \in 1 .. 4 : i # j => lists[i] \cap lists[j] = {}
    BY <2>2, <2>3 DEF OneList
  <2>5. \A i \in 1 .. 4 : lists[i] \subseteq TenantSlugs
    BY <2>2, <2>3 DEF AnyRun
  <2>6. \A slug \in TenantSlugs : Resolve(slug) \in Names
    BY TenantShape
  <2>7. fanout.result = "done" /\ fanout.mode = "migrate" => fanout.failures = {}
    BY DEF FanoutInv, RunShape
  <2> QED
    BY <2>1, <2>4, <2>5, <2>6, <2>7 DEF ReportsOnTenants, lists
<1>3. FanoutInv => EveryTenantIsTold
  BY <1>1, <1>2 DEF EveryTenantIsTold
<1> QED
  BY <1>3, FanoutInvInit, FanoutInvNext, PTL DEF FanoutSpec
=============================================================================
