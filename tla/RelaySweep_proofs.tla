-------------------------- MODULE RelaySweep_proofs --------------------------
(***************************************************************************)
(* The cadence of the sweeps and the promptness of a commit's wake-up, for *)
(* any tenants, durations, batch size and discovery setting.               *)
(***************************************************************************)
EXTENDS RelaySweep, TLAPS

(* The cap and the step of the backoff.                                    *)
LEMMA NextWaitBounds ==
  ASSUME NEW had \in Nat, had # 0 => Base <= had, busy \in BOOLEAN
  PROVE  /\ NextWait(had) \in Nat
         /\ Base <= NextWait(had)
         /\ NextWait(had) <= Base \/ NextWait(had) <= IdleMax
         /\ busy => NextWait(had) = Base
BY SweepAssumption DEF NextWait, Least

(* Nothing has happened; every tenant is due.                              *)
LEMMA SweepInvInit == Init => SweepInv /\ FailingIsActive
<1> SUFFICES ASSUME Init PROVE SweepInv /\ FailingIsActive OBVIOUS
<1> USE SweepAssumption DEF Init
<1>1. TypeOK
  <2>1. pending \in [Tenant -> 0 .. MaxPending] OBVIOUS
  <2>2. FlagsOK BY DEF FlagsOK
  <2> QED BY <2>1, <2>2 DEF TypeOK
<1>2. LoopShape BY DEF LoopShape
<1>3. CadenceBounds BY DEF CadenceBounds
<1>4. Covered BY DEF Covered
<1> QED BY <1>1, <1>2, <1>3, <1>4 DEF SweepInv, LoopInv, FailingIsActive

(* The flags.                                                              *)
LEMMA FlagsStep == ASSUME LoopInv, [Next]_vars PROVE FlagsOK'
<1> USE DEF LoopInv, TypeOK, FlagsOK
<1>1. CASE Environment
  <2>1. UNCHANGED <<streamReady, byWake, busy, ok, soon>>
    BY <1>1 DEF Environment, Commit, Flag, Signal, ClosePool, Activate, Deactivate, Elapse,
                loopVars, discVars
  <2>2. wakeCh' \in BOOLEAN
    BY <1>1, Zenon DEF Environment, Commit, Flag, Signal, ClosePool, Activate, Deactivate, Elapse,
                wakeVars
  <2>3. ticker' \in BOOLEAN
    BY <1>1, Zenon DEF Environment, Commit, Flag, Signal, ClosePool, Activate, Deactivate, Elapse
  <2> QED BY <2>1, <2>2, <2>3
<1>2. CASE TakeTick BY <1>2 DEF TakeTick, wakeVars, discVars
<1>3. CASE TakeWake BY <1>3 DEF TakeWake, discVars
<1>4. CASE NoStream \/ SweepEnds BY <1>4 DEF NoStream, SweepEnds, wakeVars, discVars
<1>5. CASE TakeWoken BY <1>5 DEF TakeWoken, discVars
<1>6. CASE List
  <2>1. ok' \in BOOLEAN /\ soon' \in BOOLEAN
    BY <1>6, Zenon DEF List, Refresh, Adopt, discVars
  <2>2. UNCHANGED <<wakeCh, ticker, streamReady, byWake, busy>> BY <1>6 DEF List, wakeVars
  <2> QED BY <2>1, <2>2
<1>7. ASSUME NEW t \in Tenant, FetchOK(t) PROVE FlagsOK'
  BY <1>7 DEF FetchOK, wakeVars
<1>8. ASSUME NEW t \in Tenant, FetchFailed(t) PROVE FlagsOK'
  <2>1. soon' \in BOOLEAN BY <1>8, Zenon DEF FetchFailed
  <2>2. UNCHANGED <<wakeCh, ticker, streamReady, byWake, ok>> /\ busy' = TRUE
    BY <1>8 DEF FetchFailed, wakeVars
  <2> QED BY <2>1, <2>2
<1>9. ASSUME NEW t \in Tenant, DrainEnds(t) PROVE FlagsOK'
  BY <1>9 DEF DrainEnds, Done, wakeVars, discVars
<1>10. CASE UNCHANGED vars BY <1>10 DEF vars, wakeVars, loopVars, discVars
<1> QED BY <1>1, <1>2, <1>3, <1>4, <1>5, <1>6, <1>7, <1>8, <1>9, <1>10 DEF Next, Run

(* The types.                                                              *)
LEMMA TypeStep == ASSUME LoopInv, [Next]_vars PROVE TypeOK'
<1> USE SweepAssumption, FlagsStep DEF LoopInv, TypeOK
<1>1. ASSUME NEW t \in Tenant, NEW kind \in Commits, Commit(t, kind) PROVE TypeOK'
  BY <1>1 DEF Commit, schedVars, loopVars, discVars
<1>2. ASSUME NEW t \in Tenant, Flag(t) PROVE TypeOK'
  BY <1>2 DEF Flag, tenantVars, schedVars, loopVars, discVars
<1>3. ASSUME NEW t \in Tenant, Signal(t) PROVE TypeOK'
  BY <1>3 DEF Signal, tenantVars, schedVars, loopVars, discVars
<1>4. ASSUME NEW t \in Tenant, ClosePool(t) \/ Activate(t) \/ Deactivate(t) PROVE TypeOK'
  BY <1>4 DEF ClosePool, Activate, Deactivate, wakeVars, schedVars, loopVars, discVars
<1>5. CASE Elapse BY <1>5 DEF Elapse, Least, tenantVars, wakeVars, loopVars
<1>6. CASE TakeTick \/ TakeWake \/ NoStream \/ SweepEnds
  BY <1>6 DEF TakeTick, TakeWake, NoStream, SweepEnds, tenantVars, wakeVars, schedVars, discVars
<1>7. CASE TakeWoken
  <2>1. CASE byWake BY <1>7, <2>1 DEF TakeWoken, LoopShape, tenantVars, schedVars, discVars
  <2>2. CASE ~ byWake BY <1>7, <2>2 DEF TakeWoken, tenantVars, schedVars, discVars
  <2> QED BY <2>1, <2>2
<1>8. CASE List
  <2>1. /\ active' \subseteq Tenant /\ suspect' \subseteq Tenant /\ failing' \subseteq Tenant
        /\ since' \in 0 .. DiscoverEvery
    BY <1>8 DEF List, Refresh, Adopt, discVars
  <2>2. interval' \in [Tenant -> Nat] /\ left' \in [Tenant -> Nat] BY <1>8 DEF List, Prune
  <2>3. todo' \subseteq Tenant /\ flagged' = {} /\ cur' = cur
    BY <1>8, <2>1 DEF List, Due, Swept, tenantVars
  <2>4. cur = {} BY <1>8 DEF List, LoopShape
  <2> QED BY <1>8, <2>1, <2>2, <2>3, <2>4 DEF List, tenantVars, wakeVars
<1>9. ASSUME NEW t \in Tenant, FetchOK(t) PROVE TypeOK'
  BY <1>9 DEF FetchOK, Least, wakeVars, schedVars
<1>10. ASSUME NEW t \in Tenant, FetchFailed(t) PROVE TypeOK'
  BY <1>10 DEF FetchFailed, wakeVars, schedVars
<1>11. ASSUME NEW t \in Tenant, DrainEnds(t) PROVE TypeOK'
  <2>1. PICK n \in 0 .. Least(rows, pending[t]) : Done(t, n) BY <1>11 DEF DrainEnds
  <2>2. pending[t] - n \in 0 .. MaxPending BY DEF Least
  <2>3. NextWait(interval[t]) \in Nat BY NextWaitBounds DEF CadenceBounds, FlagsOK
  <2> QED BY <2>1, <2>2, <2>3 DEF Done, wakeVars, discVars
<1>12. CASE UNCHANGED vars
  BY <1>12 DEF vars, tenantVars, wakeVars, schedVars, loopVars, discVars
<1> QED BY <1>1, <1>2, <1>3, <1>4, <1>5, <1>6, <1>7, <1>8, <1>9, <1>10, <1>11, <1>12
        DEF Next, Environment, Run

(* The loop's own variables.                                               *)
LEMMA ShapeStep == ASSUME LoopInv, [Next]_vars PROVE LoopShape'
<1> USE SweepAssumption DEF LoopInv, TypeOK, LoopShape
<1>1. CASE Environment
  <2>1. UNCHANGED <<loopVars, streamReady>>
    BY <1>1 DEF Environment, Commit, Flag, Signal, ClosePool, Activate, Deactivate, Elapse
  <2> QED BY <2>1 DEF loopVars
<1>2. CASE TakeTick \/ TakeWake \/ NoStream \/ SweepEnds
  BY <1>2 DEF TakeTick, TakeWake, NoStream, SweepEnds
<1>3. CASE TakeWoken BY <1>3 DEF TakeWoken
<1>4. CASE List BY <1>4 DEF List
<1>5. ASSUME NEW t \in Tenant, FetchOK(t) \/ FetchFailed(t) PROVE LoopShape'
  BY <1>5 DEF FetchOK, FetchFailed
<1>6. ASSUME NEW t \in Tenant, DrainEnds(t) PROVE LoopShape'
  BY <1>6 DEF DrainEnds, Done
<1>7. CASE UNCHANGED vars BY <1>7 DEF vars, loopVars
<1> QED BY <1>1, <1>2, <1>3, <1>4, <1>5, <1>6, <1>7 DEF Next, Run

(* The cadence.                                                            *)
LEMMA CadenceStep == ASSUME LoopInv, [Next]_vars PROVE CadenceBounds'
<1> USE SweepAssumption DEF LoopInv, TypeOK, CadenceBounds
<1>1. CASE Elapse BY <1>1 DEF Elapse
<1>2. CASE List BY <1>2 DEF List, Prune
<1>3. ASSUME NEW t \in Tenant, DrainEnds(t) PROVE CadenceBounds'
  <2>1. /\ interval' = [interval EXCEPT ![t] = NextWait(interval[t])]
        /\ left' = [left EXCEPT ![t] = NextWait(interval[t])]
    BY <1>3 DEF DrainEnds, Done
  <2>2. /\ NextWait(interval[t]) \in Nat
        /\ Base <= NextWait(interval[t])
        /\ NextWait(interval[t]) <= Base \/ NextWait(interval[t]) <= IdleMax
    BY NextWaitBounds DEF FlagsOK
  <2> QED BY <2>1, <2>2
<1>4. CASE UNCHANGED schedVars BY <1>4 DEF schedVars
<1>5. \/ Elapse \/ List \/ UNCHANGED schedVars \/ \E t \in Tenant : DrainEnds(t)
  BY DEF Next, Environment, Run, vars, Commit, Flag, Signal, ClosePool, Activate, Deactivate,
         TakeTick, TakeWake, NoStream, TakeWoken, SweepEnds, FetchOK, FetchFailed
<1> QED BY <1>1, <1>2, <1>3, <1>4, <1>5

(* Every commit that reached the hook is covered, step by step.            *)
LEMMA CoveredStep ==
  ASSUME SweepInv, [Next]_vars
  PROVE  Covered'
<1> USE SweepAssumption DEF SweepInv, LoopInv, TypeOK, LoopShape, Covered, Ahead, WillBeTaken
<1>1. ASSUME NEW t \in Tenant, NEW kind \in Commits, Commit(t, kind) PROVE Covered'
  BY <1>1 DEF Commit, schedVars, loopVars
<1>2. ASSUME NEW t \in Tenant, Flag(t) PROVE Covered'
  BY <1>2 DEF Flag, tenantVars, schedVars, loopVars
<1>3. ASSUME NEW t \in Tenant, Signal(t) PROVE Covered'
  BY <1>3 DEF Signal, tenantVars, schedVars, loopVars
<1>4. ASSUME NEW t \in Tenant, ClosePool(t) \/ Activate(t) \/ Deactivate(t) PROVE Covered'
  BY <1>4 DEF ClosePool, Activate, Deactivate, wakeVars, schedVars, loopVars
<1>5. CASE Elapse BY <1>5 DEF Elapse, tenantVars, wakeVars, loopVars
<1>6. CASE TakeTick \/ TakeWake
  BY <1>6 DEF TakeTick, TakeWake, tenantVars, wakeVars, schedVars
<1>7. CASE NoStream \/ SweepEnds
  BY <1>7 DEF NoStream, SweepEnds, tenantVars, wakeVars, schedVars
<1>8. CASE TakeWoken
  <2>1. CASE byWake BY <1>8, <2>1 DEF TakeWoken, tenantVars, schedVars
  <2>2. CASE ~ byWake BY <1>8, <2>2 DEF TakeWoken, tenantVars, schedVars
  <2> QED BY <2>1, <2>2
<1>9. CASE List BY <1>9 DEF List, Prune, Due, tenantVars, wakeVars
<1>10. ASSUME NEW t \in Tenant, FetchOK(t) PROVE Covered'
  BY <1>10 DEF FetchOK, wakeVars, schedVars
<1>11. ASSUME NEW t \in Tenant, FetchFailed(t) PROVE Covered'
  BY <1>11 DEF FetchFailed, wakeVars, schedVars
<1>12. ASSUME NEW t \in Tenant, DrainEnds(t) PROVE Covered'
  <2>1. PICK n \in 0 .. Least(rows, pending[t]) : Done(t, n) BY <1>12 DEF DrainEnds
  <2>2. /\ NextWait(interval[t]) \in Nat
        /\ busy => NextWait(interval[t]) = Base
    BY NextWaitBounds DEF CadenceBounds, FlagsOK
  <2> QED BY <2>1, <2>2 DEF Done, wakeVars
<1>13. CASE UNCHANGED vars
  BY <1>13 DEF vars, tenantVars, wakeVars, schedVars, loopVars
<1> QED BY <1>1, <1>2, <1>3, <1>4, <1>5, <1>6, <1>7, <1>8, <1>9, <1>10, <1>11, <1>12, <1>13
        DEF Next, Environment, Run

(* A failing tenant is one the last refresh found.                         *)
LEMMA FailingStep == ASSUME FailingIsActive, [Next]_vars PROVE FailingIsActive'
<1> USE DEF FailingIsActive
<1>1. CASE List BY <1>1 DEF List, Refresh, Adopt, discVars
<1>2. ASSUME NEW t \in Tenant, FetchOK(t) \/ FetchFailed(t) PROVE FailingIsActive'
  BY <1>2 DEF FetchOK, FetchFailed
<1>3. \/ List \/ (\E t \in Tenant : FetchOK(t) \/ FetchFailed(t))
      \/ UNCHANGED <<active, failing>>
  BY DEF Next, Environment, Run, vars, discVars, Commit, Flag, Signal, ClosePool, Activate,
         Deactivate, Elapse, TakeTick, TakeWake, NoStream, TakeWoken, SweepEnds, DrainEnds, Done
<1> QED BY <1>1, <1>2, <1>3

(* The loop's invariant, whatever commits announce themselves.             *)
THEOREM LoopInvHolds == Spec => []LoopInv
<1>1. Init => LoopInv BY SweepInvInit DEF SweepInv
<1>2. LoopInv /\ [Next]_vars => LoopInv'
  <2> SUFFICES ASSUME LoopInv, [Next]_vars PROVE LoopInv' OBVIOUS
  <2> QED BY TypeStep, ShapeStep, CadenceStep DEF LoopInv
<1> QED BY <1>1, <1>2, PTL DEF Spec

(* The backoff (sweepSchedule.done) stays between Interval and IdleInterval *)
(* and no tenant's next sweep is further away than its interval.            *)
THEOREM CadenceBoundsHolds == Spec => []CadenceBounds
<1>1. LoopInv => CadenceBounds BY DEF LoopInv
<1> QED BY <1>1, LoopInvHolds, PTL

(* adopt keeps no failure of a tenant it drops.                             *)
THEOREM FailingIsActiveHolds == Spec => []FailingIsActive
<1>1. Init => FailingIsActive BY SweepInvInit
<1>2. FailingIsActive /\ [Next]_vars => FailingIsActive' BY FailingStep
<1> QED BY <1>1, <1>2, PTL DEF Spec

(* What keeps an announced event from waiting, and the rest of the loop.    *)
THEOREM SweepInvHolds == Spec => []SweepInv
<1>1. Init => SweepInv BY SweepInvInit
<1>2. SweepInv /\ [Next]_vars => SweepInv'
  <2> SUFFICES ASSUME SweepInv, [Next]_vars PROVE SweepInv' OBVIOUS
  <2> QED BY TypeStep, ShapeStep, CadenceStep, CoveredStep DEF SweepInv, LoopInv
<1> QED BY <1>1, <1>2, PTL DEF Spec

(* The flag and the signal of a commit (Relay.wake) are never lost on a     *)
(* tenant that is swept: with an announced event it does not wait out a     *)
(* backed-off interval, whoever else commits without a word.                *)
THEOREM AnnouncedIsPromptHolds == Spec => []AnnouncedIsPrompt
<1>1. SweepInv => AnnouncedIsPrompt
  BY SweepAssumption
     DEF SweepInv, LoopInv, TypeOK, LoopShape, Covered, AnnouncedIsPrompt, Prompt, Ahead
<1> QED BY <1>1, SweepInvHolds, PTL
=============================================================================
