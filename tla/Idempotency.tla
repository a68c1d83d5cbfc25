---------------------------- MODULE Idempotency ----------------------------
(***************************************************************************)
(* The idempotency interceptor (idempotency/idempotency.go), for the write *)
(* calls that carry one key of one tenant.  A claim is up to three         *)
(* statements, the handler runs outside of all of them, and its outcome is *)
(* recorded in a fourth; calls interleave between any two of these, any    *)
(* statement may fail with or without having been applied, and a process   *)
(* may die anywhere.                                                       *)
(***************************************************************************)
EXTENDS Naturals

CONSTANTS
  Call,     \* write calls with this key
  Request,  \* what requestHash tells apart: method, principal, body
  None,     \* no call, no request
  Slow,     \* handlers may outlive StaleAfter
  MaxTurns  \* bound: times the key outlives its TTL

ASSUME IdempotencyAssumption ==
  None \notin Call \cup Request /\ Slow \in BOOLEAN /\ MaxTurns \in Nat

VARIABLES
  row,       \* the key's row in idempotency_keys
  step,      \* where each call is inside run
  request,   \* what each call asks
  answer,    \* the code each call returned, "response" for a response
  replayed,  \* the call that response was produced by
  effects,   \* calls whose handler took effect
  recorded,  \* calls whose response the row got to hold
  turn,      \* how often the key has outlived its TTL
  ranIn      \* the turn each call's handler took effect in

vars == <<row, step, request, answer, replayed, effects, recorded, turn, ranIn>>

\* created_at of the row, by what the statements compare it with: "fresh", past
\* StaleAfter, past TTL.
NoRow == [status |-> "none", hash |-> None, resp |-> None, age |-> "fresh"]
Claimed(c) == [status |-> "in_progress", hash |-> request[c], resp |-> None, age |-> "fresh"]

Exists == row.status # "none"

\* A takeover that looks at the age alone.
OldEnough == row.age # "fresh"

\* The takeover statement's condition.
Forsaken == row.age = "expired" \/ (row.status = "in_progress" /\ row.age = "stale")

\* The calls that hold a claim: their handler runs or its outcome is on its way.
Owners == {c \in Call : step[c] \in {"run", "record", "release"}}

Init ==
  /\ row = NoRow
  /\ step = [c \in Call |-> "insert"]
  /\ request \in [Call -> Request]
  /\ answer = [c \in Call |-> "-"]
  /\ replayed = [c \in Call |-> None]
  /\ effects = {}
  /\ recorded = {}
  /\ turn = 0
  /\ ranIn = [c \in Call |-> 0]

Goto(c, s) == step' = [step EXCEPT ![c] = s]

Returns(c, code) ==
  /\ Goto(c, "done")
  /\ answer' = [answer EXCEPT ![c] = code]
  /\ UNCHANGED replayed

ReturnsResponse(c, d) ==
  /\ Goto(c, "done")
  /\ answer' = [answer EXCEPT ![c] = "response"]
  /\ replayed' = [replayed EXCEPT ![c] = d]

---------------------------------------------------------------------------
(* claim.                                                                  *)

\* INSERT ... ON CONFLICT DO NOTHING.
Insert(c) ==
  /\ step[c] = "insert"
  /\ IF Exists
     THEN Goto(c, "takeover") /\ UNCHANGED row
     ELSE Goto(c, "run") /\ row' = Claimed(c)
  /\ UNCHANGED <<request, answer, replayed, effects, recorded, turn, ranIn>>

\* UPDATE ... WHERE created_at is too old.
Takeover(c) ==
  /\ step[c] = "takeover"
  /\ IF Exists /\ Forsaken
     THEN Goto(c, "run") /\ row' = Claimed(c)
     ELSE Goto(c, "select") /\ UNCHANGED row
  /\ UNCHANGED <<request, answer, replayed, effects, recorded, turn, ranIn>>

\* SELECT, and replay of what it finds; a row that is gone was released.
Select(c) ==
  /\ step[c] = "select"
  /\ \/ Exists /\ row.hash # request[c] /\ Returns(c, "AlreadyExists")
     \/ Exists /\ row.hash = request[c] /\ row.status = "in_progress" /\ Returns(c, "Aborted")
     \/ Exists /\ row.hash = request[c] /\ row.status = "completed"
          /\ ReturnsResponse(c, row.resp)
     \/ ~ Exists /\ Returns(c, "Aborted")
  /\ UNCHANGED <<row, request, effects, recorded, turn, ranIn>>

\* The key store cannot be reached: the statement may have been applied.
Unreachable(c) ==
  /\ \/ step[c] \in {"insert", "takeover", "select"} /\ UNCHANGED row
     \/ step[c] = "insert" /\ ~ Exists /\ row' = Claimed(c)
     \/ step[c] = "takeover" /\ Exists /\ Forsaken /\ row' = Claimed(c)
  /\ Returns(c, "Unavailable")
  /\ UNCHANGED <<request, effects, recorded, turn, ranIn>>

---------------------------------------------------------------------------
(* The handler and what run does with its outcome.                         *)

TakesEffect(c) ==
  /\ effects' = effects \cup {c}
  /\ ranIn' = [ranIn EXCEPT ![c] = turn]

NoEffect == UNCHANGED <<effects, ranIn>>

HandlerReturns(c) ==
  /\ step[c] = "run"
  /\ TakesEffect(c)
  /\ Goto(c, "record")
  /\ UNCHANGED <<row, request, answer, replayed, recorded, turn>>

\* An error whose transaction rolled back, or whose commit went through unseen.
HandlerFails(c) ==
  /\ step[c] = "run"
  /\ NoEffect \/ TakesEffect(c)
  /\ Goto(c, "release")
  /\ UNCHANGED <<row, request, answer, replayed, recorded, turn>>

\* UPDATE ... SET status = 'completed', response = ..., whoever holds the key.
Stored(c) ==
  IF Exists
  THEN /\ row' = [row EXCEPT !.status = "completed", !.resp = c]
       /\ recorded' = recorded \cup {c}
  ELSE UNCHANGED <<row, recorded>>

\* The caller gets its response whether or not recording it worked, or the
\* response could be marshalled at all.
Record(c) ==
  /\ step[c] = "record"
  /\ Stored(c) \/ UNCHANGED <<row, recorded>>
  /\ ReturnsResponse(c, c)
  /\ UNCHANGED <<request, effects, turn, ranIn>>

\* DELETE ... WHERE status = 'in_progress', or it fails.
Release(c) ==
  /\ step[c] = "release"
  /\ \/ row.status = "in_progress" /\ row' = NoRow
     \/ UNCHANGED row
  /\ Returns(c, "error")
  /\ UNCHANGED <<request, effects, recorded, turn, ranIn>>

\* The process dies: in the handler, with or without its effect.
Crash(c) ==
  /\ step[c] \in {"insert", "takeover", "select", "run", "record", "release"}
  /\ NoEffect \/ (step[c] = "run" /\ TakesEffect(c))
  /\ Goto(c, "dead")
  /\ UNCHANGED <<row, request, answer, replayed, recorded, turn>>

---------------------------------------------------------------------------
(* Time.                                                                   *)

\* StaleAfter "is far above any RPC deadline": unless Slow, a claim only goes
\* stale once the call that took it is over.
GoStale ==
  /\ Exists /\ row.age = "fresh"
  /\ Slow \/ Owners = {}
  /\ row' = [row EXCEPT !.age = "stale"]
  /\ UNCHANGED <<step, request, answer, replayed, effects, recorded, turn, ranIn>>

Expire ==
  /\ row.age = "stale"
  /\ Slow \/ Owners = {}
  /\ turn < MaxTurns
  /\ row' = [row EXCEPT !.age = "expired"]
  /\ turn' = turn + 1
  /\ UNCHANGED <<step, request, answer, replayed, effects, recorded, ranIn>>

\* Interceptor.Cleanup.
Cleanup ==
  /\ row.age = "expired"
  /\ row' = NoRow
  /\ UNCHANGED <<step, request, answer, replayed, effects, recorded, turn, ranIn>>

---------------------------------------------------------------------------
Run(c) ==
  \/ Insert(c)
  \/ Takeover(c)
  \/ Select(c)
  \/ Unreachable(c)
  \/ HandlerReturns(c)
  \/ HandlerFails(c)
  \/ Record(c)
  \/ Release(c)
  \/ Crash(c)

Next == (\E c \in Call : Run(c)) \/ GoStale \/ Expire \/ Cleanup

Spec == Init /\ [][Next]_vars

---------------------------------------------------------------------------
(* Properties.                                                             *)

Row == [status : {"none", "in_progress", "completed"}, hash : Request \cup {None},
        resp : Call \cup {None}, age : {"fresh", "stale", "expired"}]

Code == {"-", "response", "AlreadyExists", "Aborted", "Unavailable", "error"}

TypeOK ==
  /\ row \in Row
  /\ row.status = "none" => row = NoRow
  /\ step \in [Call -> {"insert", "takeover", "select", "run", "record", "release",
                        "done", "dead"}]
  /\ request \in [Call -> Request]
  /\ answer \in [Call -> Code]
  /\ replayed \in [Call -> Call \cup {None}]
  /\ recorded \subseteq effects /\ effects \subseteq Call
  /\ turn \in 0 .. MaxTurns
  /\ ranIn \in [Call -> 0 .. MaxTurns]

\* "In the same statement that checks it, so two retries cannot both take it"
\* (Interceptor.claim): the key has one owner at a time.
OneOwner == \A c, d \in Owners : c = d

\* "The handler runs once and its response is recorded" (Interceptor.Unary):
\* once a response is recorded no call with the key runs its handler again
\* before the TTL is over, whatever failed in between.
NoRerun ==
  \A c \in Call, d \in recorded : step[c] = "run" => ranIn[d] # turn

\* "A key another principal of the tenant reuses must not replay the first
\* one's response to it" (requestHash): the response a call gets was produced
\* for the request it made.
ReplayIsOwn ==
  \A c \in Call : answer[c] = "response" => request[replayed[c]] = request[c]

\* A completed row holds the response to the request it was claimed with.
RowIsOwn ==
  row.status = "completed" => row.resp \in recorded /\ request[row.resp] = row.hash

\* The owner of a claim that is not forsaken is the one the row was claimed by.
ClaimIsOwned ==
  \A c \in Owners :
    row.status = "in_progress" /\ row.hash = request[c] /\ row.age = "fresh"

\* Only what took effect gets recorded, by a call that returns with it.
OutcomeIsReal ==
  /\ \A c \in Call : step[c] = "record" => c \in effects
  /\ \A d \in recorded : step[d] = "done"

\* A recorded response of the current turn is still in the row.
RecordedIsKept ==
  /\ \A c \in Call : ranIn[c] <= turn
  /\ \A d \in recorded :
       ranIn[d] = turn => row.status = "completed" /\ row.age # "expired"

\* The inductive invariant behind the three, when handlers keep to StaleAfter.
ClaimInv ==
  /\ TypeOK
  /\ OneOwner
  /\ ClaimIsOwned
  /\ OutcomeIsReal
  /\ RowIsOwn
  /\ RecordedIsKept
  /\ ReplayIsOwn
============================================================================
