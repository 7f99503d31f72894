------------------------------ MODULE Coroutine ------------------------------
(***************************************************************************)
(* coroutine::Scheduler and the primitives built on it: Mutex, Semaphore,  *)
(* Channel, Condition and Broadcast.  Routines share the loop's thread:    *)
(* only the current one runs, until it suspends itself, yields or ends.    *)
(*                                                                         *)
(* A behaviour has one object, of kind co.prim, and routines whose bodies  *)
(* make any calls in any order.  A routine ends only after unlock(), as    *)
(* Mutex::Locker makes it do.  What the loop's thread does outside the     *)
(* routines (create, resume, cancel, cleanup, release, post) it does while *)
(* schedule() is not running.  resume() by hand wakes only a routine that  *)
(* called wait() itself: in a primitive it would leave its token queued.   *)
(*                                                                         *)
(* A number stands for a token (id and position in the cabinet).  In one   *)
(* life of the cabinet no token is given out twice; clear(), at the end of *)
(* cleanup(), starts the ids anew while ready_routines and the object keep *)
(* the tokens they hold, so that those may name other routines.            *)
(***************************************************************************)
EXTENDS Integers, FiniteSets, SequencesExt

CONSTANTS Routines,     \* the routines that may be created; integers
          MaxCount,     \* bound: resources of a semaphore, values in a channel
          MaxTokens,    \* bound: length of the ready queue and of the object's queue
          MaxStale      \* bound: tokens still kept when cleanup() ends

VARIABLE co

Nobody == 0

\* a routine's token is never null
ASSUME RoutinesAssumption == Routines \subseteq Nat \ {Nobody}

NewScheduler(prim) ==
  [prim      |-> prim,
   st        |-> [r \in Routines |-> "new"],       \* then Routine::State, "dead" once deleted
   started   |-> {}, canceled |-> {},
   join      |-> [r \in Routines |-> Nobody],      \* join_token
   target    |-> [r \in Routines |-> Nobody],      \* whom r has called join() for
   at        |-> [r \in Routines |-> "start"],     \* the call r is in; "body" outside of calls
   curr      |-> Nobody,                           \* curr_routine
   ready     |-> <<>>,                             \* ready_routines
   batch     |-> <<>>,                             \* tmp of schedule()
   pending   |-> FALSE,                            \* schedule() is in the loop's queue
   cleaning  |-> FALSE,                            \* cleanup() is running
   tokens    |-> <<>>,                             \* the object's queue of waiting tokens
   hold      |-> Nobody,                           \* hold_token_, wait_token_
   count     |-> 0,                                \* count_, or the length of queue_
   conds     |-> {},                               \* conds_
   odd       |-> {},      \* history: routines cleanup() may wake on its own account, being created
                          \* while it ran, or their tokens having been left in a queue by it
   crashed   |-> FALSE]   \* cells_ moved under the foreach() of cleanup()

Prims == {"mutex", "semaphore", "channel", "all", "any", "broadcast"}
CoInit == co \in {NewScheduler(p) : p \in Prims}

Alive(S, r) == S.st[r] \notin {"new", "dead"}

-----------------------------------------------------------------------------
(* Scheduler                                                               *)

\* mutant: the routine is queued and nobody calls schedule()
makeRoutineReadyOnly(S, r) ==
  IF S.st[r] \in {"ready", "dead"} THEN S
  ELSE [S EXCEPT !.st[r] = "ready", !.ready = Append(@, r)]

makeRoutineReady(S, r) ==
  IF S.st[r] \in {"ready", "dead"} THEN S
  ELSE [S EXCEPT !.st[r] = "ready", !.ready = Append(@, r), !.pending = TRUE]

resume(S, r) == IF r # Nobody /\ Alive(S, r) THEN makeRoutineReady(S, r) ELSE S

\* the current routine suspends itself in call at, unless it is cancelled: then
\* the call goes on at once
wait(S, at) ==
  LET r == S.curr
  IN IF r \in S.canceled THEN [S EXCEPT !.at[r] = at]
     ELSE [S EXCEPT !.at[r] = at, !.st[r] = "suspend", !.curr = Nobody]

Idle == co.curr = Nobody /\ co.batch = <<>> /\ ~co.cleaning   \* the loop's thread is elsewhere
Body(r) == co.curr = r /\ co.at[r] = "body"
Anyone == Idle \/ \E r \in Routines : Body(r)

\* The token is any that was not given out since the last clear().
create(r, run_now) ==
  LET S == [co EXCEPT !.st[r] = "suspend", !.odd = IF co.cleaning THEN @ \cup {r} ELSE @]
  IN /\ Anyone
     /\ co.st[r] = "new"
     /\ co' = IF run_now THEN makeRoutineReady(S, r) ELSE S

\* A routine that cleanup() ends creates another and cells_ grows under the foreach():
\* undefined behaviour.  The build goes on as in create() when the vector need not move.
createUnderForeach ==
  /\ co.cleaning /\ \E r \in Routines : Body(r)
  /\ co' = [NewScheduler(co.prim) EXCEPT !.crashed = TRUE]

resumeByHand(r) ==
  /\ Anyone /\ Alive(co, r) /\ r # co.curr
  /\ co.at[r] \in {"start", "wait"}
  /\ co' = resume(co, r)

cancel(r) ==
  /\ Anyone /\ Alive(co, r)
  /\ co' = makeRoutineReady([co EXCEPT !.canceled = @ \cup {r}], r)

schedule ==
  /\ Idle /\ co.pending
  /\ co' = [co EXCEPT !.batch = co.ready, !.ready = <<>>, !.pending = FALSE]

switchTo(S, r) ==
  [S EXCEPT !.curr = r, !.st[r] = "running", !.started = @ \cup {r},
            !.at[r] = IF @ = "start" THEN "body" ELSE @]

dispatch ==
  LET r == Head(co.batch)
      S == [co EXCEPT !.batch = Tail(@)]
  IN /\ co.curr = Nobody /\ co.batch # <<>>
     /\ co' = IF Alive(co, r) THEN switchTo(S, r) ELSE S

\* cleanup() deletes what never started and makes the others end
cleanup ==
  /\ Idle
  /\ co' = [co EXCEPT !.cleaning = TRUE, !.canceled = {r \in Routines : Alive(co, r)} \cap co.started,
                      !.st = [r \in Routines |-> IF Alive(co, r) /\ r \notin co.started
                                                 THEN "dead" ELSE @[r]]]

\* clear(): the tokens that are still queued will be given out again
cleared(S) ==
  [NewScheduler(S.prim) EXCEPT
     !.ready = S.ready, !.pending = S.pending,
     !.tokens = S.tokens, !.hold = S.hold, !.count = S.count, !.conds = S.conds,
     !.odd = Routines \cap (ToSet(S.ready) \cup ToSet(S.tokens) \cup {S.hold})]

cleanupNext ==
  /\ co.cleaning /\ co.curr = Nobody
  /\ \/ \E r \in Routines : Alive(co, r) /\ co' = switchTo(co, r)
     \/ (\A r \in Routines : ~Alive(co, r)) /\ co' = cleared(co)

-----------------------------------------------------------------------------
(* What the current routine does                                           *)

Prim(p) == co.prim = p

yield(r) ==
  /\ Body(r) /\ r \notin co.canceled
  /\ co' = [makeRoutineReady(co, r) EXCEPT !.at[r] = "yield", !.curr = Nobody]

waitCall(r) == Body(r) /\ r \notin co.canceled /\ co' = wait(co, "wait")

\* refused for a routine that is gone, and when another one joins it already
join(r, t) ==
  /\ Body(r) /\ r \notin co.canceled /\ t # r
  /\ Alive(co, t) /\ co.join[t] = Nobody
  /\ co' = wait([co EXCEPT !.join[t] = r, !.target[r] = t], "join")

\* mutant: the end of a routine wakes whoever waits for the object, not its joiner
finishToken(r) ==
  /\ Body(r) /\ (Prim("mutex") => co.hold # r)
  /\ LET S == [co EXCEPT !.st[r] = "dead", !.curr = Nobody]
     IN co' = IF S.tokens # <<>> THEN resume(S, Head(S.tokens)) ELSE S

\* entry() returns: mainEntry(), then the rest of switchToRoutine()
finish(r) ==
  /\ Body(r) /\ (Prim("mutex") => co.hold # r)
  /\ co' = resume([co EXCEPT !.st[r] = "dead", !.curr = Nobody], co.join[r])

-----------------------------------------------------------------------------
(* The primitives                                                          *)

\* wakes the routine at the head of the object's queue
WakeFirst(S) ==
  IF S.tokens = <<>> THEN S ELSE resume([S EXCEPT !.tokens = Tail(@)], Head(S.tokens))

\* the current routine starts to wait in call at; its token is queued once
Queue(S, at) == wait([S EXCEPT !.tokens = Append(@, S.curr)], at)

\* the loop of lock(), after wait()
locked(S) ==
  CASE S.curr \in S.canceled -> [S EXCEPT !.at[S.curr] = "body"]
    [] S.curr \notin S.canceled /\ S.hold # Nobody -> wait(S, "lock")
    [] OTHER -> [S EXCEPT !.hold = S.curr, !.at[S.curr] = "body"]

lock(r) ==
  /\ Prim("mutex") /\ Body(r) /\ co.hold # r
  /\ co' = IF co.hold = Nobody THEN [co EXCEPT !.hold = r] ELSE Queue(co, "lock")

unlock(r) ==
  /\ Prim("mutex") /\ Body(r) /\ co.hold = r
  /\ co' = WakeFirst([co EXCEPT !.hold = Nobody])

\* the loop of acquire() and of operator >>, after wait()
acquired(S) ==
  CASE S.curr \in S.canceled -> [S EXCEPT !.at[S.curr] = "body"]
    [] S.curr \notin S.canceled /\ S.count = 0 -> wait(S, "acquire")
    [] OTHER -> [S EXCEPT !.count = @ - 1, !.at[S.curr] = "body"]

Take(r) ==
  /\ Body(r)
  /\ co' = IF co.count = 0 THEN Queue(co, "acquire") ELSE [co EXCEPT !.count = @ - 1]

Give ==
  /\ Anyone /\ co.count < MaxCount
  /\ co' = [(IF co.count = 0 THEN WakeFirst(co) ELSE co) EXCEPT !.count = @ + 1]

acquire(r) == Prim("semaphore") /\ Take(r)
release    == Prim("semaphore") /\ Give
receive(r) == Prim("channel") /\ Take(r)
send       == Prim("channel") /\ Give

Conds == {1, 2}

condAdd(v) ==
  /\ Prim("all") \/ Prim("any")
  /\ Anyone /\ v \notin co.conds
  /\ co' = [co EXCEPT !.conds = @ \cup {v}]

condWait(r) ==
  /\ Prim("all") \/ Prim("any")
  /\ Body(r) /\ co.hold = Nobody /\ co.conds # {}
  /\ co' = wait([co EXCEPT !.hold = r], "cond")

condPost(v) ==
  LET left == IF Prim("all") THEN co.conds \ {v} ELSE {}
  IN /\ Prim("all") \/ Prim("any")
     /\ Anyone /\ v \in co.conds
     /\ co' = IF left # {} THEN [co EXCEPT !.conds = left]
              ELSE [resume(co, co.hold) EXCEPT !.conds = {}, !.hold = Nobody]

broadcastWait(r) ==
  /\ Prim("broadcast") /\ Body(r)
  /\ co' = Queue(co, "broadcast")

\* each token of the queue in turn; a routine that is ready by then is not queued again,
\* so woken joins the ready queue in the order in which its tokens come first
broadcastPost ==
  LET woken == {r \in ToSet(co.tokens) : Alive(co, r) /\ co.st[r] # "ready"}
  IN /\ Prim("broadcast") /\ Anyone
     /\ \E n \in 0 .. Len(co.tokens) : \E w \in [1 .. n -> woken] :
          /\ ToSet(w) = woken
          /\ \A i, j \in 1 .. n : i < j =>
               \E k \in DOMAIN co.tokens :
                 co.tokens[k] = w[i] /\ \A l \in 1 .. k : co.tokens[l] # w[j]
          /\ co' = [co EXCEPT !.st = [r \in Routines |-> IF r \in woken THEN "ready" ELSE @[r]],
                              !.ready = @ \o w, !.pending = @ \/ woken # {}, !.tokens = <<>>]

\* the current routine is back from swapcontext(), or wait() returned at once
goOn(r) ==
  /\ co.curr = r /\ co.at[r] # "body"
  /\ co' = CASE co.at[r] = "lock"    -> locked(co)
             [] co.at[r] = "acquire" -> acquired(co)
             [] co.at[r] = "cond"    -> [co EXCEPT !.at[r] = "body", !.conds = {}]
             [] OTHER -> [co EXCEPT !.at[r] = "body"]

CoNext ==
  /\ ~co.crashed
  /\ \/ schedule \/ dispatch \/ cleanup \/ cleanupNext \/ createUnderForeach
     \/ release \/ send \/ broadcastPost
     \/ \E v \in Conds : condAdd(v) \/ condPost(v)
     \/ \E r \in Routines :
          \/ create(r, TRUE) \/ create(r, FALSE) \/ resumeByHand(r) \/ cancel(r)
          \/ yield(r) \/ waitCall(r) \/ finish(r) \/ goOn(r)
          \/ lock(r) \/ unlock(r) \/ acquire(r) \/ receive(r)
          \/ condWait(r) \/ broadcastWait(r)
          \/ \E t \in Routines : join(r, t)
  /\ Len(co'.ready) <= MaxTokens /\ Len(co'.tokens) <= MaxTokens
  /\ co.cleaning /\ ~co'.cleaning =>
       Len(co'.ready) + Len(co'.tokens) + (IF co'.hold = Nobody THEN 0 ELSE 1) <= MaxStale

CoSpec == CoInit /\ [][CoNext]_co

-----------------------------------------------------------------------------
(* Properties                                                              *)

\* A routine that is ready will run: it is in the batch of the schedule() that is running,
\* or in the queue and a schedule() is on its way, or cleanup() switches to it anyway.
ReadyRuns ==
  \A r \in Routines :
    co.st[r] = "ready" /\ r # co.curr =>
      \/ r \in ToSet(co.batch)
      \/ r \in ToSet(co.ready) /\ co.pending
      \/ co.cleaning

\* join() answers honestly: a routine in join() that nobody cancelled is suspended exactly
\* as long as the other one lives, so it neither returns early nor sleeps for ever.  The
\* exception is a routine that cleanup() may wake on its own account (odd).
JoinHonest ==
  \A r \in Routines :
    co.at[r] = "join" /\ Alive(co, r) /\ r \notin co.canceled \cup co.odd =>
      (co.st[r] = "suspend" <=> Alive(co, co.target[r]))

=============================================================================
