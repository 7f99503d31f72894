------------------------------ MODULE LoopWDog ------------------------------
(***************************************************************************)
(* eventx::LoopWDog: a thread that makes every registered loop run a small *)
(* function, and reports the loops that have not done so a second later.   *)
(* The table of loops is under _mutex_lock; the function itself, in the    *)
(* loop's thread, reads and writes the state without it: it and            *)
(* CheckLoopTag() each look at the state in one step and set it in a later *)
(* one.  Every registration has a LoopInfo of its own, which its function  *)
(* keeps alive.                                                            *)
(***************************************************************************)
EXTENDS Integers, FiniteSets

CONSTANTS Loops,        \* the loops that are watched
          MaxInfos,     \* bound: registrations
          MaxLives      \* bound: Start() after Stop()

VARIABLE wd

Infos == 1 .. MaxInfos
Nil == "nil"

\* Stop() keeps the lock while it joins the thread.  The thread reads the flag, then takes
\* the lock: "toSend" and "toCheck" are the places where it has done the first only.  In
\* "check" it holds the lock.  "crossed" (history) has the LoopInfos whose function and
\* CheckLoopTag() ran into each other.
WDogInit ==
  wd = [vec |-> {},                                    \* _loop_info_vec
        loop |-> [i \in Infos |-> Nil],
        state |-> [i \in Infos |-> "checked"],
        fn |-> [i \in Infos |-> "none"],               \* its function: none, queued, or begun
        runs |-> [l \in Loops |-> TRUE],               \* isRunning()
        made |-> 0, lives |-> 0,
        keep |-> FALSE,                                \* _keep_running
        thread |-> Nil,                                \* where the thread is; Nil for none
        stopping |-> FALSE,                            \* Stop() holds the lock
        todo |-> {},                                   \* what CheckLoopTag() has still to look at
        hit |-> 0,                                     \* the one it has found in kTobeCheck; 0 for none
        told |-> {},                                   \* history: those last reported as "block"
        crossed |-> {}]

Locked == wd.stopping \/ wd.thread = "check"

Start ==
  /\ ~Locked /\ ~wd.keep /\ wd.lives < MaxLives
  /\ wd' = [wd EXCEPT !.keep = TRUE, !.thread = "top", !.lives = @ + 1]

Stop == ~Locked /\ wd.keep /\ wd' = [wd EXCEPT !.keep = FALSE, !.stopping = TRUE]

StopReturn ==
  /\ wd.stopping /\ wd.thread = "end"
  /\ wd' = [wd EXCEPT !.stopping = FALSE, !.thread = Nil, !.vec = {}]

Register(l) ==
  LET i == wd.made + 1
  IN /\ ~Locked /\ wd.made < MaxInfos
     /\ \A j \in wd.vec : wd.loop[j] # l
     /\ wd' = [wd EXCEPT !.vec = @ \cup {i}, !.loop[i] = l, !.made = i]

Unregister(l) == ~Locked /\ wd' = [wd EXCEPT !.vec = {j \in @ : wd.loop[j] # l}]

-----------------------------------------------------------------------------
(* ThreadProc()                                                            *)

\* mutant: the state is not changed when the function is posted
SendLoopFuncUnmarked ==
  LET asked == {i \in wd.vec : wd.runs[wd.loop[i]] /\ wd.state[i] = "checked"}
  IN /\ wd.thread = "toSend" /\ ~Locked
     /\ wd' = [wd EXCEPT !.thread = "sleep",
                 !.fn = [i \in Infos |-> IF i \in asked THEN "queued" ELSE @[i]]]

SendLoopFunc ==
  LET asked == {i \in wd.vec : wd.runs[wd.loop[i]] /\ wd.state[i] = "checked"}
  IN /\ wd.thread = "toSend" /\ ~Locked
     /\ wd' = [wd EXCEPT !.thread = "sleep",
                 !.state = [i \in Infos |-> IF i \in asked THEN "tobe" ELSE @[i]],
                 !.fn = [i \in Infos |-> IF i \in asked THEN "queued" ELSE @[i]]]

CheckLoopTag ==
  /\ wd.thread = "toCheck" /\ ~Locked
  /\ wd' = [wd EXCEPT !.thread = "check", !.todo = wd.vec]

\* the test of a LoopInfo, in the order of the table
CheckLoopTagLook ==
  /\ wd.thread = "check" /\ wd.hit = 0
  /\ \E i \in wd.todo :
       /\ \A j \in wd.todo : i <= j
       /\ wd' = IF wd.state[i] = "tobe" THEN [wd EXCEPT !.hit = i]
                ELSE [wd EXCEPT !.todo = @ \ {i}]

\* and what follows it, whatever the function has made of the state meanwhile
CheckLoopTagMark ==
  /\ wd.hit # 0
  /\ wd' = [wd EXCEPT !.state[wd.hit] = "timeout", !.told = @ \cup {wd.hit},
              !.todo = @ \ {wd.hit}, !.hit = 0,
              !.crossed = IF wd.fn[wd.hit] = "queued" THEN @ ELSE @ \cup {wd.hit}]

CheckLoopTagEnd ==
  /\ wd.thread = "check" /\ wd.todo = {}
  /\ wd' = [wd EXCEPT !.thread = "top"]

\* the loop's conditions: at the top, and after the sleep
ThreadProc ==
  \/ wd.thread = "top"   /\ wd' = [wd EXCEPT !.thread = IF wd.keep THEN "toSend" ELSE "end"]
  \/ wd.thread = "sleep" /\ wd' = [wd EXCEPT !.thread = IF wd.keep THEN "toCheck" ELSE "end"]

-----------------------------------------------------------------------------
(* A loop's thread: the function looks at the state, then sets it          *)

LoopFuncBegin(i) ==
  /\ wd.fn[i] = "queued" /\ wd.runs[wd.loop[i]]
  /\ wd' = [wd EXCEPT !.fn[i] = "begun",
              !.told = IF wd.state[i] = "timeout" THEN @ \ {i} ELSE @]

LoopFuncEnd(i) ==
  /\ wd.fn[i] = "begun"
  /\ wd' = [wd EXCEPT !.fn[i] = "none", !.state[i] = "checked"]

\* the loop leaves runLoop() or enters it; it does so between functions
LoopRuns(l) ==
  /\ \A i \in Infos : wd.loop[i] = l => wd.fn[i] # "begun"
  /\ wd' = [wd EXCEPT !.runs[l] = ~@]

CheckThread == CheckLoopTag \/ CheckLoopTagLook \/ CheckLoopTagMark \/ CheckLoopTagEnd

WDogNext ==
  \/ Start \/ Stop \/ StopReturn \/ SendLoopFunc \/ CheckThread \/ ThreadProc
  \/ \E l \in Loops : Register(l) \/ Unregister(l) \/ LoopRuns(l)
  \/ \E i \in Infos : LoopFuncBegin(i) \/ LoopFuncEnd(i)

\* the watchdog's thread goes on, when it does not wait for the lock
WDogFairness == WF_wd(SendLoopFunc \/ CheckThread \/ ThreadProc)

-----------------------------------------------------------------------------
(* Properties                                                              *)

\* The watch is over, or the registration.
Over(i) == i \notin wd.vec \/ ~wd.keep

\* What the user was told last is how things stand: "block" is said once, until the
\* function comes and says "recover", and a loop that is marked has its function coming.
ToldRight(i) ==
  /\ i \in wd.told <=> wd.state[i] = "timeout" /\ wd.fn[i] = "queued"
  /\ wd.state[i] = "timeout" => wd.fn[i] # "none"

\* A loop that does not get round to its function is reported, unless it answers, is
\* unregistered, or the watchdog is stopped first; it is reported once, and asked again
\* after it has answered.  When the function answers between the test and the mark of
\* CheckLoopTag() the last two are lost: the loop stays marked with no function on its way,
\* or is marked with nobody to say "recover".
BlockReported ==
  /\ [](\A i \in Infos : ToldRight(i) \/ i \in wd.crossed)
  /\ \A i \in Infos :
       /\ (wd.fn[i] = "queued" /\ ~Over(i))
            ~> (Over(i) \/ wd.state[i] = "timeout" \/ wd.fn[i] # "queued")
       /\ (wd.fn[i] = "none" /\ ~Over(i))
            ~> (Over(i) \/ wd.fn[i] # "none" \/ ~wd.runs[wd.loop[i]] \/ i \in wd.crossed)
=============================================================================
