------------------------------- MODULE MCWork -------------------------------
(***************************************************************************)
(* Components with work that must come to an end: actions and their        *)
(* executor, the requests of JSON-RPC, and the watchdog of the loops.      *)
(* They share no state: each initial state picks the one that moves.       *)
(***************************************************************************)
EXTENDS Actions, ActionExecutor, RpcCalls, LoopWDog

VARIABLE part

\* a tree from the triples <<kind, mode, children>> of its nodes; r is the root
TreeOf(f) == [root |-> "r", kind |-> [n \in DOMAIN f |-> f[n][1]],
              mode |-> [n \in DOMAIN f |-> f[n][2]], kids |-> [n \in DOMAIN f |-> f[n][3]]]

Leaf == <<"leaf", "", <<>>>>
Func == <<"function", TRUE, <<>>>>

MCTrees ==
  {TreeOf([r |-> <<"sequence", m, <<"a", "b">>>>, a |-> Leaf, b |-> Func]) : m \in {"AllFinish", "AnyFail", "AnySucc"}}
  \cup {TreeOf([r |-> <<"parallel", m, <<"a", "b">>>>, a |-> Leaf, b |-> Leaf]) : m \in {"AllFinish", "AnyFail", "AnySucc"}}
  \cup {TreeOf([r |-> <<"wrapper", m, <<"a">>>>, a |-> Leaf]) : m \in {"Normal", "Invert", "AlwaySucc", "AlwayFail"}}
  \cup {TreeOf([r |-> <<"loop", m, <<"a">>>>, a |-> Leaf]) : m \in {"Forever", "UntilSucc", "UntilFail"}}
  \cup {TreeOf([r |-> <<"repeat", m, <<"a">>>>, a |-> Leaf]) : m \in {<<"NoBreak", 2>>, <<"BreakSucc", 2>>, <<"BreakFail", 2>>}}
  \cup {TreeOf([r |-> <<"ifelse", "", <<"a", "b", c>>>>, a |-> Leaf, b |-> Leaf, c |-> Func]) : c \in {"c", Null}}
  \cup {TreeOf([r |-> <<"ifthen", "", <<"a", "b", "c", "d">>>>, a |-> Leaf, b |-> Leaf, c |-> Func, d |-> Leaf])}
  \cup {TreeOf([r |-> <<"switch", "", <<"a", d, "c">>>>, a |-> Leaf, c |-> Leaf, d |-> Func]) : d \in {"d", Null}}
  \cup {TreeOf([r |-> <<"loopif", FALSE, <<"a", "b">>>>, a |-> Leaf, b |-> Leaf])}
  \cup {TreeOf([r |-> <<"composite", "", <<"s">>>>, s |-> <<"sequence", "AnyFail", <<"a", "p">>>>,
                a |-> Leaf, p |-> <<"parallel", "AnyFail", <<"b", "c">>>>, b |-> Leaf, c |-> Func])}
  \cup {TreeOf([r |-> <<"sequence", "AllFinish", <<"w", "b">>>>, w |-> <<"composite", "", <<"a">>>>,
                a |-> Leaf, b |-> Leaf])}

MCTimed == {"w", "r"}

Init ==
  /\ part \in {"actions", "executor", "rpc", "wdog"}
  /\ ActionInit /\ (part # "actions" => tree = CHOOSE t \in Trees : TRUE)
  /\ ExecutorInit /\ RpcInit /\ WDogInit

vars == <<part, actionVars, ex, rpc, wd>>

Next ==
  \/ part = "actions" /\ ActionNext /\ UNCHANGED <<part, ex, rpc, wd>>
  \/ part = "executor" /\ ExecutorNext /\ UNCHANGED <<part, actionVars, rpc, wd>>
  \/ part = "rpc" /\ RpcNext /\ UNCHANGED <<part, actionVars, ex, wd>>
  \/ part = "wdog" /\ WDogNext /\ UNCHANGED <<part, actionVars, ex, rpc>>

Spec == Init /\ [][Next]_vars /\ RpcFairness /\ WDogFairness
=============================================================================
