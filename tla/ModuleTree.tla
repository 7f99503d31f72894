----------------------------- MODULE ModuleTree -----------------------------
(***************************************************************************)
(* main::Module: a tree of modules that initialize(), start(), stop() and  *)
(* cleanup() as one.  A call on the root visits children in the order they *)
(* were added on the way up and backwards on the way down; a call of a     *)
(* child, and what a call does after its last child, are steps of their    *)
(* own.  The hooks are the user's: which of them fail is chosen freely.  A *)
(* required child that fails makes its parent fail half-way.               *)
(***************************************************************************)
EXTENDS Integers, SequencesExt

CONSTANTS Modules,      \* the modules that may be added to the tree
          MaxKids       \* bound: children of a module

VARIABLE mo

Root   == "apps"
NoOne  == "nobody"
NoCall == "no call"

ASSUME ModulesAssumption == Root \notin Modules /\ NoOne \notin Modules

AllModules == Modules \cup {Root}

\* call, at: the call of a module under way, and the child it has come to; stop() as
\* called by cleanup() is a call of its own.  top: the innermost call.  failed: its
\* required child has just failed.
\* inited, started: the modules whose onInit() (onStart()) succeeded without an
\* onCleanup() (onStop()) since.  half: those whose own hook succeeded in a call
\* that then failed for a child.  early: the hook of a module was undone while a child's
\* was not, the child being none of half.
ModuleInit ==
  mo = [kids |-> [m \in AllModules |-> <<>>],             \* children_: [mod, required]
        parent |-> [m \in AllModules |-> NoOne],          \* parent_
        state |-> [m \in AllModules |-> "none"],          \* state_
        call |-> [m \in AllModules |-> NoCall], at |-> [m \in AllModules |-> 0],
        top |-> NoOne, failed |-> FALSE,
        inited |-> {}, started |-> {}, half |-> {}, early |-> FALSE]

Kids(m) == mo.kids[m]
KidSet(m) == {Kids(m)[i].mod : i \in DOMAIN Kids(m)}
Used == {Root} \cup {m \in Modules : mo.parent[m] # NoOne}

\* add(): only before initialize(), and a module has one parent; trees grow from the root
moduleAdd(p, c, required) ==
  /\ mo.top = NoOne
  /\ mo.state[p] = "none" /\ Len(Kids(p)) < MaxKids
  /\ c # p /\ mo.parent[c] = NoOne /\ p \in Used
  /\ mo' = [mo EXCEPT !.kids[p] = Append(@, [mod |-> c, required |-> required]),
                      !.parent[c] = p]

-----------------------------------------------------------------------------
(* A call begins and returns: functions of the state S of the tree         *)

Upward == {"initialize", "start"}
Stopping == {"stop", "cleanup: stop"}

\* the call of m answers ok to its caller, which goes on to its next child
returned(S, m, ok) ==
  LET p == S.parent[m]
      T == [S EXCEPT !.call[m] = NoCall, !.top = p]
  IN IF p = NoOne THEN [T EXCEPT !.failed = FALSE]
     ELSE [T EXCEPT !.failed = ~ok /\ S.kids[p][S.at[p]].required,
                    !.at[p] = IF S.call[p] \in Upward THEN @ + 1 ELSE @ - 1]

entered(S, m, op, from) == [S EXCEPT !.call[m] = op, !.at[m] = from, !.top = m]

\* initialize(), start(), stop() and cleanup() up to their loop over the children; ok: the
\* hook of m succeeds
initializeModule(S, m, ok) ==
  IF S.state[m] # "none" \/ ~ok THEN returned(S, m, FALSE)
  ELSE [entered(S, m, "initialize", 1) EXCEPT !.inited = @ \cup {m}]

startModule(S, m, ok) ==
  IF S.state[m] # "inited" \/ ~ok THEN returned(S, m, FALSE)
  ELSE [entered(S, m, "start", 1) EXCEPT !.started = @ \cup {m}]

\* onStop() or onCleanup() of m: whether a child is still up
Undone(S, m, up) ==
  S.early \/ \E i \in DOMAIN S.kids[m] : S.kids[m][i].mod \in up \ S.half

\* mutant: a module is stopped before its children are
stopModuleFirst(S, m) ==
  IF S.state[m] # "running" THEN returned(S, m, TRUE)
  ELSE [entered(S, m, "stop", Len(S.kids[m]))
          EXCEPT !.early = Undone(S, m, S.started), !.started = @ \ {m}]

stopModule(S, m) ==
  IF S.state[m] # "running" THEN returned(S, m, TRUE)
  ELSE entered(S, m, "stop", Len(S.kids[m]))

cleanupModule(S, m) ==
  IF S.state[m] = "none" THEN returned(S, m, TRUE)
  ELSE entered(S, m, IF S.state[m] = "running" THEN "cleanup: stop" ELSE "cleanup",
               Len(S.kids[m]))

-----------------------------------------------------------------------------
(* The innermost call goes on                                              *)

Call == mo.call[mo.top]
Child == Kids(mo.top)[mo.at[mo.top]].mod
Up == mo.top # NoOne /\ Call \in Upward
Down == mo.top # NoOne /\ Call \notin Upward

\* the loop of initialize() and start(): it ends at a required child that failed
upVisits(ok) ==
  /\ Up /\ ~mo.failed /\ mo.at[mo.top] <= Len(Kids(mo.top))
  /\ mo' = IF Call = "initialize" THEN initializeModule(mo, Child, ok) ELSE startModule(mo, Child, ok)

upFails ==
  /\ Up /\ mo.failed
  /\ mo' = returned([mo EXCEPT !.half = @ \cup {mo.top}], mo.top, FALSE)

upSucceeds ==
  /\ Up /\ ~mo.failed /\ mo.at[mo.top] > Len(Kids(mo.top))
  /\ mo' = returned([mo EXCEPT !.state[mo.top] = IF Call = "initialize" THEN "inited" ELSE "running"],
                    mo.top, TRUE)

\* the loop of stop() and cleanup()
downVisits ==
  /\ Down /\ mo.at[mo.top] > 0
  /\ mo' = IF Call \in Stopping THEN stopModule(mo, Child) ELSE cleanupModule(mo, Child)

\* onStop(); cleanup() goes on with its children
stopEnds ==
  LET m == mo.top
      T == [mo EXCEPT !.early = Undone(mo, m, mo.started), !.started = @ \ {m},
                      !.state[m] = "inited"]
  IN /\ Down /\ Call \in Stopping /\ mo.at[m] = 0
     /\ mo' = IF Call = "stop" THEN returned(T, m, TRUE)
              ELSE entered(T, m, "cleanup", Len(Kids(m)))

\* onCleanup()
cleanupEnds ==
  LET m == mo.top
  IN /\ Down /\ Call = "cleanup" /\ mo.at[m] = 0
     /\ mo' = returned([mo EXCEPT !.early = Undone(mo, m, mo.inited), !.inited = @ \ {m},
                                  !.state[m] = "none"], m, TRUE)

-----------------------------------------------------------------------------
(* Main(): the calls it makes on the root                                  *)

appsInitialize ==
  /\ mo.top = NoOne /\ mo.state[Root] = "none"
  /\ \E ok \in BOOLEAN : mo' = initializeModule(mo, Root, ok)
appsStart ==
  /\ mo.top = NoOne /\ mo.state[Root] = "inited"
  /\ \E ok \in BOOLEAN : mo' = startModule(mo, Root, ok)
appsStop == mo.top = NoOne /\ mo.state[Root] = "running" /\ mo' = stopModule(mo, Root)
appsCleanup == mo.top = NoOne /\ mo.state[Root] # "none" /\ mo' = cleanupModule(mo, Root)

ModuleNext ==
  \/ \E p \in AllModules, c \in Modules, b \in BOOLEAN : moduleAdd(p, c, b)
  \/ appsInitialize \/ appsStart \/ appsStop \/ appsCleanup
  \/ \E ok \in BOOLEAN : upVisits(ok)
  \/ upFails \/ upSucceeds \/ downVisits \/ stopEnds \/ cleanupEnds

ModuleSpec == ModuleInit /\ [][ModuleNext]_mo

-----------------------------------------------------------------------------
(* Properties                                                              *)

Rank(m) == CASE mo.state[m] = "none" -> 0 [] mo.state[m] = "inited" -> 1 [] OTHER -> 2

\* Hooks pair up along the tree: of a module none of whose calls is under way, what
\* onInit() and onStart() built is there exactly while its state says so, and no child is
\* further than it; and a parent's hook is undone only after its children's.  A module
\* that failed half-way is the exception: nothing undoes the hooks that had succeeded.
ModulePaired ==
  /\ ~mo.early
  /\ \A m \in Used \ mo.half :
       mo.call[m] = NoCall =>
         /\ m \in mo.inited  <=> Rank(m) >= 1
         /\ m \in mo.started <=> Rank(m) = 2
         /\ \A c \in KidSet(m) : Rank(c) <= Rank(m)
=============================================================================
