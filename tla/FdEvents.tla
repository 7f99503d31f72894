------------------------------ MODULE FdEvents ------------------------------
(***************************************************************************)
(* Descriptor events of event::EpollLoop: FdEvent objects that watch the     *)
(* same descriptor share one EpollFdSharedData, which counts the watchers of   *)
(* each kind and holds the mask given to epoll_ctl().                        *)
(*                                                                         *)
(* The loop dispatches a batch that epoll_wait() returned: for each entry it   *)
(* copies the list of events and calls them one after another; a callback      *)
(* enables, disables and re-initializes events.  Events are destroyed, or       *)
(* moved to another descriptor, between batches only (a function given to       *)
(* run(), as this repository's own users do): the batch holds raw pointers.     *)
(***************************************************************************)
EXTENDS Integers, FiniteSets, SequencesExt

CONSTANTS FdEvs,      \* FdEvent objects
          Fds,        \* descriptors
          WatchSets   \* what initialize() is given: sets of kinds

FdKinds == {"read", "write", "except"}
NoFd    == "nofd"
ASSUME WatchAssumption == /\ WatchSets \subseteq SUBSET FdKinds /\ NoFd \notin Fds
                          /\ IsFiniteSet(FdEvs) /\ IsFiniteSet(Fds)

NoData == [ref |-> 0, num |-> [k \in FdKinds |-> 0], list |-> <<>>, mask |-> {}]

VARIABLES
  fe,       \* fe[e]: the EpollFdEvent
  data,     \* data[f]: fd_data_map_[f]; NoData when there is no entry
  kernel,   \* kernel[f]: what epoll watches of f
  batch,    \* entries of epoll_wait() not dispatched yet: descriptor and kinds
  call      \* the entry being dispatched: the copied list's rest, the kinds, the callback

fdVars == <<fe, data, kernel, batch, call>>

NewFdEvent == [fd |-> NoFd, events |-> {}, once |-> FALSE, enabled |-> FALSE]
NoCall     == [rest |-> <<>>, kinds |-> {}, cb |-> "none"]

FdInit ==
  /\ fe = [e \in FdEvs |-> NewFdEvent]
  /\ data = [f \in Fds |-> NoData] /\ kernel = [f \in Fds |-> {}]
  /\ batch = <<>> /\ call = NoCall

FdInCallback  == call.cb # "none"
FdBetweenPolls == batch = <<>> /\ call = NoCall
FdMayOperate  == FdInCallback \/ FdBetweenPolls

-----------------------------------------------------------------------------
(* EpollLoop::refFdSharedData(), unrefFdSharedData()                        *)

refFdSharedData(d, f) == [d EXCEPT ![f].ref = @ + 1]

unrefFdSharedData(d, f) ==
  IF f = NoFd THEN d
  ELSE IF d[f].ref = 1 THEN [d EXCEPT ![f] = NoData]     \* erased and freed
  ELSE [d EXCEPT ![f].ref = @ - 1]

\* reloadEpoll(): ADD, MOD or DEL, after the counters changed.  MOD and DEL act on a
\* registered descriptor; the mask this process remembers decides which is called.
reloadEpoll(f, x) ==
  LET mask == {k \in FdKinds : x.num[k] > 0}
  IN /\ data' = [data EXCEPT ![f] = [x EXCEPT !.mask = mask]]
     /\ kernel' = [kernel EXCEPT ![f] =
          CASE x.mask = {} /\ mask # {} -> mask                    \* EPOLL_CTL_ADD
            [] x.mask # {} /\ mask # {} -> mask                    \* EPOLL_CTL_MOD
            [] x.mask # {} /\ mask = {} -> {}                      \* EPOLL_CTL_DEL
            [] OTHER -> @]

-----------------------------------------------------------------------------
(* EpollFdEvent                                                            *)

\* refused while enabled; the one-shot flag is set by kOneshot and never cleared
FdInitialize(e, f, ks, oneshot) ==
  /\ FdMayOperate /\ ~fe[e].enabled
  /\ FdInCallback => f = fe[e].fd
  /\ data' = IF f = fe[e].fd THEN data ELSE refFdSharedData(unrefFdSharedData(data, fe[e].fd), f)
  /\ fe' = [fe EXCEPT ![e] =
               [fe[e] EXCEPT !.fd = f, !.events = ks, !.once = fe[e].once \/ oneshot]]
  /\ UNCHANGED <<kernel, batch, call>>

FdEnable(e) ==
  LET f == fe[e].fd
  IN /\ FdMayOperate /\ f # NoFd /\ ~fe[e].enabled
     /\ reloadEpoll(f, [data[f] EXCEPT
          !.num = [k \in FdKinds |-> IF k \in fe[e].events THEN @[k] + 1 ELSE @[k]],
          !.list = Append(@, e)])
     /\ fe' = [fe EXCEPT ![e].enabled = TRUE]
     /\ UNCHANGED <<batch, call>>

\* std::find() and erase() of this event in the list; it is there while it is enabled
eraseFirst(list, e) ==
  RemoveAt(list, CHOOSE k \in 1..Len(list) : list[k] = e /\ \A j \in 1..(k - 1) : list[j] # e)

\* mutant: the count of write watchers is left as it is
fdDisableNoWrite(e) ==
  LET f == fe[e].fd
  IN IF ~fe[e].enabled THEN UNCHANGED <<fe, data, kernel>>
     ELSE /\ reloadEpoll(f, [data[f] EXCEPT
               !.num = [k \in FdKinds |->
                          IF k \in fe[e].events \ {"write"} THEN @[k] - 1 ELSE @[k]],
               !.list = eraseFirst(@, e)])
          /\ fe' = [fe EXCEPT ![e].enabled = FALSE]

fdDisable(e) ==
  LET f == fe[e].fd
  IN IF ~fe[e].enabled THEN UNCHANGED <<fe, data, kernel>>
     ELSE /\ reloadEpoll(f, [data[f] EXCEPT
               !.num = [k \in FdKinds |-> IF k \in fe[e].events THEN @[k] - 1 ELSE @[k]],
               !.list = eraseFirst(@, e)])
          /\ fe' = [fe EXCEPT ![e].enabled = FALSE]

FdDisable(e) == FdMayOperate /\ fdDisable(e) /\ UNCHANGED <<batch, call>>

\* the destructor of a disabled event; for an enabled one FdDisable comes first
FdDestroy(e) ==
  /\ FdBetweenPolls /\ ~fe[e].enabled /\ fe[e].fd # NoFd
  /\ data' = unrefFdSharedData(data, fe[e].fd)
  /\ fe' = [fe EXCEPT ![e] = NewFdEvent]
  /\ UNCHANGED <<kernel, batch, call>>

-----------------------------------------------------------------------------
(* EpollLoop::runLoop(), OnEventCallback(), onEvent()                       *)

\* what the kernel may report: watched kinds, and errors and hang-ups always
Reports(f) == SUBSET (kernel[f] \cup {"except", "hup"}) \ {{}}

FdPoll ==
  /\ FdBetweenPolls
  /\ \E S \in SUBSET {f \in Fds : kernel[f] # {}} \ {{}} :
       \E order \in SetToSeqs(S), r \in [S -> UNION {Reports(f) : f \in S}] :
         /\ \A f \in S : r[f] \in Reports(f)
         /\ batch' = [i \in 1..Len(order) |-> [fd |-> order[i], kinds |-> r[order[i]]]]
  /\ UNCHANGED <<fe, data, kernel, call>>

\* a hang-up counts as readable; the list is copied before the first callback
FdDispatch ==
  LET b == Head(batch)
  IN /\ batch # <<>> /\ call = NoCall
     /\ call' = [NoCall EXCEPT !.rest = data[b.fd].list,
                   !.kinds = (b.kinds \ {"hup"}) \cup IF "hup" \in b.kinds THEN {"read"} ELSE {}]
     /\ batch' = Tail(batch)
     /\ UNCHANGED <<fe, data, kernel>>

\* onEvent(): is_enabled_ is not looked at, so an event that an earlier callback of
\* the same list disabled is still called
FdOnEvent ==
  LET e == Head(call.rest)
  IN /\ ~FdInCallback /\ call.rest # <<>>
     /\ IF fe[e].events \cap call.kinds = {}
        THEN /\ call' = IF Len(call.rest) = 1 THEN NoCall ELSE [call EXCEPT !.rest = Tail(@)]
             /\ UNCHANGED <<fe, data, kernel>>
        ELSE /\ IF fe[e].once THEN fdDisable(e) ELSE UNCHANGED <<fe, data, kernel>>
             /\ call' = [call EXCEPT !.rest = Tail(@), !.cb = e]
     /\ UNCHANGED batch

FdReturn ==
  /\ FdInCallback
  /\ call' = IF call.rest = <<>> THEN NoCall ELSE [call EXCEPT !.cb = "none"]
  /\ UNCHANGED <<fe, data, kernel, batch>>

\* an entry whose events were all disabled meanwhile
FdDispatchNone ==
  /\ call # NoCall /\ call.rest = <<>> /\ ~FdInCallback
  /\ call' = NoCall
  /\ UNCHANGED <<fe, data, kernel, batch>>

FdNext ==
  \/ \E e \in FdEvs : FdEnable(e) \/ FdDisable(e) \/ FdDestroy(e)
  \/ \E e \in FdEvs, f \in Fds, ks \in WatchSets, o \in BOOLEAN : FdInitialize(e, f, ks, o)
  \/ FdPoll \/ FdDispatch \/ FdOnEvent \/ FdReturn \/ FdDispatchNone

FdSpec == FdInit /\ [][FdNext]_fdVars

-----------------------------------------------------------------------------
(* Properties                                                              *)

\* epoll watches exactly what the enabled events want, the list holds each of them
\* once, and the shared data lives as long as some event refers to it: so no
\* descriptor is silently left unwatched or watched for nobody (a busy loop),
\* whatever callbacks do to each other during a dispatch.
FdRegistered ==
  \A f \in Fds :
    LET on == {e \in FdEvs : fe[e].fd = f /\ fe[e].enabled}
    IN /\ kernel[f] = UNION {fe[e].events : e \in on}
       /\ ToSet(data[f].list) = on /\ IsInjective(data[f].list)
       /\ data[f].ref = Cardinality({e \in FdEvs : fe[e].fd = f})
=============================================================================
