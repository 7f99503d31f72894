----------------------------- MODULE EventsProofs -----------------------------
(***************************************************************************)
(* Proofs about the events of a loop: signals, timers and descriptors, for *)
(* any number of loops, event objects, signals, descriptors and instants.  *)
(***************************************************************************)
EXTENDS Timers, FdEvents, Signals, FiniteSetTheorems, WellFoundedInduction, TLAPS

-----------------------------------------------------------------------------
(* Signals                                                                 *)

\* The event objects, the tables of the loops and of the process, and the dispatch.
SigEventType == [sigs : SUBSET Signos, once : BOOLEAN, enabled : BOOLEAN, odd : BOOLEAN]
DispType     == [read : Seq(Signos), todo : SUBSET SigEvs, cb : SigEvs \cup {"none"}]
SignalTypeOK ==
  /\ se \in [SigEvs -> SigEventType]
  /\ subs \in [SigLoops -> [Signos -> SUBSET SigEvs]]
  /\ spipe \in [SigLoops -> [open : BOOLEAN, buf : Seq(Signos)]]
  /\ sctx \in [Signos -> SUBSET SigLoops]
  /\ handler \in [Signos -> {"app", "tbox"}]
  /\ disp \in [SigLoops -> DispType]
  /\ wiped \in SUBSET Signos /\ crashed \in BOOLEAN

SignalInv == SignalTypeOK /\ SignalRouting

\* A process without subscriptions satisfies the invariant.
LEMMA SignalInvInit == SignalInit => SignalInv
<1> SUFFICES ASSUME SignalInit PROVE SignalInv
  OBVIOUS
<1>1. SignalTypeOK
  <2>1. NewSigEvent \in SigEventType /\ NoDisp \in DispType
    BY DEF NewSigEvent, SigEventType, NoDisp, DispType
  <2>2. Closed \in [open : BOOLEAN, buf : Seq(Signos)]
    BY DEF Closed
  <2>3. /\ se \in [SigEvs -> SigEventType] /\ disp \in [SigLoops -> DispType]
        /\ spipe \in [SigLoops -> [open : BOOLEAN, buf : Seq(Signos)]]
    BY <2>1, <2>2 DEF SignalInit
  <2> QED
    BY <2>3 DEF SignalInit, SignalTypeOK
<1>2. SignalRouting
  BY SignalAssumption DEF SignalInit, SignalRouting, TablesFollow, Subscribed, Closed, NewSigEvent
<1> QED
  BY <1>1, <1>2 DEF SignalInv

\* Whatever subscribers a loop gets, the tables follow.
LEMMA RerouteInv ==
  ASSUME SignalInv, NEW l \in SigLoops, NEW nu \in [Signos -> SUBSET SigEvs], Reroute(l, nu),
         se' \in [SigEvs -> SigEventType], disp' \in [SigLoops -> DispType],
         wiped' \in SUBSET Signos, crashed' \in BOOLEAN
  PROVE  SignalTypeOK' /\ TablesFollow'
<1> USE DEF SignalInv, SignalRouting
<1>1. subs' \in [SigLoops -> [Signos -> SUBSET SigEvs]]
  BY DEF Reroute, SignalTypeOK
<1>2. \A m \in SigLoops : subs'[m] = IF m = l THEN nu ELSE subs[m]
  BY DEF Reroute, SignalTypeOK
<1>3. sctx' \in [Signos -> SUBSET SigLoops]
  BY DEF Reroute, SignalTypeOK
<1>4. handler' \in [Signos -> {"app", "tbox"}]
  BY DEF Reroute, SignalTypeOK
<1>5. /\ spipe' \in [SigLoops -> [open : BOOLEAN, buf : Seq(Signos)]]
      /\ spipe'[l].open <=> \E s \in Signos : nu[s] # {}
      /\ \A m \in SigLoops \ {l} : spipe'[m] = spipe[m]
  <2> DEFINE p == IF \A s \in Signos : nu[s] = {} THEN Closed
                  ELSE [spipe[l] EXCEPT !.open = TRUE]
  <2>1. spipe' = [spipe EXCEPT ![l] = p]
    BY DEF Reroute
  <2>2. p \in [open : BOOLEAN, buf : Seq(Signos)] /\ (p.open <=> \E s \in Signos : nu[s] # {})
    <3>1. CASE \A s \in Signos : nu[s] = {}
      BY <3>1 DEF Closed
    <3>2. CASE ~\A s \in Signos : nu[s] = {}
      <4>1. p = [open |-> TRUE, buf |-> spipe[l].buf]
        BY <3>2 DEF SignalTypeOK
      <4> QED
        BY <3>2, <4>1 DEF SignalTypeOK
    <3> QED
      BY <3>1, <3>2
  <2> HIDE DEF p
  <2> QED
    BY <2>1, <2>2 DEF SignalTypeOK
<1>6. ASSUME NEW s \in Signos
      PROVE  /\ sctx'[s] = {m \in SigLoops : subs'[m][s] # {}}
             /\ handler'[s] = "tbox" <=> sctx'[s] # {}
  <2>1. sctx'[s] = IF nu[s] = {} THEN sctx[s] \ {l} ELSE sctx[s] \cup {l}
    BY DEF Reroute
  <2>2. sctx[s] = {m \in SigLoops : subs[m][s] # {}} /\ (handler[s] = "tbox" <=> sctx[s] # {})
    BY DEF TablesFollow
  <2>3. sctx'[s] = {m \in SigLoops : subs'[m][s] # {}}
    BY <1>2, <2>1, <2>2
  <2>4. handler'[s] = CASE subs[l][s] = {} /\ nu[s] # {} /\ sctx[s] = {} -> "tbox"
                        [] subs[l][s] # {} /\ nu[s] = {} /\ sctx[s] = {l} -> "app"
                        [] OTHER -> handler[s]
    BY DEF Reroute
  <2>5. handler'[s] = "tbox" <=> sctx'[s] # {}
    <3>1. CASE subs[l][s] = {} /\ nu[s] # {} /\ sctx[s] = {}
      BY <2>1, <2>4, <3>1
    <3>2. CASE subs[l][s] # {} /\ nu[s] = {} /\ sctx[s] = {l}
      BY <2>1, <2>4, <3>2
    <3>3. CASE ~(subs[l][s] = {} /\ nu[s] # {} /\ sctx[s] = {})
               /\ ~(subs[l][s] # {} /\ nu[s] = {} /\ sctx[s] = {l})
      <4>1. handler'[s] = handler[s]
        BY <2>4, <3>3
      <4>2. l \in sctx[s] <=> subs[l][s] # {}
        BY <2>2
      <4> QED
        BY <2>1, <2>2, <3>3, <4>1, <4>2
    <3> QED
      BY <3>1, <3>2, <3>3
  <2> QED
    BY <2>3, <2>5
<1>7. \A m \in SigLoops : spipe'[m].open <=> \E s \in Signos : subs'[m][s] # {}
  <2> SUFFICES ASSUME NEW m \in SigLoops
               PROVE  spipe'[m].open <=> \E s \in Signos : subs'[m][s] # {}
    OBVIOUS
  <2>1. CASE m = l
    BY <1>2, <1>5, <2>1
  <2>2. CASE m # l
    <3>1. spipe'[m] = spipe[m] /\ subs'[m] = subs[m]
      BY <1>2, <1>5, <2>2
    <3> QED
      BY <3>1 DEF TablesFollow
  <2> QED
    BY <2>1, <2>2
<1> QED
  BY <1>1, <1>3, <1>4, <1>5, <1>6, <1>7 DEF SignalTypeOK, TablesFollow

\* One field of one event or of one loop's dispatch changes.
LEMMA SigEventSet ==
  ASSUME NEW e \in SigEvs, NEW r, r \in SigEventType, se \in [SigEvs -> SigEventType],
         se' = [se EXCEPT ![e] = r]
  PROVE  se' \in [SigEvs -> SigEventType]
  OBVIOUS

\* What is written to a field of an event or of a pipe has the type of the field.
LEMMA SigFields ==
  /\ \A r \in SigEventType : \A b, d \in BOOLEAN :
       [[r EXCEPT !.enabled = b] EXCEPT !.odd = d] \in SigEventType
  /\ \A r \in SigEventType : \A b \in BOOLEAN : [r EXCEPT !.enabled = b] \in SigEventType
  /\ \A r \in SigEventType : \A S \in SUBSET Signos : \A o, d \in BOOLEAN :
       [[[r EXCEPT !.sigs = S] EXCEPT !.once = o] EXCEPT !.odd = d] \in SigEventType
  BY DEF SigEventType

\* The same for the contents of a pipe, which leave it open or closed.
LEMMA PipeFields ==
  ASSUME NEW r \in [open : BOOLEAN, buf : Seq(Signos)], NEW q \in Seq(Signos)
  PROVE  /\ [r EXCEPT !.buf = q] \in [open : BOOLEAN, buf : Seq(Signos)]
         /\ [r EXCEPT !.buf = q].open = r.open
  OBVIOUS

\* Steps that leave the subscriptions alone, and write only to pipes that are open.
LEMMA KeepsTables ==
  ASSUME TablesFollow, UNCHANGED <<subs, sctx, handler>>,
         \A l \in SigLoops : spipe'[l].open = spipe[l].open
  PROVE  TablesFollow'
  BY DEF TablesFollow

LEMMA KeepsRouting ==
  ASSUME SignalRouting, UNCHANGED <<se, subs, sctx, handler, wiped, crashed>>,
         \A l \in SigLoops : spipe'[l].open = spipe[l].open
  PROVE  SignalRouting'
<1>1. TablesFollow'
  BY KeepsTables DEF SignalRouting
<1> QED
  BY <1>1 DEF SignalRouting, Subscribed

\* What an event does to its own subscriptions is nothing to the others.
LEMMA OthersKeep ==
  ASSUME SignalInv, NEW e \in SigEvs, NEW nu \in [Signos -> SUBSET SigEvs],
         subs' = [subs EXCEPT ![loopOf[e]] = nu],
         \A s \in Signos : \A f \in SigEvs \ {e} : f \in nu[s] <=> f \in subs[loopOf[e]][s],
         NEW r \in SigEventType, se' = [se EXCEPT ![e] = r]
  PROVE  \A f \in SigEvs \ {e} : se'[f].odd \/ Subscribed(f)'
<1> USE SignalAssumption DEF SignalInv
<1> SUFFICES ASSUME NEW f \in SigEvs \ {e} PROVE se'[f].odd \/ Subscribed(f)'
  OBVIOUS
<1>1. se'[f] = se[f] /\ loopOf[f] \in SigLoops
  BY DEF SignalTypeOK
<1>2. ASSUME NEW s \in Signos PROVE f \in subs'[loopOf[f]][s] <=> f \in subs[loopOf[f]][s]
  <2>1. CASE loopOf[f] = loopOf[e]
    BY <2>1 DEF SignalTypeOK
  <2>2. CASE loopOf[f] # loopOf[e]
    BY <2>2 DEF SignalTypeOK
  <2> QED
    BY <2>1, <2>2
<1>3. se[f].odd \/ Subscribed(f)
  BY DEF SignalRouting
<1> QED
  BY <1>1, <1>2, <1>3 DEF Subscribed

\* disable(), by the user or before the callback of a one-shot event.  An event that is not
\* odd unsubscribes what it is subscribed to: somebody is, and the loop has its pipe.
LEMMA UnsubscribeInv ==
  ASSUME SignalInv, NEW e \in SigEvs, se[e].enabled, Unsubscribe(e),
         disp' \in [SigLoops -> DispType]
  PROVE  SignalInv'
<1> USE SignalAssumption DEF SignalInv
<1> DEFINE r  == [se[e] EXCEPT !.enabled = FALSE]
           nu == Less(e, se[e].sigs)
<1>1. /\ se[e] \in SigEventType /\ loopOf[e] \in SigLoops
      /\ r \in SigEventType /\ r.odd = se[e].odd /\ r.enabled = FALSE
  <2>1. se[e] \in SigEventType /\ loopOf[e] \in SigLoops
    BY DEF SignalTypeOK
  <2>2. r.odd = se[e].odd /\ r.enabled = FALSE
    BY <2>1 DEF SigEventType
  <2> QED
    BY <2>1, <2>2, SigFields, ZenonT(30)
<1>2. se' = [se EXCEPT ![e] = r] /\ se' \in [SigEvs -> SigEventType]
  BY <1>1, SigEventSet DEF Unsubscribe, SignalTypeOK
<1>3. /\ nu \in [Signos -> SUBSET SigEvs]
      /\ \A s \in Signos : \A f \in SigEvs : f \in nu[s] <=>
           f \in subs[loopOf[e]][s] /\ ~(f = e /\ s \in se[e].sigs)
  BY <1>1 DEF Less, SignalTypeOK
<1>4. se'[e].odd = se[e].odd /\ se'[e].enabled = FALSE
  BY <1>1, <1>2 DEF SignalTypeOK
<1> HIDE DEF r, nu
<1>5. CASE ~se[e].odd
  <2>1. \A s \in Signos : e \in subs[loopOf[e]][s] <=> s \in se[e].sigs
    BY <1>5 DEF SignalRouting, Subscribed
  <2>2. \A s \in se[e].sigs : s \in Signos /\ ~(s < s)
    <3>1. se[e].sigs \subseteq Signos
      BY <1>1 DEF SigEventType
    <3>2. \A s \in Nat : ~(s < s)
      OBVIOUS
    <3> QED
      BY <3>1, <3>2
  <2>3. ~NoReadEvent(e)
    BY <2>1, <2>2 DEF NoReadEvent
  <2>4. \A s \in se[e].sigs : sctx[s] # {}
    BY <1>1, <2>1, <2>2 DEF SignalRouting, TablesFollow
  <2>5. Reroute(loopOf[e], nu) /\ UNCHANGED <<wiped, crashed>>
    BY <2>3, <2>4 DEF Unsubscribe, nu
  <2>6. SignalTypeOK' /\ TablesFollow'
    BY <1>1, <1>2, <1>3, <2>5, RerouteInv DEF SignalTypeOK
  <2>7. subs' = [subs EXCEPT ![loopOf[e]] = nu]
    BY <2>5 DEF Reroute
  <2>8. \A f \in SigEvs \ {e} : se'[f].odd \/ Subscribed(f)'
    BY <1>1, <1>2, <1>3, <2>7, OthersKeep
  <2>9. Subscribed(e)'
    <3>1. \A s \in Signos : subs'[loopOf[e]][s] = nu[s]
      BY <1>1, <2>7 DEF SignalTypeOK
    <3> QED
      BY <1>3, <1>4, <2>1, <3>1 DEF Subscribed
  <2>10. \A f \in SigEvs : se'[f].odd = se[f].odd
    BY <1>2, <1>4 DEF SignalTypeOK
  <2> QED
    BY <2>5, <2>6, <2>8, <2>9, <2>10 DEF SignalRouting
<1>6. CASE se[e].odd
  <2>1. SignalTypeOK' /\ TablesFollow'
    <3>1. CASE NoReadEvent(e)
      <4>1. TablesFollow'
        BY <3>1, KeepsTables DEF Unsubscribe, SignalRouting
      <4> QED
        BY <1>2, <3>1, <4>1 DEF Unsubscribe, SignalTypeOK
    <3>2. CASE ~NoReadEvent(e)
      <4>1. Reroute(loopOf[e], nu) /\ wiped' \in SUBSET Signos /\ crashed' \in BOOLEAN
        BY <1>1, <3>2 DEF Unsubscribe, nu, SignalTypeOK, SigEventType
      <4> QED
        BY <1>1, <1>2, <1>3, <4>1, RerouteInv
    <3> QED
      BY <3>1, <3>2
  <2>2. \A f \in SigEvs \ {e} : se'[f].odd \/ Subscribed(f)'
    <3>1. CASE NoReadEvent(e)
      <4>1. \A f \in SigEvs \ {e} : se'[f] = se[f]
        BY <1>2 DEF SignalTypeOK
      <4> QED
        BY <3>1, <4>1 DEF Unsubscribe, SignalRouting, Subscribed
    <3>2. CASE ~NoReadEvent(e)
      <4>1. subs' = [subs EXCEPT ![loopOf[e]] = nu]
        BY <3>2 DEF Unsubscribe, Reroute, nu
      <4> QED
        BY <1>1, <1>2, <1>3, <4>1, OthersKeep
    <3> QED
      BY <3>1, <3>2
  <2> QED
    BY <1>4, <1>6, <2>1, <2>2 DEF SignalRouting
<1> QED
  BY <1>5, <1>6

\* Every call, every signal and every step of the dispatch keeps the invariant.
LEMMA SignalInvStep == SignalInv /\ [SignalNext]_signalVars => SignalInv'
<1> SUFFICES ASSUME SignalInv, [SignalNext]_signalVars PROVE SignalInv'
  OBVIOUS
<1>0. loopOf \in [SigEvs -> SigLoops]
  BY SignalAssumption
<1> USE <1>0 DEF SignalInv
<1>1. ASSUME NEW e \in SigEvs, SigEnable(e) PROVE SignalInv'
  <2> DEFINE bad    == se[e].sigs \cap BadSignos
             before == {s \in se[e].sigs : \A b \in bad : s < b}
             nu     == Add(e, before)
             r      == [[se[e] EXCEPT !.enabled = se[e].enabled \/ bad = {}]
                          EXCEPT !.odd = se[e].odd \/ bad # {}]
  <2>1. /\ se[e] \in SigEventType /\ loopOf[e] \in SigLoops
        /\ before \in SUBSET Signos /\ (bad = {} => before = se[e].sigs)
    BY DEF SignalTypeOK, SigEventType
  <2>2. /\ Reroute(loopOf[e], nu) /\ UNCHANGED <<disp, wiped, crashed>>
        /\ se' = [se EXCEPT ![e] = r]
    BY <1>1 DEF SigEnable
  <2>3. /\ r \in SigEventType /\ r.odd = (se[e].odd \/ bad # {})
        /\ r.enabled = (se[e].enabled \/ bad = {}) /\ r.sigs = se[e].sigs
    <3>1. (se[e].enabled \/ bad = {}) \in BOOLEAN /\ (se[e].odd \/ bad # {}) \in BOOLEAN
      OBVIOUS
    <3>2. r \in SigEventType
      BY <2>1, <3>1, SigFields, ZenonT(30)
    <3> QED
      BY <2>1, <3>2 DEF SigEventType
  <2>4. /\ nu \in [Signos -> SUBSET SigEvs]
        /\ \A s \in Signos : \A f \in SigEvs : f \in nu[s] <=>
             f \in subs[loopOf[e]][s] \/ (f = e /\ s \in before)
    BY <2>1 DEF Add, SignalTypeOK
  <2> HIDE DEF nu, r, before
  <2>5. se' \in [SigEvs -> SigEventType] /\ se'[e] = r
    BY <2>2, <2>3, SigEventSet DEF SignalTypeOK
  <2>6. SignalTypeOK' /\ TablesFollow'
    BY <2>1, <2>2, <2>4, <2>5, RerouteInv DEF SignalTypeOK
  <2>7. subs' = [subs EXCEPT ![loopOf[e]] = nu]
    BY <2>2 DEF Reroute
  <2>8. \A f \in SigEvs \ {e} : se'[f].odd \/ Subscribed(f)'
    BY <2>1, <2>2, <2>3, <2>4, <2>7, OthersKeep
  <2>9. ASSUME ~se'[e].odd PROVE Subscribed(e)'
    <3>1. ~se[e].odd /\ bad = {} /\ se'[e].enabled /\ se'[e].sigs = se[e].sigs
      BY <2>3, <2>5, <2>9
    <3>2. \A s \in Signos : subs'[loopOf[e]][s] = nu[s]
      BY <2>1, <2>7 DEF SignalTypeOK
    <3>3. Subscribed(e) /\ before = se[e].sigs
      BY <2>1, <3>1 DEF SignalRouting
    <3> QED
      BY <2>4, <3>1, <3>2, <3>3 DEF Subscribed
  <2>10. \A f \in SigEvs : se[f].odd => se'[f].odd
    BY <2>2, <2>3, <2>5 DEF SignalTypeOK
  <2> QED
    BY <2>2, <2>6, <2>8, <2>9, <2>10 DEF SignalRouting
<1>2. ASSUME NEW e \in SigEvs, SigDisable(e) PROVE SignalInv'
  BY <1>2, UnsubscribeInv DEF SigDisable, SignalTypeOK
<1>3. ASSUME NEW e \in SigEvs, NEW S \in SigSets, NEW o \in BOOLEAN,
             SigInitialize(e, S, o)
      PROVE  SignalInv'
  <2> DEFINE r == [[[se[e] EXCEPT !.sigs = S] EXCEPT !.once = o]
                     EXCEPT !.odd = se[e].odd \/ se[e].enabled]
  <2>1. se[e] \in SigEventType /\ S \in SUBSET Signos
    BY SignalAssumption DEF SignalTypeOK
  <2>2. se' = [se EXCEPT ![e] = r]
    BY <1>3, <2>1 DEF SigInitialize, SigEventType
  <2>3. /\ r \in SigEventType /\ r.odd = (se[e].odd \/ se[e].enabled)
        /\ r.enabled = se[e].enabled
    <3>1. (se[e].odd \/ se[e].enabled) \in BOOLEAN
      OBVIOUS
    <3>2. r \in SigEventType
      BY <2>1, <3>1, SigFields, ZenonT(30)
    <3> QED
      BY <2>1, <3>2 DEF SigEventType
  <2> HIDE DEF r
  <2>4. se' \in [SigEvs -> SigEventType] /\ se'[e] = r
    BY <2>2, <2>3, SigEventSet DEF SignalTypeOK
  <2>5. SignalTypeOK' /\ TablesFollow'
    BY <1>3, <2>4, KeepsTables DEF SigInitialize, SignalTypeOK, SignalRouting
  <2>6. \A f \in SigEvs \ {e} : se'[f] = se[f]
    BY <2>2 DEF SignalTypeOK
  <2>7. \A f \in SigEvs : se'[f].odd \/ Subscribed(f)'
    BY <1>3, <2>3, <2>4, <2>6 DEF SigInitialize, SignalRouting, Subscribed
  <2>8. \A f \in SigEvs : se[f].odd => se'[f].odd
    BY <2>3, <2>4, <2>6
  <2> QED
    BY <1>3, <2>5, <2>7, <2>8 DEF SigInitialize, SignalRouting
<1>4. ASSUME NEW s \in Signos, Raise(s) PROVE SignalInv'
  <2>1. /\ spipe' \in [SigLoops -> [open : BOOLEAN, buf : Seq(Signos)]]
        /\ \A l \in SigLoops : spipe'[l].open = spipe[l].open
    <3>1. ASSUME NEW l \in SigLoops
          PROVE  /\ spipe'[l] \in [open : BOOLEAN, buf : Seq(Signos)]
                 /\ spipe'[l].open = spipe[l].open
      <4>1. spipe[l] \in [open : BOOLEAN, buf : Seq(Signos)]
        BY DEF SignalTypeOK
      <4>2. spipe'[l] \in {spipe[l], [spipe[l] EXCEPT !.buf = Append(spipe[l].buf, s)]}
        BY <1>4 DEF Raise
      <4>3. Append(spipe[l].buf, s) \in Seq(Signos)
        BY <4>1
      <4> QED
        BY <4>1, <4>2, <4>3, PipeFields, ZenonT(30)
    <3>2. DOMAIN spipe' = SigLoops /\ spipe' = [l \in SigLoops |-> spipe'[l]]
      BY <1>4 DEF Raise
    <3> QED
      BY <3>1, <3>2
  <2> QED
    BY <1>4, <2>1, KeepsRouting DEF Raise, SignalTypeOK
<1>5. ASSUME NEW l \in SigLoops, OnSignal(l) PROVE SignalInv'
  <2>1. /\ spipe' \in [SigLoops -> [open : BOOLEAN, buf : Seq(Signos)]]
        /\ \A m \in SigLoops : spipe'[m].open = spipe[m].open
    <3>1. spipe' = [spipe EXCEPT ![l] = [spipe[l] EXCEPT !.buf = <<>>]]
      BY <1>5 DEF OnSignal
    <3>2. /\ [spipe[l] EXCEPT !.buf = <<>>] \in [open : BOOLEAN, buf : Seq(Signos)]
          /\ [spipe[l] EXCEPT !.buf = <<>>].open = spipe[l].open
      <4>1. spipe[l] \in [open : BOOLEAN, buf : Seq(Signos)] /\ <<>> \in Seq(Signos)
        BY DEF SignalTypeOK
      <4> QED
        BY <4>1, PipeFields
    <3> QED
      BY <3>1, <3>2 DEF SignalTypeOK
  <2>2. disp' \in [SigLoops -> DispType]
    BY <1>5 DEF OnSignal, SignalTypeOK, DispType
  <2> QED
    BY <1>5, <2>1, <2>2, KeepsRouting DEF OnSignal, SignalTypeOK
<1>6. ASSUME NEW l \in SigLoops, NextSigno(l) PROVE SignalInv'
  <2>1. disp' \in [SigLoops -> DispType]
    <3> DEFINE T == subs[l][Head(disp[l].read)]
    <3>1. disp[l] \in DispType /\ disp[l].read # <<>>
      BY <1>6 DEF NextSigno, SignalTypeOK
    <3>2. disp[l].read \in Seq(Signos) /\ Head(disp[l].read) \in Signos
          /\ Tail(disp[l].read) \in Seq(Signos)
      BY <3>1 DEF DispType
    <3>3. T \in SUBSET SigEvs
      <4>1. subs[l] \in [Signos -> SUBSET SigEvs]
        BY DEF SignalTypeOK
      <4> QED
        BY <3>2, <4>1
    <3>4. disp' = [disp EXCEPT ![l] = [[disp[l] EXCEPT !.read = Tail(@)] EXCEPT !.todo = T]]
      BY <1>6 DEF NextSigno, SignalTypeOK, DispType
    <3>5. [[disp[l] EXCEPT !.read = Tail(@)] EXCEPT !.todo = T] \in DispType
      BY <3>1, <3>2, <3>3 DEF DispType
    <3> QED
      BY <3>4, <3>5 DEF SignalTypeOK
  <2> QED
    BY <1>6, <2>1, KeepsRouting DEF NextSigno, SignalTypeOK
<1>7. ASSUME NEW l \in SigLoops, SigReturn(l) PROVE SignalInv'
  <2>1. disp' \in [SigLoops -> DispType]
    BY <1>7 DEF SigReturn, SignalTypeOK, DispType
  <2> QED
    BY <1>7, <2>1, KeepsRouting DEF SigReturn, SignalTypeOK
<1>8. ASSUME NEW l \in SigLoops, NEW e \in SigEvs, Notify(l, e) PROVE SignalInv'
  <2>1. disp' \in [SigLoops -> DispType]
    <3>1. disp[l] \in DispType
      BY DEF SignalTypeOK
    <3>2. disp' = [disp EXCEPT ![l] = [[disp[l] EXCEPT !.todo = disp[l].todo \ {e}] EXCEPT !.cb = e]]
      BY <1>8, <3>1 DEF Notify, DispType
    <3>3. [[disp[l] EXCEPT !.todo = disp[l].todo \ {e}] EXCEPT !.cb = e] \in DispType
      BY <3>1 DEF DispType
    <3> QED
      BY <3>2, <3>3 DEF SignalTypeOK
  <2>2. CASE se[e].once /\ se[e].enabled
    BY <1>8, <2>1, <2>2, UnsubscribeInv DEF Notify
  <2>3. CASE ~(se[e].once /\ se[e].enabled)
    BY <1>8, <2>1, <2>3, KeepsRouting DEF Notify, SignalTypeOK
  <2> QED
    BY <2>2, <2>3
<1>9. CASE UNCHANGED signalVars
  BY <1>9, KeepsRouting DEF signalVars, SignalTypeOK
<1> QED
  BY <1>1, <1>2, <1>3, <1>4, <1>5, <1>6, <1>7, <1>8, <1>9 DEF SignalNext

\* The process-wide table, the installed handlers and the pipes follow the subscriptions of
\* the loops, and these the events, so that the application's handlers come back, unless an event
\* was initialized while it was enabled or could not be enabled; for any loops, events and signals.
THEOREM SignalsRouted == SignalSpec => []SignalRouting
<1>1. SignalInv => SignalRouting
  BY DEF SignalInv
<1> QED
  BY <1>1, SignalInvInit, SignalInvStep, PTL DEF SignalSpec
-----------------------------------------------------------------------------
(* Timers                                                                  *)

TimerEventType == [inited : BOOLEAN, enabled : BOOLEAN, mode : {"oneshot", "persist"},
                   interval : Nat, token : Nat, due : Nat]
TimerType      == [token : Nat, owner : Events, expired : Nat, interval : Nat, repeat : {0, 1}]

TimerTypeOK ==
  /\ clock \in Nat \ {0}
  /\ ev \in [Events -> TimerEventType]
  /\ heap \in SUBSET TimerType

\* A live Timer has an enabled event, whose token, due time, interval and mode are its own.
TimerOwned ==
  \A t \in heap : LET x == ev[t.owner] IN
    /\ x.enabled /\ t.token = x.token /\ t.expired = x.due
    /\ t.interval = x.interval /\ (t.repeat = 1 <=> x.mode = "oneshot")

\* Tokens and owners identify live Timers; 0, which deleteTimer() writes, is before any expiry.
TimerUnique ==
  /\ \A t, u \in heap : t.token = u.token \/ t.owner = u.owner => t = u
  /\ \A t \in heap : t.expired > 0

\* An enabled event was initialized and has a live Timer.
TimerHeld ==
  \A e \in Events : ev[e].enabled => ev[e].inited /\ \E t \in heap : t.owner = e

TimerInv == TimerTypeOK /\ TimerOwned /\ TimerUnique /\ TimerHeld

\* A set of naturals that is not empty has a least element.
LEMMA LeastNat ==
  ASSUME NEW T, T \subseteq Nat, T # {}
  PROVE  \E k \in T : \A j \in T : k <= j
<1> DEFINE R == OpToRel(<, Nat)
<1>1. PICK k \in T : \A j \in T : ~(<<j, k>> \in R)
  BY WFMin, NatLessThanWellFounded, Zenon
<1>2. \A j \in T : ~(j < k)
  BY <1>1 DEF OpToRel
<1> QED
  BY <1>2

\* There is a token that no live Timer has: more tokens than events, and each event holds
\* at most one.
LEMMA TokenLeft ==
  ASSUME TimerInv
  PROVE  NextToken \in Nat /\ \A t \in heap : t.token # NextToken
<1> DEFINE f == [e \in Events |-> ev[e].token]
<1>1. FreshTokens # {}
  <2> SUFFICES ASSUME FreshTokens = {} PROVE FALSE
    OBVIOUS
  <2>1. \A k \in Tokens : \E t \in heap : t.token = k
    BY DEF FreshTokens
  <2>2. \A t \in heap : t.owner \in Events /\ f[t.owner] = t.token
    BY DEF TimerInv, TimerTypeOK, TimerType, TimerOwned
  <2>3. Cardinality(Events) \in Nat
    BY TimerAssumption, FS_CardinalityType
  <2>4. PICK D \in SUBSET Events : D = {e \in Events : f[e] \in Tokens}
    OBVIOUS
  <2>5. IsFiniteSet(D) /\ Cardinality(D) <= Cardinality(Events)
    BY TimerAssumption, FS_Subset
  <2>6. PICK g \in [D -> Tokens] : \A e \in D : g[e] = f[e]
    <3>1. [e \in D |-> f[e]] \in [D -> Tokens]
      BY <2>4
    <3> QED
      BY <3>1
  <2>7. g \in Surjection(D, Tokens)
    <3>1. ASSUME NEW k \in Tokens PROVE \E e \in D : g[e] = k
      <4>1. PICK t \in heap : t.token = k
        BY <2>1
      <4>2. t.owner \in D /\ g[t.owner] = k
        BY <2>2, <2>4, <2>6, <4>1
      <4> QED
        BY <4>2
    <3> QED
      BY <3>1 DEF Surjection
  <2>8. Cardinality(Tokens) <= Cardinality(D)
    BY <2>5, <2>7, FS_Surjection
  <2>9. Cardinality(Tokens) = Cardinality(Events) + 1
    BY <2>3, FS_Interval DEF Tokens
  <2>10. Cardinality(D) \in Nat
    BY <2>5, FS_CardinalityType
  <2> QED
    BY <2>3, <2>5, <2>8, <2>9, <2>10
<1>2. FreshTokens \subseteq Nat
  <2>1. Cardinality(Events) \in Nat
    BY TimerAssumption, FS_CardinalityType
  <2> QED
    BY <2>1 DEF FreshTokens, Tokens
<1>3. \E k \in FreshTokens : \A j \in FreshTokens : k <= j
  BY <1>1, <1>2, LeastNat
<1>4. NextToken \in FreshTokens
  BY <1>3 DEF NextToken
<1> QED
  BY <1>2, <1>4 DEF FreshTokens

\* Once one Timer expires at 0 and the others later, the front of the heap is that one.
LEMMA ZeroedFront ==
  ASSUME NEW H, NEW o \in H, NEW z, NEW Z, \A y : y \in Z <=> y = z \/ (y \in H /\ y # o),
         z.expired = 0, \A t \in H : t.expired \in Nat /\ t.expired > 0
  PROVE  Z \ {CHOOSE f \in Fronts(Z) : TRUE} = {t \in H : t # o}
<1>1. z \notin H
  BY SMT
<1>2. z \in Fronts(Z)
  BY SMT DEF Fronts
<1>3. \A f \in Fronts(Z) : f = z
  <2> SUFFICES ASSUME NEW f \in Fronts(Z), f # z PROVE FALSE
    OBVIOUS
  <2>1. f \in H /\ f.expired <= z.expired
    BY Zenon DEF Fronts
  <2> QED
    BY <2>1, SMT
<1>4. (CHOOSE f \in Fronts(Z) : TRUE) = z
  BY <1>2, <1>3
<1> QED
  BY <1>1, <1>4, Zenon

\* deleteTimer() removes the Timer of this event and no other: with its expiry at 0 it is
\* the only front of the rebuilt heap.
LEMMA HeapLessIs ==
  ASSUME TimerInv, NEW e \in Events
  PROVE  HeapLess(e) = {t \in heap : t.owner # e}
<1>1. CASE ev[e].enabled
  <2>1. PICK o \in heap : o.owner = e
    BY <1>1 DEF TimerInv, TimerHeld
  <2>2. o.token = ev[e].token
    BY <2>1 DEF TimerInv, TimerOwned
  <2> DEFINE Z(t) == IF t.token = ev[e].token THEN [t EXCEPT !.expired = 0] ELSE t
             z == [o EXCEPT !.expired = 0]
             zeroed == {Z(t) : t \in heap}
  <2>3. \A t \in heap : t.token = ev[e].token <=> t = o
    BY <2>2 DEF TimerInv, TimerUnique
  <2>4. \A t \in heap : t.owner = e <=> t = o
    BY <2>1 DEF TimerInv, TimerUnique
  <2>5. \A y : y \in zeroed <=> y = z \/ (y \in heap /\ y # o)
    <3>1. \A y : y \in zeroed <=> \E t \in heap : y = Z(t)
      BY Zenon
    <3>2. Z(o) = z /\ \A t \in heap : t # o => Z(t) = t
      BY <2>3
    <3> HIDE DEF Z, z, zeroed
    <3>3. ASSUME NEW y, y \in zeroed PROVE y = z \/ (y \in heap /\ y # o)
      <4>1. PICK t \in heap : y = Z(t)
        BY <3>1, <3>3
      <4>2. CASE t = o
        BY <3>2, <4>1, <4>2
      <4>3. CASE t # o
        BY <3>2, <4>1, <4>3
      <4> QED
        BY <4>2, <4>3
    <3>4. ASSUME NEW y, y = z \/ (y \in heap /\ y # o) PROVE y \in zeroed
      <4>1. z \in zeroed
        BY <2>1, <3>1, <3>2, Zenon
      <4>2. ASSUME y \in heap, y # o PROVE y \in zeroed
        BY <3>1, <3>2, <4>2, Zenon
      <4> QED
        BY <3>4, <4>1, <4>2, Zenon
    <3> QED
      BY <3>3, <3>4, Zenon
  <2>6. z.expired = 0 /\ \A t \in heap : t.expired \in Nat /\ t.expired > 0
    BY DEF TimerInv, TimerTypeOK, TimerType, TimerUnique
  <2>7. HeapLess(e) = zeroed \ {CHOOSE f \in Fronts(zeroed) : TRUE}
    <3>1. TimerArmed(e) /\ \E t \in heap : t.token = ev[e].token
      BY <1>1, <2>2 DEF TimerArmed, TimerInv, TimerHeld
    <3> QED
      BY <3>1 DEF HeapLess, deleteTimer
  <2> HIDE DEF Z, z, zeroed
  <2>8. HeapLess(e) = {t \in heap : t # o}
    BY <2>5, <2>6, <2>7, ZeroedFront
  <2> QED
    BY <2>4, <2>8
<1>2. CASE ~ev[e].enabled
  <2>1. HeapLess(e) = heap
    BY <1>2 DEF HeapLess, TimerArmed
  <2>2. \A t \in heap : t.owner # e
    BY <1>2 DEF TimerInv, TimerOwned
  <2> QED
    BY <2>1, <2>2
<1> QED
  BY <1>1, <1>2

\* An event that is disabled, initialized again or deleted leaves with its Timer.
LEMMA TimerRemoved ==
  ASSUME TimerInv, NEW e \in Events, NEW x \in TimerEventType, ~x.enabled,
         heap' = HeapLess(e), ev' = [ev EXCEPT ![e] = x], clock' = clock
  PROVE  TimerInv'
<1>1. heap' = {t \in heap : t.owner # e}
  BY HeapLessIs
<1>2. /\ ev' \in [Events -> TimerEventType] /\ ev'[e] = x
      /\ \A d \in Events : d # e => ev'[d] = ev[d]
  BY DEF TimerInv, TimerTypeOK
<1>3. TimerTypeOK'
  BY <1>1, <1>2 DEF TimerInv, TimerTypeOK
<1>4. \A t \in heap' : t \in heap /\ t.owner \in Events /\ ev'[t.owner] = ev[t.owner]
  BY <1>1, <1>2 DEF TimerInv, TimerTypeOK, TimerType
<1>5. TimerOwned'
  BY <1>4 DEF TimerInv, TimerOwned
<1>6. TimerUnique'
  BY <1>4 DEF TimerInv, TimerUnique
<1>7. TimerHeld'
  <2> SUFFICES ASSUME NEW d \in Events, ev'[d].enabled
               PROVE  ev'[d].inited /\ \E t \in heap' : t.owner = d
    BY DEF TimerHeld
  <2>1. d # e /\ ev'[d] = ev[d]
    BY <1>2
  <2> QED
    BY <1>1, <2>1 DEF TimerInv, TimerHeld
<1> QED
  BY <1>3, <1>5, <1>6, <1>7 DEF TimerInv

\* An event that is enabled gets a Timer with a token of its own.
LEMMA TimerAdded ==
  ASSUME TimerInv, NEW e \in Events, NEW x \in TimerEventType, x.inited,
         NEW h, h = {t \in heap : t.owner # e},
         heap' = addTimer(h, e, x), ev' = [ev EXCEPT ![e] = TimerEnabled(x)], clock' = clock
  PROVE  TimerInv'
<1> DEFINE u == [token |-> NextToken, owner |-> e, expired |-> clock + x.interval,
                 interval |-> x.interval, repeat |-> IF x.mode = "oneshot" THEN 1 ELSE 0]
<1>1. heap' = h \cup {u}
  BY DEF addTimer
<1>2. /\ clock \in Nat \ {0} /\ x.interval \in Nat /\ NextToken \in Nat
      /\ \A t \in heap : t.token # NextToken
  BY TokenLeft DEF TimerInv, TimerTypeOK, TimerEventType
<1>3. /\ u \in TimerType /\ u.token = NextToken /\ u.owner = e /\ u.expired = clock + x.interval
      /\ u.expired > 0 /\ u.interval = x.interval
      /\ (u.repeat = 1 <=> x.mode = "oneshot")
  BY <1>2 DEF TimerType
<1>4. /\ TimerEnabled(x) \in TimerEventType /\ TimerEnabled(x).enabled
      /\ TimerEnabled(x).inited /\ TimerEnabled(x).token = NextToken
      /\ TimerEnabled(x).due = clock + x.interval /\ TimerEnabled(x).interval = x.interval
      /\ TimerEnabled(x).mode = x.mode
  <2>1. TimerEnabled(x) \in TimerEventType
    <3>1. PICK k \in Nat, d \in Nat : k = NextToken /\ d = clock + x.interval
      BY <1>2
    <3>2. [x EXCEPT !.enabled = TRUE, !.token = k, !.due = d] \in TimerEventType
      BY DEF TimerEventType
    <3> QED
      BY <3>1, <3>2 DEF TimerEnabled
  <2>2. TimerEnabled(x).enabled
    BY DEF TimerEnabled, TimerEventType
  <2>3. TimerEnabled(x).inited
    BY DEF TimerEnabled, TimerEventType
  <2>4. /\ TimerEnabled(x).token = NextToken /\ TimerEnabled(x).due = clock + x.interval
        /\ TimerEnabled(x).interval = x.interval /\ TimerEnabled(x).mode = x.mode
    BY DEF TimerEnabled, TimerEventType
  <2> QED
    BY <2>1, <2>2, <2>3, <2>4
<1>5. /\ ev' \in [Events -> TimerEventType] /\ ev'[e] = TimerEnabled(x)
      /\ \A d \in Events : d # e => ev'[d] = ev[d]
  BY <1>4 DEF TimerInv, TimerTypeOK
<1> HIDE DEF u
<1>6. TimerTypeOK'
  BY <1>1, <1>3, <1>5 DEF TimerInv, TimerTypeOK
<1>7. \A t \in h : t \in heap /\ t.owner \in Events /\ t.owner # e /\ ev'[t.owner] = ev[t.owner]
  BY <1>5 DEF TimerInv, TimerTypeOK, TimerType
<1>8. TimerOwned'
  <2> SUFFICES ASSUME NEW t \in heap'
               PROVE  /\ ev'[t.owner].enabled /\ t.token = ev'[t.owner].token
                      /\ t.expired = ev'[t.owner].due /\ t.interval = ev'[t.owner].interval
                      /\ (t.repeat = 1 <=> ev'[t.owner].mode = "oneshot")
    BY DEF TimerOwned
  <2>1. CASE t = u
    BY <1>3, <1>4, <1>5, <2>1
  <2>2. CASE t \in h
    BY <1>7, <2>2 DEF TimerInv, TimerOwned
  <2> QED
    BY <1>1, <2>1, <2>2
<1>9. TimerUnique'
  <2>1. \A t \in heap' : t.expired > 0
    BY <1>1, <1>3, <1>7 DEF TimerInv, TimerUnique
  <2>2. ASSUME NEW t \in heap', NEW v \in heap', t.token = v.token \/ t.owner = v.owner
        PROVE  t = v
    <3>1. CASE t \in h /\ v \in h
      BY <1>7, <2>2, <3>1 DEF TimerInv, TimerUnique
    <3>2. CASE t \in h /\ v = u
      BY <1>2, <1>3, <1>7, <2>2, <3>2
    <3>3. CASE t = u /\ v \in h
      BY <1>2, <1>3, <1>7, <2>2, <3>3
    <3> QED
      BY <1>1, <3>1, <3>2, <3>3
  <2> QED
    BY <2>1, <2>2 DEF TimerUnique
<1>10. TimerHeld'
  <2> SUFFICES ASSUME NEW d \in Events, ev'[d].enabled
               PROVE  ev'[d].inited /\ \E t \in heap' : t.owner = d
    BY DEF TimerHeld
  <2>1. CASE d = e
    BY <1>1, <1>3, <1>4, <1>5, <2>1
  <2>2. CASE d # e
    <3>1. ev'[d] = ev[d]
      BY <1>5, <2>2
    <3>2. ev[d].inited /\ \E t \in heap : t.owner = d
      BY <3>1 DEF TimerInv, TimerHeld
    <3> QED
      BY <1>1, <2>2, <3>1, <3>2
  <2> QED
    BY <2>1, <2>2
<1> QED
  BY <1>6, <1>8, <1>9, <1>10 DEF TimerInv

\* What disable(), initialize() and the constructor leave is a disabled event.
LEMMA TimerOffIs ==
  /\ \A x \in TimerEventType : TimerOff(x) \in TimerEventType /\ ~TimerOff(x).enabled
  /\ \A x \in TimerEventType, i \in Nat, m \in {"oneshot", "persist"} :
       LET y == [TimerOff(x) EXCEPT !.inited = TRUE, !.interval = i, !.mode = m]
       IN y \in TimerEventType /\ ~y.enabled
  /\ NewEvent \in TimerEventType /\ ~NewEvent.enabled
<1>1. ASSUME NEW x \in TimerEventType
      PROVE  TimerOff(x) \in TimerEventType /\ ~TimerOff(x).enabled
  BY DEF TimerOff, TimerEventType, NoToken
<1>2. ASSUME NEW y \in TimerEventType, ~y.enabled, NEW i \in Nat, NEW m \in {"oneshot", "persist"}
      PROVE  /\ [y EXCEPT !.inited = TRUE, !.interval = i, !.mode = m] \in TimerEventType
             /\ ~[y EXCEPT !.inited = TRUE, !.interval = i, !.mode = m].enabled
  BY <1>2 DEF TimerEventType
<1>3. NewEvent \in TimerEventType /\ ~NewEvent.enabled
  BY DEF NewEvent, TimerEventType, NoToken
<1> QED
  BY <1>1, <1>2, <1>3

\* exitLoop() with a wait time: the new event is set up before it is enabled.
LEMMA ExitEventIs ==
  ASSUME NEW i \in Nat
  PROVE  /\ [NewEvent EXCEPT !.inited = TRUE, !.interval = i] \in TimerEventType
         /\ [NewEvent EXCEPT !.inited = TRUE, !.interval = i].inited
<1>1. PICK y \in TimerEventType : y = NewEvent
  BY TimerOffIs
<1>2. [y EXCEPT !.inited = TRUE, !.interval = i] \in TimerEventType
  BY DEF TimerEventType
<1>3. [y EXCEPT !.inited = TRUE, !.interval = i].inited
  BY DEF TimerEventType
<1> QED
  BY <1>1, <1>2, <1>3

\* What initialize() and exitLoop() are given are naturals.
LEMMA TimerConfigs ==
  /\ \A c \in Configs : c[1] \in Nat /\ c[2] \in {"oneshot", "persist"}
  /\ \A i \in ExitWaits : i \in Nat
<1>1. \A i \in 1..(2^(IntBits - 1) - 1) : i \in Nat
  OBVIOUS
<1> QED
  BY <1>1, TimerAssumption

\* A Timer that expires: its event is disabled with it, or both move to the next instant.
LEMMA TimerExpired ==
  ASSUME TimerInv, NEW t \in heap, Expire(t)
  PROVE  TimerInv'
<1> DEFINE e == t.owner
           u == [t EXCEPT !.expired = t.expired + t.interval]
<1>1. /\ e \in Events /\ t.expired \in Nat /\ t.interval \in Nat /\ t.token \in Nat
      /\ ev[e] \in TimerEventType /\ t \in TimerType
  BY DEF TimerInv, TimerTypeOK, TimerType
<1>2. /\ ev[e].enabled /\ t.token = ev[e].token /\ t.expired = ev[e].due
      /\ t.interval = ev[e].interval /\ (t.repeat = 1 <=> ev[e].mode = "oneshot")
  BY DEF TimerInv, TimerOwned
<1>3. \A v \in heap : v.owner = e <=> v = t
  BY DEF TimerInv, TimerUnique
<1>4. CASE t.repeat = 1
  <2>1. heap' = heap \ {t} /\ ev' = [ev EXCEPT ![e] = TimerOff(ev[e])] /\ clock' = clock
    BY <1>2, <1>4 DEF Expire
  <2>2. heap \ {t} = {v \in heap : v.owner # e}
    BY <1>3
  <2>3. heap' = HeapLess(e)
    BY <1>1, <2>1, <2>2, HeapLessIs
  <2> QED
    BY <1>1, <2>1, <2>3, TimerOffIs, TimerRemoved
<1>5. CASE t.repeat # 1
  <2>1. /\ heap' = (heap \ {t}) \cup {u} /\ clock' = clock
        /\ ev' = [ev EXCEPT ![e] = [ev[e] EXCEPT !.due = ev[e].due + ev[e].interval]]
    BY <1>2, <1>5 DEF Expire
  <2>2. /\ u \in TimerType /\ u.owner = e /\ u.token = t.token
        /\ u.expired = t.expired + t.interval /\ u.interval = t.interval
        /\ u.repeat = t.repeat
    BY <1>1 DEF TimerType
  <2> DEFINE x == [ev[e] EXCEPT !.due = ev[e].due + ev[e].interval]
  <2>3. /\ x \in TimerEventType /\ (x.enabled <=> ev[e].enabled) /\ (x.inited <=> ev[e].inited)
        /\ x.token = ev[e].token /\ x.due = ev[e].due + ev[e].interval
        /\ x.interval = ev[e].interval /\ x.mode = ev[e].mode
    <3>1. PICK y \in TimerEventType : y = ev[e]
      BY <1>1
    <3>2. PICK d \in Nat : d = y.due + y.interval
      BY DEF TimerEventType
    <3>3. [y EXCEPT !.due = d] \in TimerEventType
      BY DEF TimerEventType
    <3>4. ([y EXCEPT !.due = d].enabled <=> y.enabled) /\ ([y EXCEPT !.due = d].inited <=> y.inited)
      BY DEF TimerEventType
    <3>5. /\ [y EXCEPT !.due = d].token = y.token /\ [y EXCEPT !.due = d].due = d
          /\ [y EXCEPT !.due = d].interval = y.interval /\ [y EXCEPT !.due = d].mode = y.mode
      BY DEF TimerEventType
    <3> QED
      BY <3>1, <3>2, <3>3, <3>4, <3>5
  <2> HIDE DEF x, u
  <2>4. /\ ev' \in [Events -> TimerEventType] /\ ev'[e] = x
        /\ \A d \in Events : d # e => ev'[d] = ev[d]
    BY <1>1, <2>1, <2>3 DEF TimerInv, TimerTypeOK, x
  <2>5. TimerTypeOK'
    BY <2>1, <2>2, <2>4 DEF TimerInv, TimerTypeOK
  <2>6. \A v \in heap \ {t} : v.owner \in Events /\ v.owner # e /\ ev'[v.owner] = ev[v.owner]
    BY <1>3, <2>4 DEF TimerInv, TimerTypeOK, TimerType
  <2>7. TimerOwned'
    <3> SUFFICES ASSUME NEW v \in heap'
                 PROVE  /\ ev'[v.owner].enabled /\ v.token = ev'[v.owner].token
                        /\ v.expired = ev'[v.owner].due /\ v.interval = ev'[v.owner].interval
                        /\ (v.repeat = 1 <=> ev'[v.owner].mode = "oneshot")
      BY DEF TimerOwned
    <3>1. CASE v = u
      BY <1>2, <2>2, <2>3, <2>4, <3>1
    <3>2. CASE v \in heap \ {t}
      BY <2>6, <3>2 DEF TimerInv, TimerOwned
    <3> QED
      BY <2>1, <3>1, <3>2
  <2>8. TimerUnique'
    <3>1. \A v \in heap' : v.expired > 0
      BY <1>1, <2>1, <2>2 DEF TimerInv, TimerUnique
    <3>2. \A v \in heap \ {t} : v.token # u.token /\ v.owner # u.owner
      BY <2>2 DEF TimerInv, TimerUnique
    <3>3. ASSUME NEW v \in heap', NEW w \in heap', v.token = w.token \/ v.owner = w.owner
          PROVE  v = w
      <4>1. CASE v \in heap \ {t} /\ w \in heap \ {t}
        BY <3>3, <4>1 DEF TimerInv, TimerUnique
      <4>2. CASE v = u \/ w = u
        BY <2>1, <3>2, <3>3, <4>2
      <4> QED
        BY <2>1, <4>1, <4>2
    <3> QED
      BY <3>1, <3>3 DEF TimerUnique
  <2>9. TimerHeld'
    <3> SUFFICES ASSUME NEW d \in Events, ev'[d].enabled
                 PROVE  ev'[d].inited /\ \E v \in heap' : v.owner = d
      BY DEF TimerHeld
    <3>1. CASE d = e
      BY <1>1, <1>2, <2>1, <2>2, <2>3, <2>4, <3>1 DEF TimerInv, TimerHeld
    <3>2. CASE d # e
      <4>1. ev'[d] = ev[d]
        BY <2>4, <3>2
      <4>2. ev[d].inited /\ \E v \in heap : v.owner = d
        BY <4>1 DEF TimerInv, TimerHeld
      <4> QED
        BY <2>1, <3>2, <4>1, <4>2
    <3> QED
      BY <3>1, <3>2
  <2> QED
    BY <2>5, <2>7, <2>8, <2>9 DEF TimerInv
<1> QED
  BY <1>4, <1>5

\* A loop without timers satisfies the invariant.
LEMMA TimerInvInit == TimerInit => TimerInv
<1> SUFFICES ASSUME TimerInit PROVE TimerInv
  OBVIOUS
<1>1. clock = 1 /\ heap = {} /\ ev \in [Events -> TimerEventType] /\ \A e \in Events : ev[e] = NewEvent
  BY TimerOffIs DEF TimerInit
<1> QED
  <2>1. \A e \in Events : ~ev[e].enabled
    BY <1>1, TimerOffIs
  <2>2. TimerTypeOK
    BY <1>1 DEF TimerTypeOK
  <2>3. TimerOwned /\ TimerUnique /\ TimerHeld
    BY <1>1, <2>1 DEF TimerOwned, TimerUnique, TimerHeld
  <2> QED
    BY <2>2, <2>3 DEF TimerInv

\* User operations, the passes of the loop and the clock keep the invariant.
LEMMA TimerInvStep == TimerInv /\ [TimerNext]_timerVars => TimerInv'
<1> SUFFICES ASSUME TimerInv, [TimerNext]_timerVars PROVE TimerInv'
  OBVIOUS
<1>0. /\ \A e \in Events : ev[e] \in TimerEventType /\ TimerOff(ev[e]) \in TimerEventType
                           /\ ~TimerOff(ev[e]).enabled
      /\ Users \subseteq Events /\ ExitEvent \in Events
  BY TimerOffIs, TimerAssumption DEF TimerInv, TimerTypeOK, Users
<1>1. ASSUME NEW e \in Users, TimerDisable(e) PROVE TimerInv'
  BY <1>0, <1>1, TimerRemoved DEF TimerDisable
<1>2. ASSUME NEW e \in Users, TimerDelete(e) PROVE TimerInv'
  BY <1>0, <1>2, TimerRemoved, TimerOffIs DEF TimerDelete
<1>3. ASSUME NEW e \in Users, TimerEnable(e) PROVE TimerInv'
  <2>1. e \in Events /\ ~ev[e].enabled /\ ev[e].inited
    BY <1>0, <1>3 DEF TimerEnable
  <2>2. heap = {t \in heap : t.owner # e}
    BY <2>1 DEF TimerInv, TimerOwned
  <2> QED
    BY <1>0, <1>3, <2>1, <2>2, TimerAdded DEF TimerEnable
<1>4. ASSUME NEW e \in Users, NEW c \in Configs, TimerInitialize(e, c[1], c[2]) PROVE TimerInv'
  <2>1. PICK i \in Nat, m \in {"oneshot", "persist"} : TimerInitialize(e, i, m)
    BY <1>4, TimerConfigs
  <2> DEFINE y == [TimerOff(ev[e]) EXCEPT !.inited = TRUE, !.interval = i, !.mode = m]
  <2>2. e \in Events /\ y \in TimerEventType /\ ~y.enabled
    BY <1>0, TimerOffIs
  <2>3. heap' = HeapLess(e) /\ clock' = clock /\ ev' = [ev EXCEPT ![e] = y]
    BY <2>1 DEF TimerInitialize
  <2> HIDE DEF y
  <2> QED
    BY <2>2, <2>3, TimerRemoved
<1>5. CASE ExitNow
  BY <1>0, <1>5, TimerRemoved, TimerOffIs DEF ExitNow
<1>6. ASSUME NEW i \in ExitWaits, ExitLater(i) PROVE TimerInv'
  <2> DEFINE x == [NewEvent EXCEPT !.inited = TRUE, !.interval = i]
  <2>1. x \in TimerEventType /\ x.inited
    BY TimerConfigs, ExitEventIs
  <2>2. HeapLess(ExitEvent) = {t \in heap : t.owner # ExitEvent}
    BY <1>0, HeapLessIs
  <2>3. /\ heap' = addTimer(HeapLess(ExitEvent), ExitEvent, x) /\ clock' = clock
        /\ ev' = [ev EXCEPT ![ExitEvent] = TimerEnabled(x)]
    BY <1>6 DEF ExitLater
  <2> HIDE DEF x
  <2> QED
    BY <1>0, <2>1, <2>2, <2>3, TimerAdded
<1>7. ASSUME NEW t \in heap, Expire(t) PROVE TimerInv'
  BY <1>7, TimerExpired
<1>8. CASE TimerTick
  <2>1. clock' = clock + 1 /\ UNCHANGED <<ev, heap>>
    BY <1>8 DEF TimerTick
  <2> QED
    BY <2>1 DEF TimerInv, TimerTypeOK, TimerOwned, TimerUnique, TimerHeld
<1>9. ASSUME UNCHANGED <<clock, ev, heap>> PROVE TimerInv'
  BY <1>9 DEF TimerInv, TimerTypeOK, TimerOwned, TimerUnique, TimerHeld
<1>10. CASE \/ TimerWake \/ TimerReturn \/ TimerOthers \/ TimerEndIteration
            \/ \E b \in BOOLEAN : TimerStart(b)
  BY <1>9, <1>10 DEF TimerWake, TimerReturn, TimerOthers, TimerEndIteration, TimerStart
<1>11. CASE UNCHANGED timerVars
  BY <1>9, <1>11 DEF timerVars
<1> QED
  BY <1>1, <1>2, <1>3, <1>4, <1>5, <1>6, <1>7, <1>8, <1>10, <1>11
     DEF TimerNext, TimerUserOp, TimerLoopStep, TimerTimeout, TimerReady

\* An event is enabled exactly when one live Timer is its own, with its token and its due
\* time, whatever callbacks delete, re-arm or re-initialize.
THEOREM TimersQueued == TimerSpec => []TimerQueued
<1>1. TimerInv => TimerQueued
  <2> SUFFICES ASSUME TimerInv, NEW e \in Events, NEW own, own = {t \in heap : t.owner = e}
               PROVE  IF ev[e].enabled
                      THEN /\ Cardinality(own) = 1
                           /\ \A t \in own : t.token = ev[e].token /\ t.expired = ev[e].due
                      ELSE own = {}
    BY DEF TimerQueued
  <2>1. CASE ev[e].enabled
    <3>1. PICK t \in heap : t.owner = e
      BY <2>1 DEF TimerInv, TimerHeld
    <3>2. own = {t}
      BY <3>1 DEF TimerInv, TimerUnique
    <3>3. Cardinality(own) = 1
      BY <3>2, FS_Singleton
    <3>4. \A u \in own : u.token = ev[e].token /\ u.expired = ev[e].due
      BY DEF TimerInv, TimerOwned
    <3> QED
      BY <2>1, <3>3, <3>4
  <2>2. CASE ~ev[e].enabled
    BY <2>2 DEF TimerInv, TimerOwned
  <2> QED
    BY <2>1, <2>2
<1> QED
  BY <1>1, TimerInvInit, TimerInvStep, PTL DEF TimerSpec

-----------------------------------------------------------------------------
(* Descriptors                                                             *)

FdEventType == [fd : Fds \cup {NoFd}, events : SUBSET FdKinds, once : BOOLEAN, enabled : BOOLEAN]
FdDataType  == [ref : Nat, num : [FdKinds -> Nat], list : Seq(FdEvs), mask : SUBSET FdKinds]

BatchType   == [fd : Fds, kinds : SUBSET (FdKinds \cup {"hup"})]
CallType    == [rest : Seq(FdEvs), kinds : SUBSET (FdKinds \cup {"hup"}), cb : FdEvs \cup {"none"}]

FdTypeOK ==
  /\ fe \in [FdEvs -> FdEventType] /\ data \in [Fds -> FdDataType]
  /\ kernel \in [Fds -> SUBSET FdKinds]
  /\ batch \in Seq(BatchType) /\ call \in CallType

\* The events that refer to a descriptor, those that are enabled, and those that watch a kind.
Refs(f)     == {e \in FdEvs : fe[e].fd = f}
On(f)       == {e \in FdEvs : fe[e].fd = f /\ fe[e].enabled}
Watch(f, k) == {e \in FdEvs : fe[e].fd = f /\ fe[e].enabled /\ k \in fe[e].events}

\* The counters count, the mask is what epoll watches, the list holds the enabled events.
FdCounted ==
  \A f \in Fds :
    /\ data[f].ref = Cardinality(Refs(f))
    /\ \A k \in FdKinds : data[f].num[k] = Cardinality(Watch(f, k))
    /\ data[f].mask = kernel[f] /\ kernel[f] = {k \in FdKinds : data[f].num[k] > 0}
    /\ ToSet(data[f].list) = On(f) /\ IsInjective(data[f].list)

\* An enabled event has a descriptor.
FdInUse == \A e \in FdEvs : fe[e].enabled => fe[e].fd # NoFd

FdInv == FdTypeOK /\ FdCounted /\ FdInUse

\* Erasing an element from a list without duplicates leaves the others, once each.
LEMMA Erased ==
  ASSUME NEW s \in Seq(FdEvs), IsInjective(s), NEW e \in ToSet(s)
  PROVE  /\ eraseFirst(s, e) \in Seq(FdEvs) /\ IsInjective(eraseFirst(s, e))
         /\ ToSet(eraseFirst(s, e)) = ToSet(s) \ {e}
<1>1. PICK i \in 1..Len(s) : s[i] = e
  BY DEF ToSet
<1>2. \A j \in 1..(i - 1) : s[j] # e
  BY <1>1 DEF IsInjective
<1> DEFINE P(k) == s[k] = e /\ \A j \in 1..(k - 1) : s[j] # e
<1>3. \A k \in 1..Len(s) : P(k) => k = i
  BY <1>1 DEF IsInjective
<1>4. (CHOOSE k \in 1..Len(s) : P(k)) = i
  BY <1>1, <1>2, <1>3
<1>5. eraseFirst(s, e) = RemoveAt(s, i)
  BY <1>4 DEF eraseFirst
<1> HIDE DEF P
<1>a. SubSeq(s, 1, i - 1) \in Seq(FdEvs) /\ SubSeq(s, i + 1, Len(s)) \in Seq(FdEvs)
  BY <1>1
<1>6. PICK a \in Seq(FdEvs) : a = SubSeq(s, 1, i - 1)
  BY <1>a
<1>7. PICK b \in Seq(FdEvs) : b = SubSeq(s, i + 1, Len(s))
  BY <1>a
<1>8. Len(a) = i - 1 /\ \A k \in 1..(i - 1) : a[k] = s[k]
  BY <1>1, <1>6
<1>9. Len(b) = Len(s) - i /\ \A k \in 1..(Len(s) - i) : b[k] = s[k + i]
  BY <1>1, <1>7
<1>b. a \o b \in Seq(FdEvs)
  OBVIOUS
<1>10. PICK t \in Seq(FdEvs) : t = a \o b
  BY <1>b
<1>11. /\ Len(t) = Len(s) - 1
       /\ \A k \in 1..(i - 1) : t[k] = s[k]
       /\ \A k \in i..(Len(s) - 1) : t[k] = s[k + 1]
  <2>1. Len(t) = Len(s) - 1
    BY <1>8, <1>9, <1>10
  <2>2. \A k \in 1..(i - 1) : t[k] = s[k]
    BY <1>1, <1>8, <1>9, <1>10
  <2>3. ASSUME NEW k \in i..(Len(s) - 1) PROVE t[k] = s[k + 1]
    <3>1. t[k] = b[k - (i - 1)]
      BY <1>1, <1>8, <1>9, <1>10
    <3>2. k - (i - 1) \in 1..(Len(s) - i) /\ k - (i - 1) + i = k + 1
      BY <1>1
    <3> QED
      BY <3>1, <3>2, <1>9
  <2> QED
    BY <2>1, <2>2, <2>3
<1>12. \A k \in 1..Len(t) : t[k] = s[IF k < i THEN k ELSE k + 1]
  BY <1>1, <1>11
<1>13. IsInjective(t)
  <2> SUFFICES ASSUME NEW p \in 1..Len(t), NEW q \in 1..Len(t), t[p] = t[q] PROVE p = q
    BY DEF IsInjective
  <2>1. \A m, n \in 1..Len(s) : s[m] = s[n] => m = n
    BY DEF IsInjective
  <2> DEFINE at(k) == IF k < i THEN k ELSE k + 1
  <2>2. at(p) \in 1..Len(s) /\ at(q) \in 1..Len(s)
    BY <1>1, <1>11
  <2>3. s[at(p)] = s[at(q)]
    BY <1>12
  <2>4. at(p) = at(q)
    BY <2>1, <2>2, <2>3
  <2> QED
    BY <2>4, <1>1
<1>14. ToSet(t) = ToSet(s) \ {e}
  <2>1. \A m, n \in 1..Len(s) : s[m] = s[n] => m = n
    BY DEF IsInjective
  <2>2. ASSUME NEW k \in 1..Len(t) PROVE t[k] \in ToSet(s) \ {e}
    <3> DEFINE n == IF k < i THEN k ELSE k + 1
    <3>1. n \in 1..Len(s) /\ n # i
      BY <1>1, <1>11
    <3>2. t[k] = s[n]
      BY <1>12
    <3> QED
      BY <3>1, <3>2, <2>1, <1>1 DEF ToSet
  <2>3. ASSUME NEW n \in 1..Len(s), s[n] # e PROVE \E k \in 1..Len(t) : t[k] = s[n]
    <3>1. CASE n < i
      <4>1. n \in 1..(i - 1) /\ n \in 1..Len(t)
        BY <3>1, <1>1, <1>11
      <4> QED
        BY <4>1, <1>11
    <3>2. CASE n > i
      <4>1. n - 1 \in i..(Len(s) - 1) /\ n - 1 \in 1..Len(t) /\ (n - 1) + 1 = n
        BY <3>2, <1>1, <1>11
      <4>2. t[n - 1] = s[(n - 1) + 1]
        BY <4>1, <1>11
      <4> QED
        BY <4>1, <4>2
    <3> QED
      BY <3>1, <3>2, <2>3, <1>1
  <2>4. ASSUME NEW x \in ToSet(t) PROVE x \in ToSet(s) \ {e}
    <3>1. PICK k \in 1..Len(t) : t[k] = x
      BY DEF ToSet
    <3> QED
      BY <3>1, <2>2
  <2>5. ASSUME NEW x \in ToSet(s) \ {e} PROVE x \in ToSet(t)
    <3>1. PICK n \in 1..Len(s) : s[n] = x
      BY DEF ToSet
    <3>2. PICK k \in 1..Len(t) : t[k] = x
      BY <3>1, <2>3
    <3> QED
      BY <3>2 DEF ToSet
  <2> QED
    BY <2>4, <2>5
<1> QED
  BY <1>5, <1>6, <1>7, <1>10, <1>13, <1>14 DEF RemoveAt

\* Appending an element that is not in the list.
LEMMA Enlisted ==
  ASSUME NEW s \in Seq(FdEvs), IsInjective(s), NEW e \in FdEvs, e \notin ToSet(s)
  PROVE  /\ Append(s, e) \in Seq(FdEvs) /\ IsInjective(Append(s, e))
         /\ ToSet(Append(s, e)) = ToSet(s) \cup {e}
<1>a. Append(s, e) \in Seq(FdEvs)
  OBVIOUS
<1>1. PICK t \in Seq(FdEvs) : t = Append(s, e)
  BY <1>a
<1>2. /\ Len(t) = Len(s) + 1 /\ t[Len(s) + 1] = e
      /\ \A k \in 1..Len(s) : t[k] = s[k]
  BY <1>1
<1>3. IsInjective(t)
  BY <1>2 DEF IsInjective, ToSet
<1>4. ToSet(t) = ToSet(s) \cup {e}
  BY <1>2 DEF ToSet
<1> QED
  BY <1>1, <1>3, <1>4

\* Nothing is watched at the start.
LEMMA FdInvInit == FdInit => FdInv
<1> SUFFICES ASSUME FdInit PROVE FdInv
  OBVIOUS
<1>1. NewFdEvent \in FdEventType /\ ~NewFdEvent.enabled /\ NewFdEvent.fd = NoFd
  BY DEF NewFdEvent, FdEventType
<1>2. NoData \in FdDataType
  BY DEF NoData, FdDataType
<1>3. NoCall \in CallType
  BY DEF NoCall, CallType
<1>4. FdTypeOK
  BY <1>1, <1>2, <1>3 DEF FdInit, FdTypeOK
<1>5. FdInUse
  BY <1>1 DEF FdInit, FdInUse
<1>6. ASSUME NEW f \in Fds PROVE Refs(f) = {} /\ On(f) = {} /\ \A k \in FdKinds : Watch(f, k) = {}
  BY <1>1, WatchAssumption DEF FdInit, Refs, On, Watch
<1>7. FdCounted
  <2> SUFFICES ASSUME NEW f \in Fds
               PROVE  /\ data[f].ref = Cardinality(Refs(f))
                      /\ \A k \in FdKinds : data[f].num[k] = Cardinality(Watch(f, k))
                      /\ data[f].mask = kernel[f] /\ kernel[f] = {k \in FdKinds : data[f].num[k] > 0}
                      /\ ToSet(data[f].list) = On(f) /\ IsInjective(data[f].list)
    BY DEF FdCounted
  <2>1. data[f] = NoData /\ kernel[f] = {}
    BY DEF FdInit
  <2>2. ToSet(<<>>) = {} /\ IsInjective(<<>>)
    BY DEF ToSet, IsInjective
  <2>3. NoData.ref = 0 /\ NoData.list = <<>> /\ NoData.mask = {}
    BY DEF NoData
  <2>4. \A k \in FdKinds : NoData.num[k] = 0
    BY DEF NoData
  <2>5. kernel[f] = {k \in FdKinds : data[f].num[k] > 0}
    BY <2>1, <2>4
  <2> QED
    BY <2>1, <2>2, <2>3, <2>4, <2>5, <1>6, FS_EmptySet
<1> QED
  BY <1>4, <1>5, <1>7 DEF FdInv

\* reloadEpoll() brings the mask and the kernel's interest in step with the counters.
LEMMA Reloaded ==
  ASSUME FdTypeOK, NEW f \in Fds, NEW x \in FdDataType, x.mask = kernel[f], reloadEpoll(f, x)
  PROVE  /\ data' \in [Fds -> FdDataType] /\ kernel' \in [Fds -> SUBSET FdKinds]
         /\ data'[f].ref = x.ref /\ data'[f].num = x.num /\ data'[f].list = x.list
         /\ data'[f].mask = kernel'[f] /\ kernel'[f] = {k \in FdKinds : x.num[k] > 0}
         /\ \A g \in Fds \ {f} : data'[g] = data[g] /\ kernel'[g] = kernel[g]
<1>1. PICK m \in SUBSET FdKinds : m = {k \in FdKinds : x.num[k] > 0}
  OBVIOUS
<1>2. data' = [data EXCEPT ![f] = [x EXCEPT !.mask = m]]
  BY <1>1 DEF reloadEpoll
<1>3. PICK y \in FdDataType : /\ y = [x EXCEPT !.mask = m] /\ y.ref = x.ref /\ y.num = x.num
                              /\ y.list = x.list /\ y.mask = m
  <2>1. [x EXCEPT !.mask = m] \in FdDataType
    BY DEF FdDataType
  <2>2. /\ [x EXCEPT !.mask = m].ref = x.ref /\ [x EXCEPT !.mask = m].num = x.num
        /\ [x EXCEPT !.mask = m].list = x.list /\ [x EXCEPT !.mask = m].mask = m
    BY DEF FdDataType
  <2> QED
    BY <2>1, <2>2
<1>4. kernel' = [kernel EXCEPT ![f] = m]
  BY <1>1 DEF reloadEpoll, FdTypeOK
<1> QED
  BY <1>1, <1>2, <1>3, <1>4 DEF FdTypeOK

\* Enabling or disabling an event of a descriptor, with the counters kept.
LEMMA Toggled ==
  ASSUME FdInv, NEW e \in FdEvs, NEW f \in Fds, fe[e].fd = f, NEW on \in BOOLEAN,
         fe' = [fe EXCEPT ![e].enabled = on],
         NEW x \in FdDataType, x.ref = data[f].ref, x.mask = data[f].mask,
         \A k \in FdKinds : x.num[k] = Cardinality(Watch(f, k)'),
         ToSet(x.list) = On(f)', IsInjective(x.list),
         reloadEpoll(f, x), batch' \in Seq(BatchType), call' \in CallType
  PROVE  FdInv'
<1> USE DEF FdInv
<1>1. PICK y \in FdEventType : /\ y = [fe[e] EXCEPT !.enabled = on] /\ y.fd = f
                               /\ y.events = fe[e].events /\ (y.enabled <=> on)
  <2>1. fe[e] \in FdEventType
    BY DEF FdTypeOK
  <2>2. [fe[e] EXCEPT !.enabled = on] \in FdEventType
    BY <2>1 DEF FdEventType
  <2>3. /\ [fe[e] EXCEPT !.enabled = on].fd = f
        /\ [fe[e] EXCEPT !.enabled = on].events = fe[e].events
    BY <2>1 DEF FdEventType
  <2>4. [fe[e] EXCEPT !.enabled = on].enabled = on
    BY <2>1 DEF FdEventType
  <2> QED
    BY <2>2, <2>3, <2>4
<1>2. fe' = [fe EXCEPT ![e] = y]
  BY <1>1
<1>3. fe' \in [FdEvs -> FdEventType] /\ fe'[e] = y /\ \A d \in FdEvs \ {e} : fe'[d] = fe[d]
  BY <1>1, <1>2 DEF FdTypeOK
<1>4. x.mask = kernel[f]
  BY DEF FdCounted
<1>5. /\ data' \in [Fds -> FdDataType] /\ kernel' \in [Fds -> SUBSET FdKinds]
      /\ data'[f].ref = x.ref /\ data'[f].num = x.num /\ data'[f].list = x.list
      /\ data'[f].mask = kernel'[f] /\ kernel'[f] = {k \in FdKinds : x.num[k] > 0}
      /\ \A g \in Fds \ {f} : data'[g] = data[g] /\ kernel'[g] = kernel[g]
  BY <1>4, Reloaded
<1>6. FdTypeOK'
  BY <1>3, <1>5 DEF FdTypeOK
<1>7. FdInUse'
  BY <1>1, <1>3, WatchAssumption DEF FdInUse
<1>8. \A g \in Fds : Refs(g)' = Refs(g)
  BY <1>1, <1>3 DEF Refs
<1>9. ASSUME NEW g \in Fds \ {f} PROVE On(g)' = On(g) /\ \A k \in FdKinds : Watch(g, k)' = Watch(g, k)
  <2>1. \A d \in FdEvs : fe'[d].fd = g => d # e
    BY <1>1, <1>3
  <2>2. \A d \in FdEvs : fe[d].fd = g => d # e
    OBVIOUS
  <2>3. \A d \in FdEvs : d \in On(g)' <=> d \in On(g)
    BY <2>1, <2>2, <1>3 DEF On
  <2>4. \A k \in FdKinds : \A d \in FdEvs : d \in Watch(g, k)' <=> d \in Watch(g, k)
    BY <2>1, <2>2, <1>3 DEF Watch
  <2> QED
    BY <2>3, <2>4 DEF On, Watch
<1>10. FdCounted'
  <2> SUFFICES ASSUME NEW g \in Fds
               PROVE  /\ data'[g].ref = Cardinality(Refs(g)')
                      /\ \A k \in FdKinds : data'[g].num[k] = Cardinality(Watch(g, k)')
                      /\ data'[g].mask = kernel'[g]
                      /\ kernel'[g] = {k \in FdKinds : data'[g].num[k] > 0}
                      /\ ToSet(data'[g].list) = On(g)' /\ IsInjective(data'[g].list)
    BY DEF FdCounted
  <2>1. CASE g = f
    <3>1. data'[f].ref = Cardinality(Refs(f)')
      BY <1>5, <1>8 DEF FdCounted
    <3> QED
      BY <2>1, <3>1, <1>5
  <2>2. CASE g # f
    BY <2>2, <1>5, <1>8, <1>9 DEF FdCounted
  <2> QED
    BY <2>1, <2>2
<1> QED
  BY <1>6, <1>7, <1>10

\* The counted sets are finite.
LEMMA FdFinite ==
  ASSUME NEW f
  PROVE  /\ IsFiniteSet(Refs(f)) /\ Cardinality(Refs(f)) \in Nat
         /\ \A k : IsFiniteSet(Watch(f, k)) /\ Cardinality(Watch(f, k)) \in Nat
<1>1. Refs(f) \in SUBSET FdEvs /\ \A k : Watch(f, k) \in SUBSET FdEvs
  BY DEF Refs, Watch
<1>2. \A T \in SUBSET FdEvs : IsFiniteSet(T) /\ Cardinality(T) \in Nat
  BY WatchAssumption, FS_Subset, FS_CardinalityType
<1> QED
  BY <1>1, <1>2

\* enable() of an initialized, disabled event keeps the invariant.
LEMMA FdSwitchedOn ==
  ASSUME FdInv, NEW e \in FdEvs, FdEnable(e)
  PROVE  FdInv'
<1> USE DEF FdInv
<1>0. PICK f \in Fds : fe[e].fd = f
  BY DEF FdEnable, FdTypeOK, FdEventType
<1> DEFINE nn == [k \in FdKinds |-> IF k \in fe[e].events THEN data[f].num[k] + 1 ELSE data[f].num[k]]
           ll == Append(data[f].list, e)
<1>1. /\ fe[e].fd # NoFd /\ ~fe[e].enabled /\ data[f] \in FdDataType
      /\ fe' = [fe EXCEPT ![e].enabled = TRUE] /\ batch' = batch /\ call' = call
  BY DEF FdEnable, FdTypeOK, FdEventType
<1>2. reloadEpoll(f, [data[f] EXCEPT !.num = nn, !.list = ll])
  BY <1>0 DEF FdEnable
<1>3. data[f].list \in Seq(FdEvs) /\ data[f].num \in [FdKinds -> Nat]
  BY <1>1 DEF FdDataType
<1>4. e \notin ToSet(data[f].list) /\ IsInjective(data[f].list)
  BY <1>0, <1>1 DEF FdCounted, On
<1>5. ll \in Seq(FdEvs) /\ IsInjective(ll) /\ ToSet(ll) = On(f) \cup {e}
  BY <1>1, <1>3, <1>4, Enlisted DEF FdCounted
<1>6. nn \in [FdKinds -> Nat]
  BY <1>3
<1>7. /\ \A d \in FdEvs : fe'[d].fd = fe[d].fd /\ fe'[d].events = fe[d].events
      /\ \A d \in FdEvs \ {e} : fe'[d].enabled = fe[d].enabled
  BY <1>1 DEF FdTypeOK, FdEventType
<1>8. fe'[e].enabled
  <2>1. fe[e] \in FdEventType /\ fe'[e] = [fe[e] EXCEPT !.enabled = TRUE]
    BY <1>1 DEF FdTypeOK
  <2>2. \A r \in FdEventType : [r EXCEPT !.enabled = TRUE].enabled = TRUE
    BY DEF FdEventType
  <2> QED
    BY <2>1, <2>2
<1>9. On(f)' = On(f) \cup {e}
  <2> SUFFICES {d \in FdEvs : fe'[d].fd = f /\ fe'[d].enabled} = On(f) \cup {e}
    BY DEF On
  <2> QED
    BY <1>0, <1>7, <1>8, Zenon DEF On
<1>10. ASSUME NEW k \in FdKinds PROVE nn[k] = Cardinality(Watch(f, k)')
  <2> DEFINE W == {d \in FdEvs : fe'[d].fd = f /\ fe'[d].enabled /\ k \in fe'[d].events}
  <2>0. W = Watch(f, k)'
    BY DEF Watch
  <2>1. e \notin Watch(f, k) /\ data[f].num[k] = Cardinality(Watch(f, k))
    BY <1>0, <1>1 DEF Watch, FdCounted
  <2>2. CASE k \in fe[e].events
    <3>1. W = Watch(f, k) \cup {e}
      BY <2>2, <1>0, <1>7, <1>8, Zenon DEF Watch
    <3>2. Cardinality(Watch(f, k) \cup {e}) = Cardinality(Watch(f, k)) + 1
      BY <2>1, FdFinite, FS_AddElement
    <3> QED
      BY <3>1, <3>2, <2>0, <2>1, <2>2
  <2>3. CASE k \notin fe[e].events
    <3>1. W = Watch(f, k)
      BY <2>3, <1>1, <1>7, Zenon DEF Watch
    <3> QED
      BY <3>1, <2>0, <2>1, <2>3
  <2> QED
    BY <2>2, <2>3
<1> HIDE DEF nn, ll
<1>11. PICK x \in FdDataType : /\ x = [data[f] EXCEPT !.num = nn, !.list = ll]
                               /\ x.ref = data[f].ref /\ x.mask = data[f].mask
                               /\ x.num = nn /\ x.list = ll
  <2>1. [data[f] EXCEPT !.num = nn, !.list = ll] \in FdDataType
    BY <1>1, <1>5, <1>6 DEF FdDataType
  <2>2. ASSUME NEW r \in FdDataType
        PROVE /\ [r EXCEPT !.num = nn, !.list = ll].ref = r.ref
              /\ [r EXCEPT !.num = nn, !.list = ll].mask = r.mask
              /\ [r EXCEPT !.num = nn, !.list = ll].num = nn
              /\ [r EXCEPT !.num = nn, !.list = ll].list = ll
    BY DEF FdDataType
  <2> QED
    BY <2>1, <2>2, <1>1
<1>13. batch' \in Seq(BatchType) /\ call' \in CallType
  BY <1>1 DEF FdTypeOK
<1> QED
  BY <1>0, <1>1, <1>2, <1>5, <1>9, <1>10, <1>11, <1>13, Toggled

\* disable() keeps the invariant.
LEMMA FdSwitchedOff ==
  ASSUME FdInv, NEW e \in FdEvs, fe[e].enabled, fdDisable(e),
         batch' \in Seq(BatchType), call' \in CallType
  PROVE  FdInv'
<1> USE DEF FdInv
<1>0. PICK f \in Fds : fe[e].fd = f
  BY DEF FdInUse, FdTypeOK, FdEventType
<1> DEFINE nn == [k \in FdKinds |-> IF k \in fe[e].events THEN data[f].num[k] - 1 ELSE data[f].num[k]]
           ll == eraseFirst(data[f].list, e)
<1>1. data[f] \in FdDataType /\ fe' = [fe EXCEPT ![e].enabled = FALSE]
  BY DEF FdTypeOK, fdDisable
<1>2. reloadEpoll(f, [data[f] EXCEPT !.num = nn, !.list = ll])
  BY <1>0 DEF fdDisable
<1>3. data[f].list \in Seq(FdEvs) /\ data[f].num \in [FdKinds -> Nat]
  BY <1>1 DEF FdDataType
<1>4. e \in ToSet(data[f].list) /\ IsInjective(data[f].list)
  BY <1>0, <1>1 DEF FdCounted, On
<1>5. ll \in Seq(FdEvs) /\ IsInjective(ll) /\ ToSet(ll) = On(f) \ {e}
  BY <1>1, <1>3, <1>4, Erased DEF FdCounted
<1>7. /\ \A d \in FdEvs : fe'[d].fd = fe[d].fd /\ fe'[d].events = fe[d].events
      /\ \A d \in FdEvs \ {e} : fe'[d].enabled = fe[d].enabled
  BY <1>1 DEF FdTypeOK, FdEventType
<1>8. ~fe'[e].enabled
  <2>1. fe[e] \in FdEventType /\ fe'[e] = [fe[e] EXCEPT !.enabled = FALSE]
    BY <1>1 DEF FdTypeOK
  <2>2. \A r \in FdEventType : [r EXCEPT !.enabled = FALSE].enabled = FALSE
    BY DEF FdEventType
  <2> QED
    BY <2>1, <2>2
<1>9. On(f)' = On(f) \ {e}
  <2> SUFFICES {d \in FdEvs : fe'[d].fd = f /\ fe'[d].enabled} = On(f) \ {e}
    BY DEF On
  <2> QED
    BY <1>0, <1>7, <1>8, Zenon DEF On
<1>10. ASSUME NEW k \in FdKinds PROVE nn[k] = Cardinality(Watch(f, k)') /\ nn[k] \in Nat
  <2> DEFINE W == {d \in FdEvs : fe'[d].fd = f /\ fe'[d].enabled /\ k \in fe'[d].events}
  <2>0. W = Watch(f, k)'
    BY DEF Watch
  <2>1. data[f].num[k] = Cardinality(Watch(f, k)) /\ data[f].num[k] \in Nat
    BY <1>1, <1>3 DEF FdCounted
  <2>2. W = Watch(f, k) \ {e}
    BY <1>7, <1>8, Zenon DEF Watch
  <2>3. IsFiniteSet(Watch(f, k))
    BY FdFinite
  <2>4. IsFiniteSet(Watch(f, k) \ {e}) /\ Cardinality(Watch(f, k) \ {e}) \in Nat
    BY <2>3, FS_RemoveElement, FS_CardinalityType
  <2>5. e \in Watch(f, k) <=> k \in fe[e].events
    BY <1>0, <1>1 DEF Watch
  <2>6. Cardinality(Watch(f, k) \ {e}) = IF e \in Watch(f, k) THEN Cardinality(Watch(f, k)) - 1
                                         ELSE Cardinality(Watch(f, k))
    BY <2>3, FS_RemoveElement
  <2> QED
    BY <2>0, <2>1, <2>2, <2>4, <2>5, <2>6
<1>6. nn \in [FdKinds -> Nat]
  BY <1>10
<1> HIDE DEF nn, ll
<1>11. PICK x \in FdDataType : /\ x = [data[f] EXCEPT !.num = nn, !.list = ll]
                               /\ x.ref = data[f].ref /\ x.mask = data[f].mask
                               /\ x.num = nn /\ x.list = ll
  <2>1. [data[f] EXCEPT !.num = nn, !.list = ll] \in FdDataType
    BY <1>1, <1>5, <1>6 DEF FdDataType
  <2>2. ASSUME NEW r \in FdDataType
        PROVE /\ [r EXCEPT !.num = nn, !.list = ll].ref = r.ref
              /\ [r EXCEPT !.num = nn, !.list = ll].mask = r.mask
              /\ [r EXCEPT !.num = nn, !.list = ll].num = nn
              /\ [r EXCEPT !.num = nn, !.list = ll].list = ll
    BY DEF FdDataType
  <2> QED
    BY <2>1, <2>2, <1>1
<1> QED
  BY <1>0, <1>1, <1>2, <1>5, <1>9, <1>10, <1>11, Toggled

\* The shared data of a descriptor that loses its last event was not watching anything:
\* dropping the entry and counting down are the same.
LEMMA Unreferred ==
  ASSUME FdInv, NEW e \in FdEvs, ~fe[e].enabled, NEW f \in Fds, fe[e].fd = f
  PROVE  /\ data[f].ref - 1 \in Nat /\ Cardinality(Refs(f) \ {e}) = data[f].ref - 1
         /\ unrefFdSharedData(data, f) = [data EXCEPT ![f] = [data[f] EXCEPT !.ref = data[f].ref - 1]]
<1> USE DEF FdInv
<1>1. data[f] \in FdDataType /\ f # NoFd /\ data[f].ref = Cardinality(Refs(f)) /\ e \in Refs(f)
  BY WatchAssumption DEF FdTypeOK, FdCounted, Refs
<1>2. IsFiniteSet(Refs(f) \ {e}) /\ Cardinality(Refs(f) \ {e}) = data[f].ref - 1
  BY <1>1, FdFinite, FS_RemoveElement
<1>3. data[f].ref - 1 \in Nat
  BY <1>2, FS_CardinalityType
<1>4. ASSUME data[f].ref = 1 PROVE NoData = [data[f] EXCEPT !.ref = data[f].ref - 1]
  <2>1. Refs(f) \ {e} = {}
    BY <1>2, <1>4, FS_EmptySet
  <2>2. On(f) = {} /\ \A k \in FdKinds : Watch(f, k) = {}
    <3>1. \A d \in FdEvs : fe[d].fd = f => d = e
      BY <2>1, Zenon DEF Refs
    <3> QED
      BY <3>1, Zenon DEF On, Watch
  <2>3. \A k \in FdKinds : data[f].num[k] = 0
    <3>1. \A k \in FdKinds : data[f].num[k] = Cardinality(Watch(f, k))
      BY DEF FdCounted
    <3> QED
      BY <3>1, <2>2, FS_EmptySet
  <2>4. data[f].mask = {}
    BY <2>3 DEF FdCounted
  <2>5. data[f].list = <<>>
    <3>1. data[f].list \in Seq(FdEvs)
      BY <1>1 DEF FdDataType
    <3>2. ToSet(data[f].list) = {}
      BY <2>2 DEF FdCounted
    <3>3. ASSUME NEW s \in Seq(FdEvs), ToSet(s) = {} PROVE s = <<>>
      <4>1. s # <<>> => 1 \in DOMAIN s
        OBVIOUS
      <4>2. \A i \in DOMAIN s : s[i] \in ToSet(s)
        BY DEF ToSet
      <4> QED
        BY <4>1, <4>2, <3>3
    <3> QED
      BY <3>1, <3>2, <3>3
  <2>6. data[f].num = [k \in FdKinds |-> 0]
    BY <2>3, <1>1 DEF FdDataType
  <2>7. ASSUME NEW r \in FdDataType, r.mask = {}, r.list = <<>>, r.num = [k \in FdKinds |-> 0]
        PROVE  [r EXCEPT !.ref = 0] = NoData
    <3>1. r = [ref |-> r.ref, num |-> r.num, list |-> r.list, mask |-> r.mask]
      BY DEF FdDataType
    <3>2. [r EXCEPT !.ref = 0] = [ref |-> 0, num |-> r.num, list |-> r.list, mask |-> r.mask]
      BY <3>1
    <3> QED
      BY <3>2, <2>7 DEF NoData
  <2> QED
    BY <2>4, <2>5, <2>6, <2>7, <1>1, <1>4
<1>5. CASE data[f].ref = 1
  BY <1>5, <1>4, <1>1, <1>2, <1>3 DEF unrefFdSharedData
<1>6. CASE data[f].ref # 1
  <2>1. unrefFdSharedData(data, f) = [data EXCEPT ![f].ref = @ - 1]
    BY <1>1, <1>6 DEF unrefFdSharedData
  <2> QED
    BY <2>1, <1>2, <1>3
<1> QED
  BY <1>5, <1>6

\* A disabled event that changes, with the references recounted.
LEMMA Rebound ==
  ASSUME FdInv, NEW e \in FdEvs, ~fe[e].enabled, NEW y \in FdEventType, ~y.enabled,
         fe' = [fe EXCEPT ![e] = y], data' \in [Fds -> FdDataType], UNCHANGED <<kernel, batch, call>>,
         \A g \in Fds : /\ data'[g].num = data[g].num /\ data'[g].list = data[g].list
                        /\ data'[g].mask = data[g].mask
                        /\ data'[g].ref = Cardinality(Refs(g)')
  PROVE  FdInv'
<1> USE DEF FdInv
<1>1. fe' \in [FdEvs -> FdEventType] /\ fe'[e] = y /\ \A d \in FdEvs \ {e} : fe'[d] = fe[d]
  BY DEF FdTypeOK
<1>2. FdTypeOK'
  BY <1>1 DEF FdTypeOK
<1>3. FdInUse'
  BY <1>1 DEF FdInUse
<1>4. ASSUME NEW g \in Fds PROVE On(g)' = On(g) /\ \A k \in FdKinds : Watch(g, k)' = Watch(g, k)
  <2>1. \A d \in FdEvs : d \in On(g)' <=> d \in On(g)
    BY <1>1 DEF On
  <2>2. \A k \in FdKinds : \A d \in FdEvs : d \in Watch(g, k)' <=> d \in Watch(g, k)
    BY <1>1 DEF Watch
  <2> QED
    BY <2>1, <2>2 DEF On, Watch
<1>5. FdCounted'
  BY <1>4 DEF FdCounted
<1> QED
  BY <1>2, <1>3, <1>5

\* The references of each descriptor after an event moved from one to another.
LEMMA RefsMoved ==
  ASSUME FdInv, NEW e \in FdEvs, NEW y \in FdEventType, fe' = [fe EXCEPT ![e] = y], NEW g
  PROVE  Refs(g)' = IF g = y.fd THEN Refs(g) \cup {e} ELSE Refs(g) \ {e}
<1>1. fe'[e] = y /\ \A d \in FdEvs \ {e} : fe'[d] = fe[d]
  BY DEF FdInv, FdTypeOK
<1> SUFFICES {d \in FdEvs : fe'[d].fd = g} = IF g = y.fd THEN Refs(g) \cup {e} ELSE Refs(g) \ {e}
  BY DEF Refs
<1>2. CASE g = y.fd
  BY <1>1, <1>2, Zenon DEF Refs
<1>3. CASE g # y.fd
  BY <1>1, <1>3, Zenon DEF Refs
<1> QED
  BY <1>2, <1>3

\* The counter of one entry set.
LEMMA RefSet ==
  ASSUME NEW d \in [Fds -> FdDataType], NEW f \in Fds, NEW n \in Nat
  PROVE  /\ [d EXCEPT ![f] = [d[f] EXCEPT !.ref = n]] \in [Fds -> FdDataType]
         /\ \A g \in Fds : LET x == [d EXCEPT ![f] = [d[f] EXCEPT !.ref = n]][g]
                           IN /\ x.num = d[g].num /\ x.list = d[g].list /\ x.mask = d[g].mask
                              /\ x.ref = IF g = f THEN n ELSE d[g].ref
<1>1. ASSUME NEW r \in FdDataType
      PROVE  [r EXCEPT !.ref = n] \in FdDataType
  BY DEF FdDataType
<1>2. ASSUME NEW r \in FdDataType
      PROVE  /\ [r EXCEPT !.ref = n].num = r.num /\ [r EXCEPT !.ref = n].list = r.list
             /\ [r EXCEPT !.ref = n].mask = r.mask /\ [r EXCEPT !.ref = n].ref = n
  BY DEF FdDataType
<1> QED
  BY <1>1, <1>2

\* The destructor keeps the invariant.
LEMMA FdDestroyed ==
  ASSUME FdInv, NEW e \in FdEvs, FdDestroy(e)
  PROVE  FdInv'
<1>1. PICK f \in Fds : fe[e].fd = f
  BY DEF FdDestroy, FdInv, FdTypeOK, FdEventType
<1>2. /\ ~fe[e].enabled /\ data' = unrefFdSharedData(data, f) /\ fe' = [fe EXCEPT ![e] = NewFdEvent]
      /\ UNCHANGED <<kernel, batch, call>>
  BY <1>1 DEF FdDestroy
<1>3. NewFdEvent \in FdEventType /\ ~NewFdEvent.enabled /\ NewFdEvent.fd = NoFd
  BY DEF NewFdEvent, FdEventType
<1>4. PICK n \in Nat : /\ n = Cardinality(Refs(f) \ {e})
                       /\ data' = [data EXCEPT ![f] = [data[f] EXCEPT !.ref = n]]
  BY <1>1, <1>2, Unreferred
<1>5. data \in [Fds -> FdDataType]
  BY DEF FdInv, FdTypeOK
<1>6. /\ data' \in [Fds -> FdDataType]
      /\ \A g \in Fds : /\ data'[g].num = data[g].num /\ data'[g].list = data[g].list
                        /\ data'[g].mask = data[g].mask
                        /\ data'[g].ref = IF g = f THEN n ELSE data[g].ref
  BY <1>4, <1>5, RefSet
<1>7. ASSUME NEW g \in Fds PROVE data'[g].ref = Cardinality(Refs(g)')
  <2>1. g # NoFd
    BY WatchAssumption
  <2>2. Refs(g)' = Refs(g) \ {e}
    BY <2>1, <1>2, <1>3, RefsMoved
  <2>3. g # f => Refs(g) \ {e} = Refs(g)
    BY <1>1 DEF Refs
  <2>4. data[g].ref = Cardinality(Refs(g))
    BY DEF FdInv, FdCounted
  <2>5. CASE g = f
    BY <2>5, <2>2, <1>4, <1>6
  <2>6. CASE g # f
    BY <2>6, <2>2, <2>3, <2>4, <1>6
  <2> QED
    BY <2>5, <2>6
<1> QED
  BY <1>2, <1>3, <1>6, <1>7, Rebound

\* initialize() keeps the invariant.
LEMMA FdInitialized ==
  ASSUME FdInv, NEW e \in FdEvs, NEW f \in Fds, NEW ks \in WatchSets, NEW o \in BOOLEAN,
         FdInitialize(e, f, ks, o)
  PROVE  FdInv'
<1>1. /\ ~fe[e].enabled
      /\ data' = IF f = fe[e].fd THEN data ELSE refFdSharedData(unrefFdSharedData(data, fe[e].fd), f)
      /\ fe' = [fe EXCEPT ![e] = [fe[e] EXCEPT !.fd = f, !.events = ks, !.once = fe[e].once \/ o]]
      /\ UNCHANGED <<kernel, batch, call>>
  <2>1. ~fe[e].enabled
    BY DEF FdInitialize
  <2>2. data' = IF f = fe[e].fd THEN data ELSE refFdSharedData(unrefFdSharedData(data, fe[e].fd), f)
    BY DEF FdInitialize
  <2>3. fe' = [fe EXCEPT ![e] = [fe[e] EXCEPT !.fd = f, !.events = ks, !.once = fe[e].once \/ o]]
    BY DEF FdInitialize
  <2>4. UNCHANGED <<kernel, batch, call>>
    BY DEF FdInitialize
  <2> QED
    BY <2>1, <2>2, <2>3, <2>4
<1>2. data \in [Fds -> FdDataType] /\ fe[e] \in FdEventType /\ ks \in SUBSET FdKinds
  BY WatchAssumption DEF FdInv, FdTypeOK
<1>3. PICK y \in FdEventType : /\ y = [fe[e] EXCEPT !.fd = f, !.events = ks, !.once = fe[e].once \/ o]
                               /\ y.fd = f /\ ~y.enabled
  <2>1. ASSUME NEW r \in FdEventType, NEW b \in BOOLEAN
        PROVE  [r EXCEPT !.fd = f, !.events = ks, !.once = b] \in FdEventType
    BY <1>2 DEF FdEventType
  <2>2. ASSUME NEW r \in FdEventType, NEW b
        PROVE  [r EXCEPT !.fd = f, !.events = ks, !.once = b].fd = f
    BY DEF FdEventType
  <2>3. ASSUME NEW r \in FdEventType, NEW b
        PROVE  [r EXCEPT !.fd = f, !.events = ks, !.once = b].enabled = r.enabled
    BY DEF FdEventType
  <2>4. PICK b \in BOOLEAN : b = (fe[e].once \/ o)
    OBVIOUS
  <2>5. PICK r \in FdEventType : r = fe[e]
    BY <1>2
  <2>6. PICK z \in FdEventType : z = [r EXCEPT !.fd = f, !.events = ks, !.once = b]
    BY <2>1
  <2>7. z.fd = f /\ z.enabled = r.enabled
    BY <2>2, <2>3, <2>6
  <2>8. ~z.enabled
    BY <2>5, <2>7, <1>1
  <2>9. z = [fe[e] EXCEPT !.fd = f, !.events = ks, !.once = fe[e].once \/ o]
    BY <2>4, <2>5, <2>6
  <2> QED
    BY <2>7, <2>8, <2>9
<1>4. fe' = [fe EXCEPT ![e] = y]
  BY <1>1, <1>3
<1>5. \A g \in Fds : Refs(g)' = IF g = f THEN Refs(g) \cup {e} ELSE Refs(g) \ {e}
  BY <1>3, <1>4, RefsMoved
<1>6. \A g \in Fds : fe[e].fd # g => e \notin Refs(g) /\ Refs(g) \ {e} = Refs(g)
  BY DEF Refs
<1>c. \A g \in Fds : data[g].ref = Cardinality(Refs(g))
  BY DEF FdInv, FdCounted
<1>7. /\ data' \in [Fds -> FdDataType]
      /\ \A g \in Fds : /\ data'[g].num = data[g].num /\ data'[g].list = data[g].list
                        /\ data'[g].mask = data[g].mask
                        /\ data'[g].ref = Cardinality(Refs(g)')
  <2>1. CASE f = fe[e].fd
    <3>1. \A g \in Fds : Refs(g)' = Refs(g)
      BY <2>1, <1>5, <1>6 DEF Refs
    <3> QED
      BY <2>1, <3>1, <1>1, <1>2 DEF FdInv, FdCounted
  <2>2. CASE f # fe[e].fd
    <3>1. PICK d \in [Fds -> FdDataType] :
            /\ d = unrefFdSharedData(data, fe[e].fd)
            /\ \A g \in Fds : /\ d[g].num = data[g].num /\ d[g].list = data[g].list
                              /\ d[g].mask = data[g].mask
                              /\ d[g].ref = Cardinality(Refs(g) \ {e})
      <4>1. CASE fe[e].fd = NoFd
        <5>1. unrefFdSharedData(data, fe[e].fd) = data
          BY <4>1 DEF unrefFdSharedData
        <5>2. \A g \in Fds : Refs(g) \ {e} = Refs(g)
          BY <4>1, <1>6, WatchAssumption
        <5>3. \A g \in Fds : data[g].ref = Cardinality(Refs(g) \ {e})
          BY <5>2, <1>c
        <5> QED
          BY <5>1, <5>3, <1>2
      <4>2. CASE fe[e].fd # NoFd
        <5>1. PICK h \in Fds : fe[e].fd = h
          BY <4>2, <1>2 DEF FdEventType
        <5>2. PICK n \in Nat :
                /\ n = Cardinality(Refs(h) \ {e})
                /\ unrefFdSharedData(data, h) = [data EXCEPT ![h] = [data[h] EXCEPT !.ref = n]]
          BY <5>1, <1>1, Unreferred
        <5>a. [data EXCEPT ![h] = [data[h] EXCEPT !.ref = n]] \in [Fds -> FdDataType]
          BY <1>2, RefSet
        <5>b. PICK d \in [Fds -> FdDataType] : d = [data EXCEPT ![h] = [data[h] EXCEPT !.ref = n]]
          BY <5>a
        <5>3. \A g \in Fds : /\ d[g].num = data[g].num /\ d[g].list = data[g].list
                             /\ d[g].mask = data[g].mask
                             /\ d[g].ref = IF g = h THEN n ELSE data[g].ref
          BY <5>b, <1>2, RefSet
        <5>4. ASSUME NEW g \in Fds PROVE d[g].ref = Cardinality(Refs(g) \ {e})
          <6>1. CASE g = h
            BY <6>1, <5>2, <5>3
          <6>2. CASE g # h
            BY <6>2, <5>1, <5>3, <1>6, <1>c, ZenonT(30)
          <6> QED
            BY <6>1, <6>2
        <5> QED
          BY <5>1, <5>2, <5>b, <5>3, <5>4
      <4> QED
        BY <4>1, <4>2
    <3>2. PICK n \in Nat : n = d[f].ref + 1
      BY DEF FdDataType
    <3>3. data' = [d EXCEPT ![f] = [d[f] EXCEPT !.ref = n]]
      BY <2>2, <3>1, <3>2, <1>1 DEF refFdSharedData
    <3>4. /\ data' \in [Fds -> FdDataType]
          /\ \A g \in Fds : /\ data'[g].num = d[g].num /\ data'[g].list = d[g].list
                            /\ data'[g].mask = d[g].mask
                            /\ data'[g].ref = IF g = f THEN n ELSE d[g].ref
      BY <3>3, RefSet
    <3>5. Refs(f) \ {e} = Refs(f) /\ Cardinality(Refs(f) \cup {e}) = n
      <4>1. e \notin Refs(f) /\ Refs(f) \ {e} = Refs(f)
        BY <2>2, <1>6
      <4>2. Cardinality(Refs(f) \cup {e}) = Cardinality(Refs(f)) + 1
        BY <4>1, FdFinite, FS_AddElement
      <4> QED
        BY <4>1, <4>2, <3>1, <3>2
    <3> QED
      BY <3>1, <3>4, <3>5, <1>5, ZenonT(30)
  <2> QED
    BY <2>1, <2>2
<1> QED
  BY <1>1, <1>3, <1>4, <1>7, Rebound

\* Every step of the events and of the dispatch keeps the invariant.
LEMMA FdInvStep == FdInv /\ [FdNext]_fdVars => FdInv'
<1> SUFFICES ASSUME FdInv, [FdNext]_fdVars PROVE FdInv'
  OBVIOUS
<1>0. /\ batch \in Seq(BatchType) /\ call \in CallType /\ call.rest \in Seq(FdEvs)
      /\ call.kinds \in SUBSET (FdKinds \cup {"hup"}) /\ call.cb \in FdEvs \cup {"none"}
  BY DEF FdInv, FdTypeOK, CallType
<1>n. NoCall \in CallType
  BY DEF NoCall, CallType
<1>1. ASSUME UNCHANGED <<fe, data, kernel>>, batch' \in Seq(BatchType), call' \in CallType
      PROVE  FdInv'
  <2>1. FdTypeOK'
    BY <1>1 DEF FdInv, FdTypeOK
  <2>2. FdInUse'
    BY <1>1 DEF FdInv, FdInUse
  <2>3. \A f : Refs(f)' = Refs(f) /\ On(f)' = On(f)
    BY <1>1 DEF Refs, On
  <2>4. \A f, k : Watch(f, k)' = Watch(f, k)
    BY <1>1 DEF Watch
  <2>5. FdCounted'
    BY <1>1, <2>3, <2>4 DEF FdInv, FdCounted
  <2> QED
    BY <2>1, <2>2, <2>5 DEF FdInv
<1>2. ASSUME NEW e \in FdEvs, fdDisable(e), batch' \in Seq(BatchType), call' \in CallType
      PROVE  FdInv'
  <2>1. CASE fe[e].enabled
    BY <1>2, <2>1, FdSwitchedOff
  <2>2. CASE ~fe[e].enabled
    BY <1>1, <1>2, <2>2 DEF fdDisable
  <2> QED
    BY <2>1, <2>2
<1>3. ASSUME NEW e \in FdEvs, FdDisable(e) PROVE FdInv'
  BY <1>0, <1>2, <1>3 DEF FdDisable
<1>4. CASE FdPoll
  <2>1. PICK S \in SUBSET {f \in Fds : kernel[f] # {}} \ {{}} :
          \E order \in SetToSeqs(S), r \in [S -> UNION {Reports(f) : f \in S}] :
            /\ \A f \in S : r[f] \in Reports(f)
            /\ batch' = [i \in 1..Len(order) |-> [fd |-> order[i], kinds |-> r[order[i]]]]
    BY <1>4 DEF FdPoll
  <2>2. PICK order \in SetToSeqs(S), r \in [S -> UNION {Reports(f) : f \in S}] :
          /\ \A f \in S : r[f] \in Reports(f)
          /\ batch' = [i \in 1..Len(order) |-> [fd |-> order[i], kinds |-> r[order[i]]]]
    BY <2>1
  <2>3. S \in SUBSET Fds
    BY <2>1
  <2>4. Cardinality(S) \in Nat
    BY <2>3, WatchAssumption, FS_Subset, FS_CardinalityType
  <2>5. order \in [1..Cardinality(S) -> S]
    BY DEF SetToSeqs
  <2>6. order \in Seq(S) /\ Len(order) \in Nat /\ \A i \in 1..Len(order) : order[i] \in S
    BY <2>4, <2>5
  <2>7. \A f \in S : r[f] \in SUBSET (FdKinds \cup {"hup"})
    BY <2>2, <2>3 DEF Reports, FdInv, FdTypeOK, FdKinds
  <2>8. \A i \in 1..Len(order) : [fd |-> order[i], kinds |-> r[order[i]]] \in BatchType
    BY <2>3, <2>6, <2>7 DEF BatchType
  <2>9. batch' \in [1..Len(order) -> BatchType]
    BY <2>2, <2>8
  <2>10. batch' \in Seq(BatchType)
    BY <2>6, <2>9
  <2> QED
    BY <1>0, <1>1, <1>4, <2>10 DEF FdPoll
<1>5. CASE FdDispatch
  <2>1. batch # <<>> /\ Head(batch) \in BatchType /\ Tail(batch) \in Seq(BatchType)
    BY <1>0, <1>5 DEF FdDispatch
  <2>2. PICK b \in BatchType : b = Head(batch)
    BY <2>1
  <2>3. b.fd \in Fds /\ b.kinds \in SUBSET (FdKinds \cup {"hup"})
    BY DEF BatchType
  <2>4. data[b.fd].list \in Seq(FdEvs)
    BY <2>3 DEF FdInv, FdTypeOK, FdDataType
  <2> DEFINE ks == (b.kinds \ {"hup"}) \cup IF "hup" \in b.kinds THEN {"read"} ELSE {}
  <2>5. ks \in SUBSET (FdKinds \cup {"hup"})
    BY <2>3 DEF FdKinds
  <2>6. call' = [NoCall EXCEPT !.rest = data[b.fd].list, !.kinds = ks]
    BY <2>2, <1>5 DEF FdDispatch
  <2> HIDE DEF ks
  <2>7. call' \in CallType
    BY <2>4, <2>5, <2>6 DEF NoCall, CallType
  <2> QED
    BY <2>1, <2>7, <1>1, <1>5 DEF FdDispatch
<1>6. CASE FdOnEvent
  <2>1. call.rest # <<>> /\ batch' = batch
    BY <1>6 DEF FdOnEvent
  <2>2. PICK e \in FdEvs : e = Head(call.rest)
    BY <1>0, <2>1
  <2>a. Tail(call.rest) \in Seq(FdEvs)
    BY <1>0, <2>1
  <2>3. PICK t \in Seq(FdEvs) : t = Tail(call.rest)
    BY <2>a
  <2>4. \/ call' = NoCall
        \/ call' = [call EXCEPT !.rest = t]
        \/ call' = [call EXCEPT !.rest = t, !.cb = e]
    BY <1>6, <2>2, <2>3 DEF FdOnEvent
  <2>5. call' \in CallType
    BY <1>0, <1>n, <2>4 DEF CallType
  <2>6. fdDisable(e) \/ UNCHANGED <<fe, data, kernel>>
    BY <1>6, <2>2 DEF FdOnEvent
  <2> QED
    BY <1>0, <1>1, <1>2, <2>1, <2>5, <2>6
<1>7. CASE FdReturn
  <2>1. call' = NoCall \/ call' = [call EXCEPT !.cb = "none"]
    BY <1>7 DEF FdReturn
  <2>2. call' \in CallType
    BY <1>0, <1>n, <2>1 DEF CallType
  <2> QED
    BY <1>0, <1>1, <1>7, <2>2 DEF FdReturn
<1>8. CASE FdDispatchNone
  BY <1>0, <1>n, <1>1, <1>8 DEF FdDispatchNone
<1>9. CASE UNCHANGED fdVars
  BY <1>0, <1>1, <1>9 DEF fdVars
<1> QED
  BY <1>3, <1>4, <1>5, <1>6, <1>7, <1>8, <1>9, FdSwitchedOn, FdDestroyed, FdInitialized DEF FdNext

\* At every moment epoll watches exactly what the enabled events want, the list of a
\* descriptor holds each of them once, and its shared data counts the events that refer to
\* it (refFdSharedData(), reloadEpoll(), enable() and disable() of the epoll engine), for
\* any number of events and descriptors.
THEOREM FdsRegistered == FdSpec => []FdRegistered
<1>1. FdInv => FdRegistered
  <2> SUFFICES ASSUME FdInv, NEW f \in Fds
               PROVE  /\ kernel[f] = UNION {fe[e].events : e \in On(f)}
                      /\ ToSet(data[f].list) = On(f) /\ IsInjective(data[f].list)
                      /\ data[f].ref = Cardinality(Refs(f))
    BY DEF FdRegistered, On, Refs
  <2>1. kernel[f] = {k \in FdKinds : data[f].num[k] > 0}
    BY DEF FdInv, FdCounted
  <2>2. ASSUME NEW k \in FdKinds PROVE data[f].num[k] > 0 <=> Watch(f, k) # {}
    <3>1. data[f].num[k] = Cardinality(Watch(f, k))
      BY DEF FdInv, FdCounted
    <3>2. IsFiniteSet(Watch(f, k)) /\ Cardinality(Watch(f, k)) \in Nat
      BY FdFinite
    <3>3. Cardinality(Watch(f, k)) = 0 <=> Watch(f, k) = {}
      BY <3>2, FS_EmptySet
    <3> QED
      BY <3>1, <3>2, <3>3
  <2>3. \A k : k \in kernel[f] <=> k \in FdKinds /\ \E e \in On(f) : k \in fe[e].events
    BY <2>1, <2>2 DEF Watch, On
  <2>4. \A e \in On(f) : fe[e].events \in SUBSET FdKinds
    BY DEF On, FdInv, FdTypeOK, FdEventType
  <2>5. kernel[f] = UNION {fe[e].events : e \in On(f)}
    BY <2>3, <2>4
  <2> QED
    BY <2>5 DEF FdInv, FdCounted
<1> QED
  BY <1>1, FdInvInit, FdInvStep, PTL DEF FdSpec
=============================================================================
