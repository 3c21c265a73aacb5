---------------------------- MODULE PaneHubProofs ----------------------------
(***************************************************************************)
(* Proofs about PaneHub, for every set of streams, devices and sessions    *)
(* and every MaxSeq.                                                       *)
(***************************************************************************)
EXTENDS PaneHub, TLAPS

USE PaneHubConstants

\* A step of the source, of publish, of dropDevice or of a WatchPane handler
\* keeps the types of the hub's variables.
LEMMA TypeStep == TypeOK /\ CallInv /\ [Next]_vars => TypeOK'
<1> SUFFICES ASSUME TypeOK, CallInv, [Next]_vars PROVE TypeOK'
  OBVIOUS
<1> USE DEF TypeOK, None, NotCut, sessVars, callVars, subVars, streamVars, sourceVars
<1>1. ASSUME NEW id \in Session, Capture(id) PROVE TypeOK'
  BY <1>1 DEF Capture
<1>2. ASSUME NEW id \in Session, NEW f \in {"live", "late"}, Publish(id, f) PROVE TypeOK'
  <2>1. MayPublish(id) => seq[id] + 1 \in 0..MaxSeq
    BY DEF MayPublish
  <2> QED
    BY <1>2, <2>1 DEF Publish
<1>3. ASSUME NEW s \in Stream, NEW d \in Device, NEW id \in Session, Subscribe(s, d, id)
      PROVE  TypeOK'
  BY <1>3 DEF Subscribe
<1>4. ASSUME NEW s \in Stream, NEW id \in Session, SubscribeRefused(s, id) PROVE TypeOK'
  BY <1>4 DEF SubscribeRefused
<1>5. ASSUME NEW s \in Stream, Unsubscribe(s) PROVE TypeOK'
  BY <1>5 DEF Unsubscribe, CloseIfUnwatched
<1>6. ASSUME NEW s \in Stream, UnsubscribeClose(s) PROVE TypeOK'
  BY <1>6 DEF UnsubscribeClose
<1>7. ASSUME NEW s \in Stream, Receive(s) PROVE TypeOK'
  BY <1>7 DEF Receive
<1>8. ASSUME NEW s \in Stream, Heartbeat(s) PROVE TypeOK'
  BY <1>8 DEF Heartbeat
<1>9. ASSUME NEW s \in Stream, End(s) PROVE TypeOK'
  BY <1>9 DEF End, Leave
<1>10. ASSUME NEW s \in Stream, Send(s) PROVE TypeOK'
  BY <1>10 DEF Send
<1>11. ASSUME NEW s \in Stream, SendFails(s) PROVE TypeOK'
  BY <1>11 DEF SendFails, Leave
<1>12. ASSUME NEW s \in Stream, DropClose(s) PROVE TypeOK'
  BY <1>12 DEF DropClose
<1>13. ASSUME NEW d \in Device, DropDevice(d) PROVE TypeOK'
  <2>1. \A s \in subs : seq[sessionOf[s]] \in 0..MaxSeq
    BY DEF CallInv
  <2> QED
    BY <1>13, <2>1 DEF DropDevice, CloseIfUnwatched
<1>14. CASE UNCHANGED vars
  BY <1>14 DEF vars
<1> HIDE DEF TypeOK
<1> QED
  BY <1>1, <1>2, <1>3, <1>4, <1>5, <1>6, <1>7, <1>8, <1>9, <1>10, <1>11, <1>12,
     <1>13, <1>14 DEF Next, Source, Handler

\* A step that leaves the subscribers, their sessions, the sessions and the
\* source alone leaves alone what the hub owes the source.
LEMMA SessionsAlone ==
    ASSUME SourceFollowsWatchers, RetainedWhileWatched,
           UNCHANGED <<subs, sessionOf, sessVars, source>>
    PROVE  SourceFollowsWatchers' /\ RetainedWhileWatched'
BY DEF SourceFollowsWatchers, RetainedWhileWatched, Watchers, WatchersIn, sessVars

\* closeIfUnwatchedLocked restores, for the sessions that lost watchers, that
\* the source runs exactly while somebody watches: S is what is left of subs.
LEMMA ClosingIsEnough ==
    ASSUME NEW ids \in SUBSET Session, NEW S \in SUBSET subs,
           TypeOK, SourceFollowsWatchers, RetainedWhileWatched,
           \A s \in subs \ S : sessionOf[s] \in ids,
           subs' = S, CloseIfUnwatched(ids, S), UNCHANGED <<seq, sessionOf>>
    PROVE  SourceFollowsWatchers' /\ RetainedWhileWatched'
<1> DEFINE closing == {id \in ids : WatchersIn(S, id) = {} /\ open[id]}
<1>1. \A id \in Session : Watchers(id)' = WatchersIn(S, id)
  BY DEF Watchers, WatchersIn
<1>2. \A id \in Session \ ids : WatchersIn(S, id) = Watchers(id)
  BY DEF Watchers, WatchersIn
<1>3. \A id \in Session : WatchersIn(S, id) # {} => Watchers(id) # {}
  BY DEF Watchers, WatchersIn
<1>4. \A id \in Session :
        /\ id \in closing <=> open[id] /\ WatchersIn(S, id) = {}
        /\ open'[id] <=> open[id] /\ id \notin closing
        /\ source'[id] = IF id \in closing THEN source[id] - 1 ELSE source[id]
        /\ current'[id] = IF id \in closing THEN None ELSE current[id]
  BY <1>2 DEF CloseIfUnwatched, SourceFollowsWatchers
<1> HIDE DEF closing
<1> QED
  BY <1>1, <1>3, <1>4 DEF SourceFollowsWatchers, RetainedWhileWatched, TypeOK, None

\* Every step of the source and of the hub preserves the inductive invariant.
LEMMA IInvStep == IInv /\ [Next]_vars => IInv'
<1> SUFFICES ASSUME IInv, [Next]_vars PROVE IInv'
  OBVIOUS
<1> USE DEF IInv, TypeOK, None, NotCut, sessVars, callVars, subVars, streamVars, sourceVars
<1>0. TypeOK'
  BY TypeStep
<1>1. ASSUME NEW id \in Session, Capture(id) PROVE IInv'
  BY <1>0, <1>1, SessionsAlone DEF Capture, CallInv, OrderInv, LatestNotLost, UpToDate,
     NothingAfterTheCut
<1>2. ASSUME NEW id \in Session, NEW f \in {"live", "late"}, Publish(id, f) PROVE IInv'
  <2>1. CASE Watchers(id) = {}
    BY <1>0, <1>2, <2>1, SessionsAlone DEF Publish, CallInv, OrderInv, LatestNotLost,
       UpToDate, NothingAfterTheCut
  <2>2. CASE Watchers(id) # {}
    <3> USE <1>2, <2>2 DEF Publish
    <3>1. /\ \A i \in Session : Watchers(i)' = Watchers(i)
          /\ \A s \in Stream : s \in Watchers(id) <=> s \in subs /\ sessionOf[s] = id
      BY DEF Watchers, WatchersIn
    <3>2. CallInv'
      BY <3>1 DEF CallInv
    <3>3. OrderInv'
      <4>1. seq'[id] = seq[id] + 1 /\ \A i \in Session : seq[i] <= seq'[i]
        OBVIOUS
      <4>2. \A s \in Stream :
              updates'[s] = IF s \in subs /\ sessionOf[s] = id THEN seq'[id] ELSE updates[s]
        BY <3>1
      <4>3. /\ \A s \in Stream : pc[s] # "idle" => sessionOf[s] \in Session
            /\ \A s \in subs : pc[s] # "idle"
        BY DEF CallInv
      <4> QED
        BY <4>1, <4>2, <4>3 DEF OrderInv
    <3>4. SourceFollowsWatchers' /\ RetainedWhileWatched'
      BY <3>1 DEF SourceFollowsWatchers, RetainedWhileWatched
    <3>5. LatestNotLost'
      BY <3>1 DEF LatestNotLost, UpToDate, CallInv
    <3>6. NothingAfterTheCut'
      BY <3>1 DEF NothingAfterTheCut, CallInv
    <3> QED
      BY <1>0, <3>2, <3>3, <3>4, <3>5, <3>6
  <2> QED
    BY <2>1, <2>2
<1>3. ASSUME NEW s \in Stream, NEW d \in Device, NEW id \in Session, Subscribe(s, d, id)
      PROVE  IInv'
  <2> USE <1>3 DEF Subscribe
  <2>1. s \notin subs
    BY DEF CallInv
  <2>2. \A i \in Session : Watchers(i)' = IF i = id THEN Watchers(i) \cup {s} ELSE Watchers(i)
    BY <2>1 DEF Watchers, WatchersIn
  <2>3. CallInv'
    BY DEF CallInv
  <2>4. current[id] <= seq[id]
    BY DEF RetainedWhileWatched
  <2>5. OrderInv'
    BY <2>1, <2>4 DEF OrderInv, CallInv
  <2>6. SourceFollowsWatchers'
    <3> SUFFICES ASSUME NEW i \in Session
                 PROVE  /\ source'[i] = IF Watchers(i)' = {} THEN 0 ELSE 1
                        /\ open'[i] <=> Watchers(i)' # {}
      BY DEF SourceFollowsWatchers
    <3>1. CASE i = id
      <4>1. Watchers(i)' # {}
        BY <2>2, <3>1
      <4>2. open'[i]
        BY <3>1
      <4>3. source'[i] = IF open[i] THEN source[i] ELSE source[i] + 1
        BY <3>1
      <4>4. source[i] = IF open[i] THEN 1 ELSE 0
        BY DEF SourceFollowsWatchers
      <4> QED
        BY <4>1, <4>2, <4>3, <4>4
    <3>2. CASE i # id
      BY <2>2, <3>2 DEF SourceFollowsWatchers
    <3> QED
      BY <3>1, <3>2
  <2>7. RetainedWhileWatched'
    BY <2>2 DEF RetainedWhileWatched
  <2>8. LatestNotLost'
    BY <2>1 DEF LatestNotLost, UpToDate, CallInv
  <2>9. NothingAfterTheCut'
    BY DEF NothingAfterTheCut, CallInv
  <2> QED
    BY <1>0, <2>3, <2>5, <2>6, <2>7, <2>8, <2>9
<1>4. ASSUME NEW s \in Stream, NEW id \in Session, SubscribeRefused(s, id) PROVE IInv'
  BY <1>0, <1>4, SessionsAlone DEF SubscribeRefused, CallInv, OrderInv, LatestNotLost,
     UpToDate, NothingAfterTheCut
<1>5. ASSUME NEW s \in Stream, Unsubscribe(s) PROVE IInv'
  <2> USE <1>5 DEF Unsubscribe
  <2>1. CallInv' /\ OrderInv' /\ NothingAfterTheCut'
    BY DEF CallInv, OrderInv, NothingAfterTheCut
  <2>2. SourceFollowsWatchers' /\ RetainedWhileWatched'
    BY ClosingIsEnough DEF CallInv
  <2>3. LatestNotLost'
    <3>1. \A id \in Session : current'[id] \in {current[id], None}
      BY DEF CloseIfUnwatched
    <3> QED
      BY <3>1 DEF LatestNotLost, UpToDate, CallInv
  <2> QED
    BY <1>0, <2>1, <2>2, <2>3
<1>6. ASSUME NEW s \in Stream, UnsubscribeClose(s) PROVE IInv'
  <2> USE <1>6 DEF UnsubscribeClose
  <2>1. s \notin subs
    BY DEF CallInv
  <2>2. CallInv' /\ OrderInv' /\ NothingAfterTheCut' /\ LatestNotLost'
    BY <2>1 DEF CallInv, OrderInv, NothingAfterTheCut, LatestNotLost, UpToDate
  <2>3. \A i \in Session : Watchers(i)' = Watchers(i)
    BY <2>1 DEF Watchers, WatchersIn
  <2>4. SourceFollowsWatchers' /\ RetainedWhileWatched'
    BY <2>3 DEF SourceFollowsWatchers, RetainedWhileWatched
  <2> QED
    BY <1>0, <2>2, <2>4
<1>7. ASSUME NEW s \in Stream, Receive(s) PROVE IInv'
  BY <1>0, <1>7, SessionsAlone DEF Receive, CallInv, OrderInv, LatestNotLost, UpToDate,
     NothingAfterTheCut
<1>8. ASSUME NEW s \in Stream, Heartbeat(s) PROVE IInv'
  BY <1>0, <1>8, SessionsAlone DEF Heartbeat, CallInv, OrderInv, LatestNotLost, UpToDate,
     NothingAfterTheCut
<1>9. ASSUME NEW s \in Stream, End(s) PROVE IInv'
  BY <1>0, <1>9, SessionsAlone DEF End, Leave, CallInv, OrderInv, LatestNotLost, UpToDate,
     NothingAfterTheCut
<1>10. ASSUME NEW s \in Stream, Send(s) PROVE IInv'
  <2> USE <1>10 DEF Send
  <2>1. CallInv' /\ OrderInv'
    BY DEF CallInv, OrderInv
  <2>2. LatestNotLost'
    BY DEF LatestNotLost, UpToDate, OrderInv, RetainedWhileWatched, CallInv
  <2>3. NothingAfterTheCut'
    BY DEF NothingAfterTheCut
  <2> QED
    BY <1>0, <2>1, <2>2, <2>3, SessionsAlone
<1>11. ASSUME NEW s \in Stream, SendFails(s) PROVE IInv'
  BY <1>0, <1>11, SessionsAlone DEF SendFails, Leave, CallInv, OrderInv, LatestNotLost,
     UpToDate, NothingAfterTheCut
<1>12. ASSUME NEW s \in Stream, DropClose(s) PROVE IInv'
  BY <1>0, <1>12, SessionsAlone DEF DropClose, CallInv, OrderInv, LatestNotLost, UpToDate,
     NothingAfterTheCut
<1>13. ASSUME NEW d \in Device, DropDevice(d) PROVE IInv'
  <2> USE <1>13 DEF DropDevice
  <2>1. CallInv' /\ OrderInv'
    BY DEF CallInv, OrderInv
  <2>2. SourceFollowsWatchers' /\ RetainedWhileWatched'
    BY ClosingIsEnough DEF CallInv
  <2>3. LatestNotLost'
    <3>1. \A id \in Session : current'[id] \in {current[id], None}
      BY DEF CloseIfUnwatched
    <3> QED
      BY <3>1 DEF LatestNotLost, UpToDate, CallInv
  <2>4. NothingAfterTheCut'
    BY DEF NothingAfterTheCut, OrderInv, CallInv
  <2> QED
    BY <1>0, <2>1, <2>2, <2>3, <2>4
<1>14. CASE UNCHANGED vars
  BY <1>0, <1>14, SessionsAlone DEF vars, CallInv, OrderInv, LatestNotLost, UpToDate,
     NothingAfterTheCut
<1> HIDE DEF TypeOK, IInv
<1> QED
  BY <1>1, <1>2, <1>3, <1>4, <1>5, <1>6, <1>7, <1>8, <1>9, <1>10, <1>11, <1>12,
     <1>13, <1>14 DEF Next, Source, Handler

\* The inductive invariant holds from the start of an empty hub.
THEOREM IInvHolds == Spec => []IInv
<1>1. Init => IInv
  BY DEF Init, IInv, TypeOK, CallInv, OrderInv, SourceFollowsWatchers, RetainedWhileWatched,
     LatestNotLost, NothingAfterTheCut, Watchers, WatchersIn, None, NotCut
<1> QED
  BY <1>1, IInvStep, PTL DEF Spec

\* subscribe, unsubscribe and dropDevice of any number of streams, in any order,
\* tell the PaneSource Open once for the first watcher of a session and Close
\* once for the last.
THEOREM SourceIsDriven == Spec => []SourceFollowsWatchers
<1>1. IInv => SourceFollowsWatchers
  BY DEF IInv
<1> QED
  BY <1>1, IInvHolds, PTL

\* closeIfUnwatchedLocked forgets the retained frame with the last watcher, and
\* what publish retains is the newest frame of its session.
THEOREM FrameIsRetained == Spec => []RetainedWhileWatched
<1>1. IInv => RetainedWhileWatched
  BY DEF IInv
<1> QED
  BY <1>1, IInvHolds, PTL

\* No interleaving of publish, subscribe and the handlers makes a watcher miss
\* the retained frame: it is buffered, in hand or sent.
THEOREM NoFrameMissed == Spec => []LatestNotLost
<1>1. IInv => LatestNotLost
  BY DEF IInv
<1> QED
  BY <1>1, IInvHolds, PTL

\* Once dropDevice has removed a stream, nothing published later reaches it,
\* although its handler may still send what it had.
THEOREM DropIsFinal == Spec => []NothingAfterTheCut
<1>1. IInv => NothingAfterTheCut
  BY DEF IInv
<1> QED
  BY <1>1, IInvHolds, PTL

\* The numbers a WatchPane call sends strictly increase: the opening frame,
\* the buffer's replacement by publish and heartbeats included.
THEOREM SentAlwaysIncreases == Spec => SentIncreases
<1>1. IInv /\ IInv' /\ [Next]_vars => [SentAdvances]_vars
  <2> SUFFICES ASSUME IInv, Next PROVE SentAdvances
    OBVIOUS
  <2> USE DEF IInv, TypeOK, SentAdvances, None, sessVars, callVars, subVars, streamVars,
              sourceVars
  <2>1. CASE \E s \in Stream : Send(s)
    BY <2>1 DEF Send, OrderInv
  <2>2. CASE \E s \in Stream : UnsubscribeClose(s)
    BY <2>2 DEF UnsubscribeClose
  <2>3. CASE UNCHANGED sent
    BY <2>3
  <2> HIDE DEF IInv, TypeOK, SentAdvances
  <2>4. \/ \E s \in Stream : Send(s) \/ UnsubscribeClose(s)
        \/ UNCHANGED sent
    <3>1. CASE \E id \in Session : Source(id)
      BY <3>1 DEF Source, Capture, Publish
    <3>2. ASSUME NEW s \in Stream, Handler(s)
          PROVE  Send(s) \/ UnsubscribeClose(s) \/ UNCHANGED sent
      BY <3>2 DEF Handler, Subscribe, SubscribeRefused, Unsubscribe, Receive, Heartbeat, End,
         SendFails
    <3>3. CASE \E s \in Stream : DropClose(s)
      BY <3>3 DEF DropClose
    <3>4. CASE \E d \in Device : DropDevice(d)
      BY <3>4 DEF DropDevice
    <3> QED
      BY <3>1, <3>2, <3>3, <3>4 DEF Next
  <2> QED
    BY <2>1, <2>2, <2>3, <2>4
<1> QED
  BY <1>1, IInvHolds, PTL DEF Spec, SentIncreases
\* Seen from one session, every step of the hub and of a handler is a step of
\* "latest wins, no history", or changes nothing.
LEMMA FeedStep ==
    ASSUME IInv, [Next]_vars, NEW id \in Session
    PROVE  Feed(id)!AbsNext \/ UNCHANGED Feed(id)!absVars
<1> DEFINE watch == [s \in Stream |-> WatchState(s, id)]
           shown == [s \in Stream |-> ShownOf(s, id)]
           limit == [s \in Stream |-> IF sessionOf[s] = id THEN cut[s] ELSE NotCut]
<1>0. TypeOK /\ CallInv /\ OrderInv /\ NothingAfterTheCut /\ id # NoCall
  BY DEF IInv
<1>1. ASSUME UNCHANGED <<seq, sessionOf, sent, cut>>
      PROVE  UNCHANGED Feed(id)!absVars
  BY <1>1 DEF Feed!absVars, WatchState, ShownOf
<1>2. ASSUME NEW i \in Session, NEW f \in {"live", "late"}, Publish(i, f)
      PROVE  Feed(id)!AbsPublish \/ UNCHANGED Feed(id)!absVars
  <2>1. UNCHANGED <<sessionOf, sent, cut>>
    BY <1>2 DEF Publish, callVars, streamVars
  <2>2. seq'[id] = seq[id] \/ seq'[id] = seq[id] + 1
    BY <1>0, <1>2 DEF Publish, TypeOK
  <2> QED
    BY <2>1, <2>2 DEF Feed!AbsPublish, Feed!absVars, WatchState, ShownOf
<1>3. ASSUME NEW s \in Stream, NEW d \in Device, NEW i \in Session, Subscribe(s, d, i)
      PROVE  Feed(id)!AbsOpen(s) \/ UNCHANGED Feed(id)!absVars
  <2>1. /\ sessionOf' = [sessionOf EXCEPT ![s] = i] /\ UNCHANGED <<seq, sent, cut>>
        /\ sessionOf[s] = NoCall /\ sent[s] = None /\ cut[s] = NotCut
    BY <1>0, <1>3 DEF Subscribe, CallInv
  <2>2. CASE i = id
    <3>1. Feed(id)!AbsOpen(s)
      BY <1>0, <2>1, <2>2 DEF Feed!AbsOpen, WatchState, ShownOf, TypeOK
    <3> QED
      BY <3>1
  <2>3. CASE i # id
    BY <1>0, <2>1, <2>3 DEF Feed!absVars, WatchState, ShownOf, TypeOK
  <2> QED
    BY <2>2, <2>3
<1>4. ASSUME NEW s \in Stream, UnsubscribeClose(s)
      PROVE  Feed(id)!AbsEnd(s) \/ UNCHANGED Feed(id)!absVars
  <2>1. /\ sessionOf' = [sessionOf EXCEPT ![s] = NoCall]
        /\ sent' = [sent EXCEPT ![s] = None] /\ cut' = [cut EXCEPT ![s] = NotCut]
        /\ UNCHANGED seq
    BY <1>4 DEF UnsubscribeClose, sessVars
  <2>2. CASE sessionOf[s] = id
    <3>1. Feed(id)!AbsEnd(s)
      BY <1>0, <2>1, <2>2 DEF Feed!AbsEnd, WatchState, ShownOf, TypeOK, None, NotCut
    <3> QED
      BY <3>1
  <2>3. CASE sessionOf[s] # id
    BY <1>0, <2>1, <2>3 DEF Feed!absVars, WatchState, ShownOf, TypeOK
  <2> QED
    BY <2>2, <2>3
<1>5. ASSUME NEW s \in Stream, Send(s)
      PROVE  Feed(id)!AbsShow(s) \/ UNCHANGED Feed(id)!absVars
  <2>1. /\ UNCHANGED <<seq, sessionOf, cut>> /\ pc[s] # "idle"
        /\ sent' = [sent EXCEPT ![s] = IF held[s] = None THEN @ ELSE held[s]]
    BY <1>5 DEF Send, sessVars, subVars, callVars
  <2>2. CASE held[s] # None /\ sessionOf[s] = id
    <3> DEFINE n == held[s]
    <3>1. n \in 0..seq[id] /\ sent[s] < n /\ n # None
      BY <1>0, <2>1, <2>2 DEF OrderInv, TypeOK
    <3>2. cut[s] # NotCut => n <= cut[s]
      BY <1>0 DEF NothingAfterTheCut
    <3>3. sent' = [sent EXCEPT ![s] = n]
      BY <2>1, <2>2
    <3> HIDE DEF n
    <3>4. shown[s] < n
      BY <1>0, <3>1 DEF ShownOf, TypeOK, None
    <3>5. watch[s] # "off" /\ (watch[s] = "cut" => n <= limit[s])
      BY <2>2, <3>2 DEF WatchState
    <3>6. \A r \in Stream : ShownOf(r, id)' = IF r = s THEN n ELSE ShownOf(r, id)
      BY <1>0, <2>1, <2>2, <3>1, <3>3 DEF ShownOf, TypeOK
    <3>7. \A r \in Stream : WatchState(r, id)' = WatchState(r, id)
      BY <2>1 DEF WatchState
    <3> HIDE DEF WatchState, ShownOf
    <3>8. Feed(id)!AbsShow(s)
      BY <2>1, <3>1, <3>4, <3>5, <3>6, <3>7 DEF Feed!AbsShow
    <3> QED
      BY <3>8
  <2>3. CASE held[s] = None \/ sessionOf[s] # id
    BY <1>0, <2>1, <2>3 DEF Feed!absVars, WatchState, ShownOf, TypeOK
  <2> QED
    BY <2>2, <2>3
<1>6. ASSUME NEW d \in Device, DropDevice(d)
      PROVE  \E D \in SUBSET Stream : Feed(id)!AbsCut(D)
  <2>0. PICK D \in SUBSET Stream : D = {s \in subs : deviceOf[s] = d /\ sessionOf[s] = id}
    BY <1>0 DEF TypeOK
  <2>1. /\ UNCHANGED <<seq, sessionOf, sent>>
        /\ cut' = [s \in Stream |-> IF s \in subs /\ deviceOf[s] = d
                                    THEN seq[sessionOf[s]] ELSE cut[s]]
    BY <1>6 DEF DropDevice, callVars, streamVars
  <2>2. \A s \in D : watch[s] = "on"
    BY <1>0, <2>0 DEF TypeOK, CallInv, WatchState
  <2>3. ASSUME NEW s \in Stream
        PROVE  /\ WatchState(s, id)' = IF s \in D THEN "cut" ELSE WatchState(s, id)
               /\ ShownOf(s, id)' = ShownOf(s, id)
               /\ limit'[s] = IF s \in D THEN seq[id] ELSE limit[s]
    <3>1. cut'[s] = IF s \in subs /\ deviceOf[s] = d THEN seq[sessionOf[s]] ELSE cut[s]
      BY <2>1
    <3>2. seq[id] # NotCut
      BY <1>0 DEF TypeOK, NotCut
    <3> QED
      BY <2>0, <2>1, <3>1, <3>2 DEF WatchState, ShownOf
  <2>4. seq'[id] = seq[id]
    BY <2>1
  <2> HIDE DEF WatchState, ShownOf
  <2>5. Feed(id)!AbsCut(D)
    BY <2>2, <2>3, <2>4 DEF Feed!AbsCut
  <2> QED
    BY <2>5
<1>7. ASSUME NEW i \in Session, Capture(i) PROVE UNCHANGED <<seq, sessionOf, sent, cut>>
  BY <1>7 DEF Capture, sessVars, subVars, callVars, streamVars
<1>8. ASSUME NEW s \in Stream,
             \/ \E i \in Session : SubscribeRefused(s, i)
             \/ Unsubscribe(s) \/ Receive(s) \/ Heartbeat(s) \/ End(s) \/ SendFails(s)
             \/ DropClose(s)
      PROVE  UNCHANGED <<seq, sessionOf, sent, cut>>
  BY <1>8 DEF SubscribeRefused, Unsubscribe, Receive, Heartbeat, End, SendFails, DropClose,
     sessVars, subVars, callVars, streamVars
<1>9. CASE UNCHANGED vars
  BY <1>1, <1>9 DEF vars, sessVars, subVars, callVars, streamVars
<1>10. CASE \E i \in Session : Source(i)
  BY <1>1, <1>2, <1>7, <1>10 DEF Source, Feed!AbsNext
<1>11. ASSUME NEW s \in Stream, Handler(s) \/ DropClose(s)
       PROVE  Feed(id)!AbsNext \/ UNCHANGED Feed(id)!absVars
  <2>1. \/ Feed(id)!AbsOpen(s) \/ Feed(id)!AbsEnd(s) \/ Feed(id)!AbsShow(s)
        \/ UNCHANGED Feed(id)!absVars
    BY <1>1, <1>3, <1>4, <1>5, <1>8, <1>11 DEF Handler
  <2> QED
    BY <2>1 DEF Feed!AbsNext
<1>12. CASE \E d \in Device : DropDevice(d)
  BY <1>6, <1>12 DEF Feed!AbsNext
<1> QED
  BY <1>9, <1>10, <1>11, <1>12 DEF Next

\* Each session of the pane hub implements "latest wins, no history" of
\* LatestWins, for every set of streams, devices and sessions.
THEOREM Refinement == Spec => ImplementsLatestWins
<1>1. Init => \A id \in Session : Feed(id)!AbsInit
  BY DEF Init, Feed!AbsInit, WatchState, ShownOf, None, NotCut
<1>2. IInv /\ [Next]_vars => [FeedSteps]_vars
  BY FeedStep DEF FeedSteps
<1> QED
  BY <1>1, <1>2, IInvHolds, PTL DEF Spec, ImplementsLatestWins
=============================================================================
