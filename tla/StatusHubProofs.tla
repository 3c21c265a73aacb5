--------------------------- MODULE StatusHubProofs ---------------------------
(***************************************************************************)
(* Proofs about StatusHub, for every set of streams and devices and every  *)
(* MaxSeq: type correctness, the inductive invariant IInv and what follows *)
(* from it, and that the hub implements LatestWins.                        *)
(***************************************************************************)
EXTENDS StatusHub, TLAPS

USE StatusHubConstants

\* Every step of publish, dropDevice and the WatchStatus handlers keeps the
\* types of the hub's variables.
LEMMA TypeStep == TypeOK /\ [Next]_vars => TypeOK'
<1> USE DEF Empty, NoFrame, NotCut, MutexFree, hubVars, pubVars, streamVars
<1> SUFFICES ASSUME TypeOK, [Next]_vars PROVE TypeOK'
  OBVIOUS
<1> USE DEF TypeOK
<1>1. ASSUME PublishBegin PROVE TypeOK'
  BY <1>1 DEF PublishBegin
<1>2. ASSUME NEW s \in Stream, PublishOffer(s) PROVE TypeOK'
  BY <1>2 DEF PublishOffer
<1>3. ASSUME PublishDrain PROVE TypeOK'
  <2>0. Empty \in 0..MaxSeq
    OBVIOUS
  <2>1. updates' \in [Stream -> 0..MaxSeq]
    <3> HIDE DEF Empty
    <3> QED BY <1>3, <2>0 DEF PublishDrain
  <2> QED
    BY <1>3, <2>1 DEF PublishDrain
<1>4. ASSUME PublishResend PROVE TypeOK'
  BY <1>4 DEF PublishResend
<1>5. ASSUME PublishEnd PROVE TypeOK'
  BY <1>5 DEF PublishEnd
<1>6. ASSUME NEW s \in Stream, Subscribe(s) PROVE TypeOK'
  BY <1>6 DEF Subscribe
<1>7. ASSUME NEW s \in Stream, Unsubscribe(s) PROVE TypeOK'
  BY <1>7 DEF Unsubscribe
<1>8. ASSUME NEW s \in Stream, UnsubscribeClose(s) PROVE TypeOK'
  BY <1>8 DEF UnsubscribeClose
<1>9. ASSUME NEW s \in Stream, Receive(s) PROVE TypeOK'
  BY <1>9 DEF Receive
<1>10. ASSUME NEW s \in Stream, Heartbeat(s) PROVE TypeOK'
  BY <1>10 DEF Heartbeat
<1>11. ASSUME NEW s \in Stream, SeeGone(s) PROVE TypeOK'
  BY <1>11 DEF SeeGone, Leave
<1>12. ASSUME NEW s \in Stream, Cancel(s) PROVE TypeOK'
  BY <1>12 DEF Cancel, Leave
<1>13. ASSUME NEW s \in Stream, Send(s) PROVE TypeOK'
  BY <1>13 DEF Send
<1>14. ASSUME NEW s \in Stream, SendFails(s) PROVE TypeOK'
  BY <1>14 DEF SendFails, Leave
<1>15. ASSUME NEW s \in Stream, DropClose(s) PROVE TypeOK'
  BY <1>15 DEF DropClose
<1>16. ASSUME NEW d \in Device, DropDevice(d) PROVE TypeOK'
  BY <1>16 DEF DropDevice, StreamsOf
<1>17. CASE UNCHANGED vars
  BY <1>17 DEF vars
<1> QED
  BY <1>1, <1>2, <1>3, <1>4, <1>5, <1>6, <1>7, <1>8, <1>9, <1>10, <1>11, <1>12, <1>13,
     <1>14, <1>15, <1>16, <1>17 DEF Next, Publish, Handler

\* The values the variables start with have these types, so they keep them:
\* every variable of the hub stays well typed.
THEOREM TypeCorrect == Spec => []TypeOK
<1>1. Init => TypeOK
  BY DEF Init, TypeOK, Empty, NoFrame, NotCut
<1> QED
  BY <1>1, TypeStep, PTL DEF Spec

\* The strengthening that makes the safety properties of the hub inductive:
\* every step of publish, dropDevice and the handlers preserves it.
LEMMA IInvStep == IInv /\ [Next]_vars => IInv'
<1> SUFFICES ASSUME IInv, [Next]_vars PROVE IInv'
  OBVIOUS
<1> USE DEF Empty, NoFrame, NotCut, MutexFree, hubVars, pubVars, streamVars
<1>0. TypeOK'
  BY TypeStep DEF IInv
<1>1. ASSUME PublishBegin PROVE IInv'
  <2> USE <1>1 DEF PublishBegin, IInv, TypeOK
  <2>1. PublisherInv'
    BY DEF PublisherInv
  <2>2. OrderInv'
    BY DEF OrderInv, PublisherInv, StreamInv
  <2>3. StreamInv'
    BY DEF StreamInv, PublisherInv, RevokedOnlyWhenDropped
  <2>4. LatestNotLost'
    BY DEF LatestNotLost, UpToDate, PublisherInv, OrderInv, StreamInv
  <2>5. NothingAfterTheCut'
    BY DEF NothingAfterTheCut, PublisherInv, StreamInv, OrderInv
  <2>6. RevokedOnlyWhenDropped'
    BY DEF RevokedOnlyWhenDropped, StreamInv
  <2> QED
    BY <1>0, <2>1, <2>2, <2>3, <2>4, <2>5, <2>6 DEF IInv
<1>2. ASSUME NEW s \in Stream, PublishOffer(s) PROVE IInv'
  <2> USE <1>2 DEF PublishOffer, IInv, TypeOK
  <2>1. PublisherInv'
    BY DEF PublisherInv
  <2>2. OrderInv'
    BY DEF OrderInv, PublisherInv, StreamInv
  <2>3. StreamInv'
    BY DEF StreamInv, PublisherInv, RevokedOnlyWhenDropped
  <2>4. LatestNotLost'
    BY DEF LatestNotLost, UpToDate, PublisherInv, OrderInv, StreamInv
  <2>5. NothingAfterTheCut'
    BY DEF NothingAfterTheCut, PublisherInv, StreamInv, OrderInv
  <2>6. RevokedOnlyWhenDropped'
    BY DEF RevokedOnlyWhenDropped, StreamInv
  <2> QED
    BY <1>0, <2>1, <2>2, <2>3, <2>4, <2>5, <2>6 DEF IInv
<1>3. ASSUME PublishDrain PROVE IInv'
  <2> USE <1>3 DEF PublishDrain, IInv, TypeOK
  <2>1. PublisherInv'
    BY DEF PublisherInv
  <2>2. OrderInv'
    BY DEF OrderInv, PublisherInv, StreamInv
  <2>3. StreamInv'
    BY DEF StreamInv, PublisherInv, RevokedOnlyWhenDropped
  <2>4. LatestNotLost'
    BY DEF LatestNotLost, UpToDate, PublisherInv, OrderInv, StreamInv
  <2>5. NothingAfterTheCut'
    BY DEF NothingAfterTheCut, PublisherInv, StreamInv, OrderInv
  <2>6. RevokedOnlyWhenDropped'
    BY DEF RevokedOnlyWhenDropped, StreamInv
  <2> QED
    BY <1>0, <2>1, <2>2, <2>3, <2>4, <2>5, <2>6 DEF IInv
<1>4. ASSUME PublishResend PROVE IInv'
  <2> USE <1>4 DEF PublishResend, IInv, TypeOK
  <2>1. PublisherInv'
    BY DEF PublisherInv
  <2>2. OrderInv'
    BY DEF OrderInv, PublisherInv, StreamInv
  <2>3. StreamInv'
    BY DEF StreamInv, PublisherInv, RevokedOnlyWhenDropped
  <2>4. LatestNotLost'
    BY DEF LatestNotLost, UpToDate, PublisherInv, OrderInv, StreamInv
  <2>5. NothingAfterTheCut'
    BY DEF NothingAfterTheCut, PublisherInv, StreamInv, OrderInv
  <2>6. RevokedOnlyWhenDropped'
    BY DEF RevokedOnlyWhenDropped, StreamInv
  <2> QED
    BY <1>0, <2>1, <2>2, <2>3, <2>4, <2>5, <2>6 DEF IInv
<1>5. ASSUME PublishEnd PROVE IInv'
  BY <1>0, <1>5 DEF PublishEnd, IInv, TypeOK, PublisherInv, OrderInv,
     StreamInv, LatestNotLost, UpToDate, NothingAfterTheCut,
     RevokedOnlyWhenDropped
<1>6. ASSUME NEW s \in Stream, Subscribe(s) PROVE IInv'
  <2> USE <1>6 DEF Subscribe, IInv, TypeOK
  <2>1. PublisherInv'
    BY DEF PublisherInv
  <2>2. OrderInv'
    BY DEF OrderInv, PublisherInv, StreamInv
  <2>3. StreamInv'
    BY DEF StreamInv, PublisherInv, RevokedOnlyWhenDropped
  <2>4. LatestNotLost'
    BY DEF LatestNotLost, UpToDate, PublisherInv, OrderInv, StreamInv
  <2>5. NothingAfterTheCut'
    BY DEF NothingAfterTheCut, PublisherInv, StreamInv, OrderInv
  <2>6. RevokedOnlyWhenDropped'
    BY DEF RevokedOnlyWhenDropped, StreamInv
  <2> QED
    BY <1>0, <2>1, <2>2, <2>3, <2>4, <2>5, <2>6 DEF IInv
<1>7. ASSUME NEW s \in Stream, Unsubscribe(s) PROVE IInv'
  BY <1>0, <1>7 DEF Unsubscribe, IInv, TypeOK, PublisherInv, OrderInv,
     StreamInv, LatestNotLost, UpToDate, NothingAfterTheCut,
     RevokedOnlyWhenDropped
<1>8. ASSUME NEW s \in Stream, UnsubscribeClose(s) PROVE IInv'
  <2> USE <1>8 DEF UnsubscribeClose, IInv, TypeOK
  <2>1. PublisherInv'
    BY DEF PublisherInv
  <2>2. OrderInv'
    BY DEF OrderInv, PublisherInv, StreamInv
  <2>3. StreamInv'
    BY DEF StreamInv, PublisherInv, RevokedOnlyWhenDropped
  <2>4. LatestNotLost'
    BY DEF LatestNotLost, UpToDate, PublisherInv, OrderInv, StreamInv
  <2>5. NothingAfterTheCut'
    BY DEF NothingAfterTheCut, PublisherInv, StreamInv, OrderInv
  <2>6. RevokedOnlyWhenDropped'
    BY DEF RevokedOnlyWhenDropped, StreamInv
  <2> QED
    BY <1>0, <2>1, <2>2, <2>3, <2>4, <2>5, <2>6 DEF IInv
<1>9. ASSUME NEW s \in Stream, Receive(s) PROVE IInv'
  <2> USE <1>9 DEF Receive, IInv, TypeOK
  <2>1. PublisherInv'
    BY DEF PublisherInv
  <2>2. OrderInv'
    BY DEF OrderInv, PublisherInv, StreamInv
  <2>3. StreamInv'
    BY DEF StreamInv, PublisherInv, RevokedOnlyWhenDropped
  <2>4. LatestNotLost'
    BY DEF LatestNotLost, UpToDate, PublisherInv, OrderInv, StreamInv
  <2>5. NothingAfterTheCut'
    BY DEF NothingAfterTheCut, PublisherInv, StreamInv, OrderInv
  <2>6. RevokedOnlyWhenDropped'
    BY DEF RevokedOnlyWhenDropped, StreamInv
  <2> QED
    BY <1>0, <2>1, <2>2, <2>3, <2>4, <2>5, <2>6 DEF IInv
<1>10. ASSUME NEW s \in Stream, Heartbeat(s) PROVE IInv'
  BY <1>0, <1>10 DEF Heartbeat, IInv, TypeOK, PublisherInv, OrderInv,
     StreamInv, LatestNotLost, UpToDate, NothingAfterTheCut,
     RevokedOnlyWhenDropped
<1>11. ASSUME NEW s \in Stream, SeeGone(s) PROVE IInv'
  BY <1>0, <1>11 DEF SeeGone, Leave, IInv, TypeOK, PublisherInv, OrderInv,
     StreamInv, LatestNotLost, UpToDate, NothingAfterTheCut,
     RevokedOnlyWhenDropped
<1>12. ASSUME NEW s \in Stream, Cancel(s) PROVE IInv'
  BY <1>0, <1>12 DEF Cancel, Leave, IInv, TypeOK, PublisherInv, OrderInv,
     StreamInv, LatestNotLost, UpToDate, NothingAfterTheCut,
     RevokedOnlyWhenDropped
<1>13. ASSUME NEW s \in Stream, Send(s) PROVE IInv'
  <2> USE <1>13 DEF Send, IInv, TypeOK
  <2>1. PublisherInv'
    BY DEF PublisherInv
  <2>2. OrderInv'
    BY DEF OrderInv, PublisherInv, StreamInv
  <2>3. StreamInv'
    BY DEF StreamInv, PublisherInv, RevokedOnlyWhenDropped
  <2>4. LatestNotLost'
    BY DEF LatestNotLost, UpToDate, PublisherInv, OrderInv, StreamInv
  <2>5. NothingAfterTheCut'
    BY DEF NothingAfterTheCut, PublisherInv, StreamInv, OrderInv
  <2>6. RevokedOnlyWhenDropped'
    BY DEF RevokedOnlyWhenDropped, StreamInv
  <2> QED
    BY <1>0, <2>1, <2>2, <2>3, <2>4, <2>5, <2>6 DEF IInv
<1>14. ASSUME NEW s \in Stream, SendFails(s) PROVE IInv'
  BY <1>0, <1>14 DEF SendFails, Leave, IInv, TypeOK, PublisherInv, OrderInv,
     StreamInv, LatestNotLost, UpToDate, NothingAfterTheCut,
     RevokedOnlyWhenDropped
<1>15. ASSUME NEW s \in Stream, DropClose(s) PROVE IInv'
  BY <1>0, <1>15 DEF DropClose, IInv, TypeOK, PublisherInv, OrderInv,
     StreamInv, LatestNotLost, UpToDate, NothingAfterTheCut,
     RevokedOnlyWhenDropped
<1>16. ASSUME NEW d \in Device, DropDevice(d) PROVE IInv'
  <2> USE <1>16 DEF DropDevice, StreamsOf, IInv, TypeOK
  <2>1. PublisherInv'
    BY DEF PublisherInv
  <2>2. OrderInv'
    BY DEF OrderInv, PublisherInv, StreamInv
  <2>3. StreamInv'
    BY DEF StreamInv, PublisherInv, RevokedOnlyWhenDropped
  <2>4. LatestNotLost'
    BY DEF LatestNotLost, UpToDate, PublisherInv, OrderInv, StreamInv
  <2>5. NothingAfterTheCut'
    BY DEF NothingAfterTheCut, PublisherInv, StreamInv, OrderInv
  <2>6. RevokedOnlyWhenDropped'
    BY DEF RevokedOnlyWhenDropped, StreamInv
  <2> QED
    BY <1>0, <2>1, <2>2, <2>3, <2>4, <2>5, <2>6 DEF IInv
<1>17. CASE UNCHANGED vars
  BY <1>17 DEF vars, IInv, TypeOK, PublisherInv, OrderInv, StreamInv, LatestNotLost,
     NothingAfterTheCut, RevokedOnlyWhenDropped, UpToDate
<1> QED
  BY <1>1, <1>2, <1>3, <1>4, <1>5, <1>6, <1>7, <1>8, <1>9, <1>10, <1>11, <1>12, <1>13,
     <1>14, <1>15, <1>16, <1>17 DEF Next, Publish, Handler

\* The inductive invariant holds of the hub from its first state on.
THEOREM IInvHolds == Spec => []IInv
<1>1. Init => IInv
  BY DEF Init, IInv, TypeOK, PublisherInv, OrderInv, StreamInv, LatestNotLost,
     NothingAfterTheCut, RevokedOnlyWhenDropped, Empty, NoFrame, NotCut
<1> QED
  BY <1>1, IInvStep, PTL DEF Spec

\* Coalescing in hub.publish never loses the newest snapshot, however many
\* watchers there are and however their receives fall between its selects.
THEOREM LatestNeverLost == Spec => []LatestNotLost
<1>1. IInv => LatestNotLost
  BY DEF IInv
<1> QED
  BY <1>1, IInvHolds, PTL

\* After hub.dropDevice no later snapshot reaches a stream it removed, and
\* only such a stream is told PermissionDenied.
THEOREM DropIsFinal == Spec => [](NothingAfterTheCut /\ RevokedOnlyWhenDropped)
<1>1. IInv => NothingAfterTheCut /\ RevokedOnlyWhenDropped
  BY DEF IInv
<1> QED
  BY <1>1, IInvHolds, PTL

\* Within a WatchStatus stream the numbers sent strictly increase, so that a
\* surface may drop any frame at or below the one it holds.
THEOREM SentAlwaysIncreases == Spec => SentIncreases
<1>1. IInv /\ [Next]_vars => [SentAdvances]_vars
  <2> SUFFICES ASSUME IInv, Next, NEW t \in Stream, sent'[t] # sent[t]
               PROVE  sent'[t] > sent[t] \/ pc'[t] = "idle"
    BY DEF vars, SentAdvances
  <2>1. \E s \in Stream : Send(s) \/ UnsubscribeClose(s)
    BY DEF Next, Publish, Handler, PublishBegin, PublishOffer, PublishDrain,
       PublishResend, PublishEnd, Subscribe, Unsubscribe, Receive, Heartbeat,
       SeeGone, Cancel, SendFails, Leave, DropClose, DropDevice, streamVars
  <2> QED
    BY <2>1 DEF Send, UnsubscribeClose, IInv, TypeOK, OrderInv, NoFrame
<1> QED
  BY <1>1, IInvHolds, PTL DEF Spec, SentIncreases

\* One step of the hub is one step of LatestWins, or leaves what a surface can
\* see of it unchanged.
LEMMA StepSimulation == IInv /\ [Next]_vars => [Abs!AbsNext]_(Abs!absVars)
<1> SUFFICES ASSUME IInv, [Next]_vars
             PROVE  Abs!AbsNext \/ UNCHANGED Abs!absVars
  OBVIOUS
<1> USE DEF Empty, NoFrame, NotCut, MutexFree, hubVars, pubVars, streamVars,
            Abs!absVars, WatchState, IInv, TypeOK
<1>1. ASSUME PublishBegin PROVE Abs!AbsPublish
  BY <1>1 DEF PublishBegin, Abs!AbsPublish
<1>2. ASSUME \/ \E s \in Stream : PublishOffer(s)
             \/ PublishDrain \/ PublishResend \/ PublishEnd
      PROVE  UNCHANGED Abs!absVars
  BY <1>2 DEF PublishOffer, PublishDrain, PublishResend, PublishEnd
<1>3. ASSUME NEW s \in Stream, Subscribe(s) PROVE Abs!AbsOpen(s)
  BY <1>3 DEF Subscribe, StreamInv, Abs!AbsOpen
<1>4. ASSUME NEW s \in Stream, UnsubscribeClose(s) PROVE Abs!AbsEnd(s)
  BY <1>4 DEF UnsubscribeClose, Abs!AbsEnd
<1>5. ASSUME NEW s \in Stream, Send(s)
      PROVE  Abs!AbsShow(s) \/ UNCHANGED Abs!absVars
  <2>1. CASE held[s] = NoFrame
    BY <1>5, <2>1 DEF Send
  <2>2. CASE held[s] # NoFrame
    <3>1. held[s] \in 0..seq /\ sent[s] < held[s] /\ pc[s] # "idle"
      BY <1>5, <2>2 DEF Send, OrderInv
    <3>2. WatchState(s) = "cut" => held[s] <= cut[s]
      BY DEF NothingAfterTheCut
    <3>3. sent' = [sent EXCEPT ![s] = held[s]]
      BY <1>5, <2>2 DEF Send
    <3>4. UNCHANGED <<seq, cut>> /\ \A r \in Stream : WatchState(r) = WatchState(r)'
      BY <1>5 DEF Send
    <3>5. WatchState(s) # "off"
      BY <3>1
    <3> HIDE DEF WatchState
    <3> QED
      BY <3>1, <3>2, <3>3, <3>4, <3>5 DEF Abs!AbsShow
  <2> QED
    BY <2>1, <2>2
<1>6. ASSUME NEW s \in Stream,
             \/ Unsubscribe(s) \/ Receive(s) \/ Heartbeat(s) \/ SeeGone(s)
             \/ Cancel(s) \/ SendFails(s) \/ DropClose(s)
      PROVE  UNCHANGED Abs!absVars
  BY <1>6 DEF Unsubscribe, Receive, Heartbeat, SeeGone, Cancel, SendFails,
     Leave, DropClose
<1>7. ASSUME NEW d \in Device, DropDevice(d)
      PROVE  Abs!AbsCut(subs \cap StreamsOf(d))
  BY <1>7 DEF DropDevice, StreamsOf, StreamInv, Abs!AbsCut
<1>8. CASE UNCHANGED vars
  BY <1>8 DEF vars
<1>9. \A d \in Device : subs \cap StreamsOf(d) \in SUBSET Stream
  OBVIOUS
<1> HIDE DEF WatchState, IInv, TypeOK, Abs!absVars
<1> QED
  BY <1>1, <1>2, <1>3, <1>4, <1>5, <1>6, <1>7, <1>8, <1>9
  DEF Next, Publish, Handler, Abs!AbsNext

\* The hub of link/hub.go implements "latest wins, no history".
THEOREM Refinement == Spec => ImplementsLatestWins
<1>1. Init => Abs!AbsInit
  BY DEF Init, Abs!AbsInit, WatchState, NoFrame, NotCut
<1> QED
  BY <1>1, IInvHolds, StepSimulation, PTL
  DEF Spec, ImplementsLatestWins, Abs!AbsSpec
=============================================================================
