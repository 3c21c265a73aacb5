------------------------------ MODULE StatusHub ------------------------------
(***************************************************************************)
(* The status fan-out of the direct link: link/hub.go, with the WatchStatus *)
(* handler goroutines of link/server.go that receive from it.              *)
(*                                                                         *)
(* A Stream is one WatchStatus call and the subscriber it owns.  A slot is *)
(* reused by a later call, but never while dropDevice still holds the old  *)
(* subscriber in its doomed list.  The device of a stream is fixed by the  *)
(* slot.                                                                   *)
(*                                                                         *)
(* Snapshots are told apart by their seq alone: seq, current and at are    *)
(* assigned together under hub.mu, so a frame is its number.               *)
(*                                                                         *)
(* hub.mu is held across the whole of publish, whose channel operations    *)
(* are separate steps here because the receivers take no lock: a stream    *)
(* can empty its buffer between any two of them.  The other critical       *)
(* sections touch nothing a receiver touches and are one step each,        *)
(* guarded by the lock being free.                                         *)
(***************************************************************************)
EXTENDS Integers, FiniteSets

CONSTANTS
    Stream,        \* WatchStatus calls that can be in progress together
    Device,        \* paired devices
    DeviceOf,      \* the device each stream belongs to
    NoStream,      \* the publisher has no full buffer in hand
    MaxSeq         \* bound on the number of snapshots published

ASSUME StatusHubConstants ==
    /\ DeviceOf \in [Stream -> Device]
    /\ NoStream \notin Stream
    /\ MaxSeq \in Nat

VARIABLES
    seq,           \* hub.seq (0 before the first publish)
    subs,          \* hub.subs
    updates,       \* updates[s]: the frame in the buffer of capacity 1
    gone,          \* gone[s]: the gone channel of s is closed
    doomed,        \* subscribers dropDevice has removed and not closed yet
    publisher,     \* where the goroutine inside publish is; "out" if none
    todo,          \* subscribers the range loop of publish has not reached
    target,        \* the subscriber whose buffer publish found full
    pc,            \* pc[s]: where the handler of s is
    held,          \* held[s]: the frame the handler is sending
    sent,          \* sent[s]: the newest frame the surface was sent
    verdict,       \* verdict[s]: why the handler of s is returning
    cut            \* history: the value of seq when s was dropped, or NotCut

hubVars == <<subs, gone, doomed>>
pubVars == <<publisher, todo, target>>
streamVars == <<pc, held, sent, verdict>>
vars == <<seq, updates, hubVars, pubVars, streamVars, cut>>

Empty == 0         \* an empty buffer; published frames are numbered from 1
NoFrame == -1      \* nothing held, nothing sent
NotCut == -1

\* hub.mu is held from one step to the next by publish only.
MutexFree == publisher = "out"

StreamsOf(d) == {s \in Stream : DeviceOf[s] = d}

Init ==
    /\ seq = 0
    /\ subs = {}
    /\ updates = [s \in Stream |-> Empty]
    /\ gone = [s \in Stream |-> FALSE]
    /\ doomed = {}
    /\ publisher = "out"
    /\ todo = {}
    /\ target = NoStream
    /\ pc = [s \in Stream |-> "idle"]
    /\ held = [s \in Stream |-> NoFrame]
    /\ sent = [s \in Stream |-> NoFrame]
    /\ verdict = [s \in Stream |-> "none"]
    /\ cut = [s \in Stream |-> NotCut]

-----------------------------------------------------------------------------
(* publish *)

\* Mutant: seq is incremented for every subscriber too.
PublishBeginPerSubscriber ==
    /\ MutexFree
    /\ seq < MaxSeq
    /\ seq' = seq + 1 + Cardinality(subs)
    /\ publisher' = "offer"
    /\ todo' = subs
    /\ UNCHANGED <<updates, hubVars, target, streamVars, cut>>

\* Lock, number the snapshot, start ranging over the subscribers.
PublishBegin ==
    /\ MutexFree
    /\ seq < MaxSeq
    /\ seq' = seq + 1
    /\ publisher' = "offer"
    /\ todo' = subs
    /\ UNCHANGED <<updates, hubVars, target, streamVars, cut>>

\* The first select: the frame goes into an empty buffer; a full one has to
\* be drained first.
PublishOffer(s) ==
    /\ publisher = "offer"
    /\ s \in todo
    /\ \/ /\ updates[s] = Empty
          /\ updates' = [updates EXCEPT ![s] = seq]
          /\ todo' = todo \ {s}
          /\ UNCHANGED <<publisher, target>>
       \/ /\ updates[s] # Empty
          /\ publisher' = "drain"
          /\ target' = s
          /\ UNCHANGED <<updates, todo>>
    /\ UNCHANGED <<seq, hubVars, streamVars, cut>>

\* The second select: whether the stale frame is still there or the handler
\* took it in the meantime, the buffer is empty afterwards.
PublishDrain ==
    /\ publisher = "drain"
    /\ updates' = [updates EXCEPT ![target] = Empty]
    /\ publisher' = "resend"
    /\ UNCHANGED <<seq, hubVars, todo, target, streamVars, cut>>

\* Mutant: the stale frame is drained and the fresh one is not offered again.
PublishResendNothing ==
    /\ publisher = "resend"
    /\ publisher' = "offer"
    /\ todo' = todo \ {target}
    /\ target' = NoStream
    /\ UNCHANGED <<seq, updates, hubVars, streamVars, cut>>

\* The third select gives up when the buffer is full again.
PublishResend ==
    /\ publisher = "resend"
    /\ updates' = [updates EXCEPT
                     ![target] = IF updates[target] = Empty THEN seq ELSE @]
    /\ publisher' = "offer"
    /\ todo' = todo \ {target}
    /\ target' = NoStream
    /\ UNCHANGED <<seq, hubVars, streamVars, cut>>

PublishEnd ==
    /\ publisher = "offer"
    /\ todo = {}
    /\ publisher' = "out"
    /\ UNCHANGED <<seq, updates, hubVars, todo, target, streamVars, cut>>

-----------------------------------------------------------------------------
(* subscribe, unsubscribe, dropDevice *)

\* WatchStatus up to its first Send: a fresh subscriber is registered and the
\* opening frame is taken under the same lock.
Subscribe(s) ==
    /\ pc[s] = "idle"
    /\ s \notin doomed
    /\ MutexFree
    /\ subs' = subs \cup {s}
    /\ updates' = [updates EXCEPT ![s] = Empty]
    /\ gone' = [gone EXCEPT ![s] = FALSE]
    /\ held' = [held EXCEPT ![s] = seq]
    /\ pc' = [pc EXCEPT ![s] = "sending"]
    /\ UNCHANGED <<seq, doomed, pubVars, sent, verdict, cut>>

\* The deferred unsubscribe: delete under the lock ...
Unsubscribe(s) ==
    /\ pc[s] = "leaving"
    /\ MutexFree
    /\ subs' = subs \ {s}
    /\ pc' = [pc EXCEPT ![s] = "closing"]
    /\ UNCHANGED <<seq, updates, gone, doomed, pubVars, held, sent, verdict, cut>>

\* ... and close after it (close is idempotent, by the sync.Once).  The call
\* returns, and what is left of the subscriber is garbage.
UnsubscribeClose(s) ==
    /\ pc[s] = "closing"
    /\ gone' = [gone EXCEPT ![s] = TRUE]
    /\ pc' = [pc EXCEPT ![s] = "idle"]
    /\ updates' = [updates EXCEPT ![s] = Empty]
    /\ sent' = [sent EXCEPT ![s] = NoFrame]
    /\ verdict' = [verdict EXCEPT ![s] = "none"]
    /\ cut' = [cut EXCEPT ![s] = NotCut]
    /\ UNCHANGED <<seq, subs, doomed, pubVars, held>>

\* Mutant: the doomed streams are closed but stay in the hub.
DropDeviceKeepsSubs(d) ==
    LET dropped == subs \cap StreamsOf(d) IN
    /\ MutexFree
    /\ dropped # {}
    /\ doomed' = doomed \cup dropped
    /\ cut' = [s \in Stream |-> IF s \in dropped THEN seq ELSE cut[s]]
    /\ UNCHANGED <<seq, updates, subs, gone, pubVars, streamVars>>

\* dropDevice: the streams of d leave the hub under the lock ...
DropDevice(d) ==
    LET dropped == subs \cap StreamsOf(d) IN
    /\ MutexFree
    /\ dropped # {}
    /\ subs' = subs \ dropped
    /\ doomed' = doomed \cup dropped
    /\ cut' = [s \in Stream |-> IF s \in dropped THEN seq ELSE cut[s]]
    /\ UNCHANGED <<seq, updates, gone, pubVars, streamVars>>

\* Mutant: the streams leave the hub and are never told.
DropCloseForgotten(s) ==
    /\ s \in doomed
    /\ doomed' = doomed \ {s}
    /\ UNCHANGED <<seq, updates, subs, gone, pubVars, streamVars, cut>>

\* ... and are closed one by one after it.
DropClose(s) ==
    /\ s \in doomed
    /\ gone' = [gone EXCEPT ![s] = TRUE]
    /\ doomed' = doomed \ {s}
    /\ UNCHANGED <<seq, updates, subs, pubVars, streamVars, cut>>

-----------------------------------------------------------------------------
(* The WatchStatus loop.  select takes any of its ready cases. *)

Leave(s, why) ==
    /\ pc' = [pc EXCEPT ![s] = "leaving"]
    /\ held' = [held EXCEPT ![s] = NoFrame]
    /\ verdict' = [verdict EXCEPT ![s] = why]

Receive(s) ==
    /\ pc[s] = "select"
    /\ updates[s] # Empty
    /\ held' = [held EXCEPT ![s] = updates[s]]
    /\ updates' = [updates EXCEPT ![s] = Empty]
    /\ pc' = [pc EXCEPT ![s] = "sending"]
    /\ UNCHANGED <<seq, hubVars, pubVars, sent, verdict, cut>>

\* A heartbeat carries no frame.
Heartbeat(s) ==
    /\ pc[s] = "select"
    /\ pc' = [pc EXCEPT ![s] = "sending"]
    /\ UNCHANGED <<seq, updates, hubVars, pubVars, held, sent, verdict, cut>>

SeeGone(s) ==
    /\ pc[s] = "select"
    /\ gone[s]
    /\ Leave(s, "revoked")
    /\ UNCHANGED <<seq, updates, hubVars, pubVars, sent, cut>>

\* ctx.Done: the surface hung up.
Cancel(s) ==
    /\ pc[s] = "select"
    /\ Leave(s, "cancelled")
    /\ UNCHANGED <<seq, updates, hubVars, pubVars, sent, cut>>

\* Mutant: a heartbeat is sent as a snapshot without a number.
SendAlwaysFrame(s) ==
    /\ pc[s] = "sending"
    /\ sent' = [sent EXCEPT ![s] = held[s]]
    /\ held' = [held EXCEPT ![s] = NoFrame]
    /\ pc' = [pc EXCEPT ![s] = "select"]
    /\ UNCHANGED <<seq, updates, hubVars, pubVars, verdict, cut>>

\* stream.Send of the opening frame, of a received frame or of a heartbeat.
Send(s) ==
    /\ pc[s] = "sending"
    /\ sent' = [sent EXCEPT ![s] = IF held[s] = NoFrame THEN @ ELSE held[s]]
    /\ held' = [held EXCEPT ![s] = NoFrame]
    /\ pc' = [pc EXCEPT ![s] = "select"]
    /\ UNCHANGED <<seq, updates, hubVars, pubVars, verdict, cut>>

SendFails(s) ==
    /\ pc[s] = "sending"
    /\ Leave(s, "broken")
    /\ UNCHANGED <<seq, updates, hubVars, pubVars, sent, cut>>

-----------------------------------------------------------------------------
(* Operators marked "Mutant" are not part of the specification: each is a      *)
(* definition as a plausible slip would have it, kept to show that a property *)
(* depends on the definition that follows it.                                 *)

Publish == PublishBegin \/ (\E s \in Stream : PublishOffer(s))
             \/ PublishDrain \/ PublishResend \/ PublishEnd

Handler(s) ==
    \/ Subscribe(s) \/ Unsubscribe(s) \/ UnsubscribeClose(s)
    \/ Receive(s) \/ Heartbeat(s) \/ SeeGone(s) \/ Cancel(s)
    \/ Send(s) \/ SendFails(s)

Next ==
    \/ Publish
    \/ \E s \in Stream : Handler(s) \/ DropClose(s)
    \/ \E d \in Device : DropDevice(d)

Spec == Init /\ [][Next]_vars

(***************************************************************************)
(* Fairness.  Runnable goroutines run: publish, once it has the lock, the  *)
(* closing loop of dropDevice, the tail of unsubscribe.  Go's mutex hands  *)
(* over to a starving waiter, so unsubscribe, whose lock is free again and *)
(* again, gets it (SF).  select picks uniformly among ready cases, so a    *)
(* case that is ready at infinitely many rounds is taken (SF), whatever    *)
(* the heartbeat ticker does.  WF on Send is an assumption on the surface: *)
(* it keeps reading, or its connection breaks.  Nothing obliges the host   *)
(* to publish, a surface to connect or to hang up, or anyone to revoke.    *)
(***************************************************************************)
Fairness ==
    /\ WF_vars(\E s \in Stream : PublishOffer(s))
    /\ WF_vars(PublishDrain \/ PublishResend \/ PublishEnd)
    /\ \A s \in Stream :
         /\ WF_vars(DropClose(s))
         /\ WF_vars(UnsubscribeClose(s))
         /\ WF_vars(Send(s) \/ SendFails(s))
         /\ SF_vars(Unsubscribe(s))
         /\ SF_vars(Receive(s))
         /\ SF_vars(SeeGone(s))

FairSpec == Spec /\ Fairness

-----------------------------------------------------------------------------
(* Properties *)

TypeOK ==
    /\ seq \in 0..MaxSeq
    /\ subs \subseteq Stream
    /\ updates \in [Stream -> 0..MaxSeq]
    /\ gone \in [Stream -> BOOLEAN]
    /\ doomed \subseteq Stream
    /\ publisher \in {"out", "offer", "drain", "resend"}
    /\ todo \subseteq Stream
    /\ target \in Stream \cup {NoStream}
    /\ pc \in [Stream -> {"idle", "sending", "select", "leaving", "closing"}]
    /\ held \in [Stream -> -1..MaxSeq]
    /\ sent \in [Stream -> -1..MaxSeq]
    /\ verdict \in [Stream -> {"none", "revoked", "cancelled", "broken"}]
    /\ cut \in [Stream -> -1..MaxSeq]

\* A watcher that is registered and that the publish in progress has dealt
\* with has the newest snapshot: waiting in its buffer, or, with the buffer
\* empty, in its handler's hand or on the surface already.
UpToDate(s) ==
    \/ updates[s] = seq
    \/ updates[s] = Empty /\ (held[s] = seq \/ sent[s] = seq)
    \/ pc[s] \in {"leaving", "closing"}

\* "Slow watcher skips intermediate snapshots" (hub.publish), and only those:
\* however the handler's receives fall between the three selects of publish,
\* the newest snapshot is never the one that is lost.
LatestNotLost == \A s \in subs \ todo : UpToDate(s)

SentAdvances ==
    \A s \in Stream : sent'[s] # sent[s] => sent'[s] > sent[s] \/ pc'[s] = "idle"

\* A surface holding N can drop any frame <= N (hub, header comment) because
\* within a stream the handler sends strictly increasing numbers.
SentIncreases == [][SentAdvances]_vars

\* hub.dropDevice is the streaming half of revocation: a snapshot published
\* after it returned from its critical section reaches no stream it removed,
\* not from the buffer either.
NothingAfterTheCut ==
    \A s \in Stream :
        cut[s] # NotCut => /\ updates[s] <= cut[s]
                           /\ held[s] <= cut[s]
                           /\ sent[s] <= cut[s]

\* PermissionDenied tells the surface to stop reconnecting (WatchStatus), so
\* only a stream that dropDevice removed may end that way, although the gone
\* channel is closed by unsubscribe too.
RevokedOnlyWhenDropped ==
    \A s \in Stream : verdict[s] = "revoked" => cut[s] # NotCut

\* Every published snapshot reaches every watcher that stays, or a newer one
\* does: WatchStatus never settles on stale truth.
LatestArrives ==
    \A s \in Stream, n \in 1..MaxSeq :
        (s \in subs /\ seq >= n) ~> (sent[s] >= n \/ s \notin subs)

\* A dropped stream ends, even under heartbeats and a pending snapshot
\* (RevokeDevice: "every open stream cancelled").
DroppedStreamEnds ==
    \A s \in Stream : (cut[s] # NotCut) ~> (pc[s] = "idle")

-----------------------------------------------------------------------------
(* The inductive invariant of StatusHubProofs, in parts. *)

\* Where publish is: it works through subscribers (todo shrinks under the
\* lock, subs cannot), and the buffer it has drained stays empty, because
\* receivers only empty it and nobody else sends.
PublisherInv ==
    /\ todo \subseteq subs
    /\ publisher = "out" => todo = {}
    /\ publisher # "out" => seq > 0
    /\ publisher \in {"drain", "resend"} => target \in todo
    /\ publisher = "resend" => updates[target] = Empty

\* sent < held < updates <= seq, wherever there is a frame, and the publish in
\* progress has not shown its frame to the subscribers it has yet to reach.
OrderInv ==
    \A s \in Stream :
        /\ held[s] # NoFrame => sent[s] < held[s]
        /\ updates[s] # Empty => sent[s] < updates[s] /\ held[s] < updates[s]
        /\ updates[s] <= seq /\ held[s] <= seq /\ sent[s] <= seq
        /\ s \in todo => updates[s] < seq /\ held[s] < seq /\ sent[s] < seq

\* A registered subscriber belongs to a call in progress that is not cut; a
\* closed gone channel in the loop is the work of dropDevice.
StreamInv ==
    \A s \in Stream :
        /\ s \in subs => pc[s] \in {"sending", "select", "leaving"} /\ cut[s] = NotCut
        /\ pc[s] = "idle" => sent[s] = NoFrame /\ cut[s] = NotCut
        /\ held[s] # NoFrame => pc[s] = "sending"
        /\ s \in doomed => pc[s] = "idle" \/ cut[s] # NotCut
        /\ gone[s] /\ pc[s] \in {"sending", "select"} => cut[s] # NotCut
        /\ verdict[s] = "revoked" => pc[s] \in {"leaving", "closing"}

IInv ==
    /\ TypeOK
    /\ PublisherInv
    /\ OrderInv
    /\ StreamInv
    /\ LatestNotLost
    /\ NothingAfterTheCut
    /\ RevokedOnlyWhenDropped

-----------------------------------------------------------------------------
(* The promise this fan-out implements: what the surfaces can see of it. *)

WatchState(s) ==
    IF pc[s] = "idle" THEN "off" ELSE IF cut[s] = NotCut THEN "on" ELSE "cut"

Abs == INSTANCE LatestWins WITH
         watch <- [s \in Stream |-> WatchState(s)],
         shown <- sent,
         limit <- cut

\* The hub, its lock and its one-slot buffers implement "latest wins, no
\* history" (hub.go, header comment).
ImplementsLatestWins == Abs!AbsSpec
=============================================================================
