------------------------------- MODULE PaneHub -------------------------------
(***************************************************************************)
(* Pane streaming: link/panehub.go, with the WatchPane handlers of         *)
(* link/server.go, between the surfaces and the machine's PaneSource.      *)
(*                                                                         *)
(* A Stream is a slot for one WatchPane call and its paneSub, of any       *)
(* device and for any session.  A session the map does not hold yet        *)
(* behaves as one with the zero values.  The server refuses WatchPane      *)
(* without a source, so there is one.  A frame is its number.              *)
(*                                                                         *)
(* Every critical section is one step.  For publish that is a reduction:   *)
(* its three selects per watcher are the code of hub.publish, StatusHub    *)
(* takes them one by one against the receivers, and what they come to is   *)
(* the newest frame in the buffer.                                         *)
(*                                                                         *)
(* The PaneSource is not part of the repository.  It captures frames while *)
(* it is told to produce and hands them over by PublishPane at a later     *)
(* moment: Close is called under the hub's lock, which PublishPane needs,  *)
(* so Close cannot wait for a frame on its way and the frame may come late.*)
(***************************************************************************)
EXTENDS Integers, FiniteSets

CONSTANTS
    Stream,         \* WatchPane calls that can be in progress together
    Device,         \* paired devices
    Session,        \* agent sessions with a pane
    NoCall,         \* the device and session of a slot without a call
    MaxSeq          \* bound on the number of frames published, any two sessions together

ASSUME PaneHubConstants ==
    /\ NoCall \notin Device \cup Session
    /\ MaxSeq \in Nat

VARIABLES
    seq,            \* seq[id]: paneSession.seq
    current,        \* current[id]: the retained frame, None for nil
    open,           \* open[id]: paneSession.open
    subs,           \* the subscribers of all the sessions
    deviceOf,       \* deviceOf[s]: paneSub.deviceID
    sessionOf,      \* sessionOf[s]: the session id of the call of s
    updates,        \* updates[s]: the frame in the buffer of s, or None
    gone,           \* gone[s]: the gone channel of s is closed
    doomed,         \* removed by dropDevice, not closed yet
    pc,             \* pc[s]: where the handler of s is
    held,           \* held[s]: the frame the handler is sending, or None
    sent,           \* sent[s]: the newest frame sent in this call, or None
    verdict,        \* verdict[s]: why the call of s returns or returned
    source,         \* source[id]: Open calls that succeeded minus Close calls
    captured,       \* captured[id]: frames on their way into PublishPane,
                    \*   "live" or "late" (captured before the last Close)
    grab,           \* history, grab[id]: which of the two current[id] was
    cut             \* history: seq of its session when s was dropped, or -1

sessVars == <<seq, current, open>>
callVars == <<deviceOf, sessionOf>>
subVars == <<subs, callVars, updates, gone, doomed>>
streamVars == <<pc, held, sent, verdict>>
sourceVars == <<source, captured, grab>>
vars == <<sessVars, subVars, streamVars, sourceVars, cut>>

None == 0           \* no frame; frames are numbered from 1
NotCut == -1

\* The subscribers sess.subs of one session, among those in S.
WatchersIn(S, id) == {s \in S : sessionOf[s] = id}
Watchers(id) == WatchersIn(subs, id)

MayPublish(id) ==
    \A i \in Session : seq[id] + (IF i = id THEN 0 ELSE seq[i]) < MaxSeq

Init ==
    /\ seq = [id \in Session |-> 0]
    /\ current = [id \in Session |-> None]
    /\ open = [id \in Session |-> FALSE]
    /\ subs = {}
    /\ deviceOf = [s \in Stream |-> NoCall]
    /\ sessionOf = [s \in Stream |-> NoCall]
    /\ updates = [s \in Stream |-> None]
    /\ gone = [s \in Stream |-> FALSE]
    /\ doomed = {}
    /\ pc = [s \in Stream |-> "idle"]
    /\ held = [s \in Stream |-> None]
    /\ sent = [s \in Stream |-> None]
    /\ verdict = [s \in Stream |-> "none"]
    /\ source = [id \in Session |-> 0]
    /\ captured = [id \in Session |-> {}]
    /\ grab = [id \in Session |-> "live"]
    /\ cut = [s \in Stream |-> NotCut]

-----------------------------------------------------------------------------
(* The PaneSource *)

\* The source has read a frame off the terminal and is about to publish it.
Capture(id) ==
    /\ source[id] = 1
    /\ captured' = [captured EXCEPT ![id] = @ \cup {"live"}]
    /\ UNCHANGED <<sessVars, subVars, streamVars, source, grab, cut>>

\* paneHub.publish.  Without a watcher the frame is dropped.
Publish(id, f) ==
    /\ f \in captured[id]
    /\ captured' = [captured EXCEPT ![id] = @ \ {f}]
    /\ \/ /\ Watchers(id) = {}
          /\ UNCHANGED <<seq, current, updates, grab>>
       \/ /\ Watchers(id) # {}
          /\ MayPublish(id)
          /\ seq' = [seq EXCEPT ![id] = @ + 1]
          /\ current' = [current EXCEPT ![id] = seq'[id]]
          /\ updates' = [s \in Stream |->
                           IF s \in Watchers(id) THEN seq'[id] ELSE updates[s]]
          /\ grab' = [grab EXCEPT ![id] = f]
    /\ UNCHANGED <<open, subs, callVars, gone, doomed, streamVars, source, cut>>

-----------------------------------------------------------------------------
(* subscribe, unsubscribe, dropDevice *)

\* Mutant: a watcher that joins is not given the retained frame.
SubscribeWithoutOpening(s, d, id) ==
    /\ pc[s] = "idle"
    /\ s \notin doomed
    /\ deviceOf' = [deviceOf EXCEPT ![s] = d]
    /\ sessionOf' = [sessionOf EXCEPT ![s] = id]
    /\ open' = [open EXCEPT ![id] = TRUE]
    /\ source' = [source EXCEPT ![id] = IF open[id] THEN @ ELSE @ + 1]
    /\ subs' = subs \cup {s}
    /\ updates' = [updates EXCEPT ![s] = None]
    /\ gone' = [gone EXCEPT ![s] = FALSE]
    /\ pc' = [pc EXCEPT ![s] = "select"]
    /\ verdict' = [verdict EXCEPT ![s] = "none"]
    /\ UNCHANGED <<seq, current, doomed, held, sent, captured, grab, cut>>

\* The call reaches its loop, by way of the opening frame if one is retained.
Subscribe(s, d, id) ==
    /\ pc[s] = "idle"
    /\ s \notin doomed
    /\ deviceOf' = [deviceOf EXCEPT ![s] = d]
    /\ sessionOf' = [sessionOf EXCEPT ![s] = id]
    /\ open' = [open EXCEPT ![id] = TRUE]
    /\ source' = [source EXCEPT ![id] = IF open[id] THEN @ ELSE @ + 1]
    /\ subs' = subs \cup {s}
    /\ updates' = [updates EXCEPT ![s] = None]
    /\ gone' = [gone EXCEPT ![s] = FALSE]
    /\ held' = [held EXCEPT ![s] = current[id]]
    /\ pc' = [pc EXCEPT ![s] = IF current[id] = None THEN "select" ELSE "sending"]
    /\ verdict' = [verdict EXCEPT ![s] = "none"]
    /\ UNCHANGED <<seq, current, doomed, sent, captured, grab, cut>>

\* source.Open refuses the first watcher: Unavailable, and nothing is changed.
SubscribeRefused(s, id) ==
    /\ pc[s] = "idle"
    /\ s \notin doomed
    /\ ~open[id]
    /\ verdict' = [verdict EXCEPT ![s] = "unavailable"]
    /\ UNCHANGED <<sessVars, subVars, pc, held, sent, sourceVars, cut>>

\* Mutant: the retained frame outlives the last watcher.
CloseKeepsFrame(ids, S) ==
    LET closing == {id \in ids : WatchersIn(S, id) = {} /\ open[id]} IN
    /\ open' = [id \in Session |-> open[id] /\ id \notin closing]
    /\ source' = [id \in Session |->
                    IF id \in closing THEN source[id] - 1 ELSE source[id]]
    /\ UNCHANGED <<current, captured>>

\* closeIfUnwatchedLocked on each of the sessions in ids, after removal has
\* left the subscribers S.  A frame the source has in hand is late from now on.
CloseIfUnwatched(ids, S) ==
    LET closing == {id \in ids : WatchersIn(S, id) = {} /\ open[id]} IN
    /\ current' = [id \in Session |-> IF id \in closing THEN None ELSE current[id]]
    /\ open' = [id \in Session |-> open[id] /\ id \notin closing]
    /\ source' = [id \in Session |->
                    IF id \in closing THEN source[id] - 1 ELSE source[id]]
    /\ captured' = [id \in Session |->
                      IF id \in closing /\ captured[id] # {} THEN {"late"}
                      ELSE captured[id]]

Unsubscribe(s) ==
    /\ pc[s] = "leaving"
    /\ subs' = subs \ {s}
    /\ CloseIfUnwatched({sessionOf[s]}, subs')
    /\ pc' = [pc EXCEPT ![s] = "closing"]
    /\ UNCHANGED <<seq, callVars, updates, gone, doomed, held, sent, verdict, grab, cut>>

\* The close after the lock; the call returns and its subscriber is garbage.
UnsubscribeClose(s) ==
    /\ pc[s] = "closing"
    /\ gone' = [gone EXCEPT ![s] = TRUE]
    /\ pc' = [pc EXCEPT ![s] = "idle"]
    /\ updates' = [updates EXCEPT ![s] = None]
    /\ sent' = [sent EXCEPT ![s] = None]
    /\ cut' = [cut EXCEPT ![s] = NotCut]
    /\ deviceOf' = [deviceOf EXCEPT ![s] = NoCall]
    /\ sessionOf' = [sessionOf EXCEPT ![s] = NoCall]
    /\ UNCHANGED <<sessVars, subs, doomed, held, verdict, sourceVars>>

\* Mutant: the doomed streams are closed but stay in their sessions.
DropDeviceKeepsSubs(d) ==
    LET dropped == {s \in subs : deviceOf[s] = d} IN
    /\ doomed' = doomed \cup dropped
    /\ cut' = [s \in Stream |-> IF s \in dropped THEN seq[sessionOf[s]] ELSE cut[s]]
    /\ UNCHANGED <<sessVars, subs, callVars, updates, gone, streamVars, sourceVars>>

\* Mutant: dropDevice removes the streams and leaves the source running.
DropDeviceLeavesSource(d) ==
    LET dropped == {s \in subs : deviceOf[s] = d} IN
    /\ subs' = subs \ dropped
    /\ doomed' = doomed \cup dropped
    /\ cut' = [s \in Stream |-> IF s \in dropped THEN seq[sessionOf[s]] ELSE cut[s]]
    /\ UNCHANGED <<sessVars, callVars, updates, gone, streamVars, sourceVars>>

\* dropDevice visits every session, the unwatched ones too.
DropDevice(d) ==
    LET dropped == {s \in subs : deviceOf[s] = d} IN
    /\ subs' = subs \ dropped
    /\ CloseIfUnwatched(Session, subs')
    /\ doomed' = doomed \cup dropped
    /\ cut' = [s \in Stream |-> IF s \in dropped THEN seq[sessionOf[s]] ELSE cut[s]]
    /\ UNCHANGED <<seq, callVars, updates, gone, streamVars, grab>>

DropClose(s) ==
    /\ s \in doomed
    /\ gone' = [gone EXCEPT ![s] = TRUE]
    /\ doomed' = doomed \ {s}
    /\ UNCHANGED <<sessVars, subs, callVars, updates, streamVars, sourceVars, cut>>

-----------------------------------------------------------------------------
(* The WatchPane loop *)

Leave(s, why) ==
    /\ pc' = [pc EXCEPT ![s] = "leaving"]
    /\ held' = [held EXCEPT ![s] = None]
    /\ verdict' = [verdict EXCEPT ![s] = why]

Receive(s) ==
    /\ pc[s] = "select"
    /\ updates[s] # None
    /\ held' = [held EXCEPT ![s] = updates[s]]
    /\ updates' = [updates EXCEPT ![s] = None]
    /\ pc' = [pc EXCEPT ![s] = "sending"]
    /\ UNCHANGED <<sessVars, subs, callVars, gone, doomed, sent, verdict, sourceVars, cut>>

Heartbeat(s) ==
    /\ pc[s] = "select"
    /\ pc' = [pc EXCEPT ![s] = "sending"]
    /\ UNCHANGED <<sessVars, subVars, held, sent, verdict, sourceVars, cut>>

\* Either the device was dropped, or the surface hung up (ctx.Done).
End(s) ==
    /\ pc[s] = "select"
    /\ \/ gone[s] /\ Leave(s, "revoked")
       \/ Leave(s, "cancelled")
    /\ UNCHANGED <<sessVars, subVars, sent, sourceVars, cut>>

\* Mutant: a heartbeat is sent as a frame without a number.
SendAlwaysFrame(s) ==
    /\ pc[s] = "sending"
    /\ sent' = [sent EXCEPT ![s] = held[s]]
    /\ held' = [held EXCEPT ![s] = None]
    /\ pc' = [pc EXCEPT ![s] = "select"]
    /\ UNCHANGED <<sessVars, subVars, verdict, sourceVars, cut>>

\* stream.Send of a frame, or of a heartbeat, which carries none.
Send(s) ==
    /\ pc[s] = "sending"
    /\ sent' = [sent EXCEPT ![s] = IF held[s] = None THEN @ ELSE held[s]]
    /\ held' = [held EXCEPT ![s] = None]
    /\ pc' = [pc EXCEPT ![s] = "select"]
    /\ UNCHANGED <<sessVars, subVars, verdict, sourceVars, cut>>

SendFails(s) ==
    /\ pc[s] = "sending"
    /\ Leave(s, "broken")
    /\ UNCHANGED <<sessVars, subVars, sent, sourceVars, cut>>

-----------------------------------------------------------------------------
(* Operators marked "Mutant" are not part of the specification: each shows  *)
(* that a property depends on the definition that follows it.              *)

Source(id) == Capture(id) \/ \E f \in {"live", "late"} : Publish(id, f)

Handler(s) ==
    \/ \E id \in Session : SubscribeRefused(s, id) \/ \E d \in Device : Subscribe(s, d, id)
    \/ Unsubscribe(s) \/ UnsubscribeClose(s)
    \/ Receive(s) \/ Heartbeat(s) \/ End(s) \/ Send(s) \/ SendFails(s)

Next ==
    \/ \E id \in Session : Source(id)
    \/ \E s \in Stream : Handler(s) \/ DropClose(s)
    \/ \E d \in Device : DropDevice(d)

Spec == Init /\ [][Next]_vars

-----------------------------------------------------------------------------
(* Properties *)

TypeOK ==
    /\ seq \in [Session -> 0..MaxSeq]
    /\ current \in [Session -> 0..MaxSeq]
    /\ open \in [Session -> BOOLEAN]
    /\ subs \subseteq Stream
    /\ deviceOf \in [Stream -> Device \cup {NoCall}]
    /\ sessionOf \in [Stream -> Session \cup {NoCall}]
    /\ updates \in [Stream -> 0..MaxSeq]
    /\ gone \in [Stream -> BOOLEAN]
    /\ doomed \subseteq Stream
    /\ pc \in [Stream -> {"idle", "sending", "select", "leaving", "closing"}]
    /\ held \in [Stream -> 0..MaxSeq]
    /\ sent \in [Stream -> 0..MaxSeq]
    /\ verdict \in [Stream -> {"none", "unavailable", "revoked", "cancelled", "broken"}]
    /\ source \in [Session -> Int]
    /\ captured \in [Session -> SUBSET {"live", "late"}]
    /\ grab \in [Session -> {"live", "late"}]
    /\ cut \in [Stream -> -1..MaxSeq]

\* "the hub drives the PaneSource on watcher-count edges" (paneHub): the
\* source is told Open once for the first watcher and Close once for the last,
\* however subscribe, unsubscribe and dropDevice of several streams and
\* devices interleave ("cannot Close twice", paneSession.open).
SourceFollowsWatchers ==
    \A id \in Session :
        /\ source[id] = IF Watchers(id) = {} THEN 0 ELSE 1
        /\ open[id] <=> Watchers(id) # {}

\* A retained frame is the newest of its session, and it goes with the last
\* watcher, whichever way that watcher leaves (closeIfUnwatchedLocked).
RetainedWhileWatched ==
    \A id \in Session : current[id] # None =>
        current[id] = seq[id] /\ Watchers(id) # {}

UpToDate(s, n) ==
    \/ updates[s] = n
    \/ updates[s] = None /\ (held[s] = n \/ sent[s] = n)
    \/ pc[s] \in {"leaving", "closing"}

\* Every watcher has the retained frame or is about to get it, whether it
\* watched when the frame came or joined later and got it as the opening
\* frame (paneHub.subscribe: "nothing published between "snapshot" and
\* "subscribed" can be missed").
LatestNotLost ==
    \A s \in subs : LET n == current[sessionOf[s]] IN n # None => UpToDate(s, n)

SentAdvances ==
    \A s \in Stream : sent'[s] # sent[s] => sent'[s] > sent[s] \/ pc'[s] = "idle"

\* The numbers sent in one WatchPane stream strictly increase, the opening
\* frame included.
SentIncreases == [][SentAdvances]_vars

\* A frame published after dropDevice removed a stream does not reach it.
NothingAfterTheCut ==
    \A s \in Stream : cut[s] # NotCut =>
        updates[s] <= cut[s] /\ held[s] <= cut[s] /\ sent[s] <= cut[s]

\* closeIfUnwatchedLocked: "drop the retained frame so a later re-watch opens
\* on fresh truth instead of a stale grid": a frame offered as an opening
\* frame was captured since the source was opened for the present watchers.
OpensOnFreshTruth ==
    \A id \in Session : current[id] # None => grab[id] = "live"

-----------------------------------------------------------------------------
(* The refinement *)

WatchState(s, id) ==
    IF sessionOf[s] # id THEN "off"
    ELSE IF cut[s] # NotCut THEN "cut" ELSE "on"

ShownOf(s, id) == IF sessionOf[s] # id \/ sent[s] = None THEN -1 ELSE sent[s]

\* One session, as its watchers see it.
Feed(id) == INSTANCE LatestWins WITH
    seq <- seq[id],
    watch <- [s \in Stream |-> WatchState(s, id)],
    shown <- [s \in Stream |-> ShownOf(s, id)],
    limit <- [s \in Stream |-> IF sessionOf[s] = id THEN cut[s] ELSE NotCut]

FeedSteps == \A id \in Session : UNCHANGED Feed(id)!absVars \/ Feed(id)!AbsNext

\* Every session of the pane hub promises its watchers what the status hub
\* promises, "latest wins, no history" (hub.go, header comment), one slot
\* serving one session after the other: no step for one session shows in the
\* stream of another, and a dropped stream is shown nothing of after the cut.
ImplementsLatestWins ==
    /\ \A id \in Session : Feed(id)!AbsInit
    /\ [][FeedSteps]_vars

-----------------------------------------------------------------------------
(* The inductive invariant of PaneHubProofs *)

\* A call is subscribed from Subscribe until it unsubscribes or its device is
\* dropped, and a slot without a call is clean.
CallInv ==
    /\ \A s \in subs :
         /\ pc[s] \in {"select", "sending", "leaving"}
         /\ cut[s] = NotCut
    /\ \A s \in Stream :
         /\ pc[s] = "idle" => /\ sessionOf[s] = NoCall
                              /\ updates[s] = None
                              /\ sent[s] = None
                              /\ cut[s] = NotCut
         /\ pc[s] # "idle" => sessionOf[s] \in Session
         /\ held[s] # None => pc[s] = "sending"

\* The frame a handler has in hand is newer than what it sent, the buffered one
\* newer than both, and none is newer than the session's last.
OrderInv ==
    /\ \A s \in Stream :
         /\ held[s] # None => sent[s] < held[s]
         /\ updates[s] # None => sent[s] < updates[s] /\ held[s] < updates[s]
    /\ \A s \in Stream : pc[s] # "idle" =>
         /\ updates[s] <= seq[sessionOf[s]]
         /\ held[s] <= seq[sessionOf[s]]
         /\ sent[s] <= seq[sessionOf[s]]

IInv ==
    /\ TypeOK /\ CallInv /\ OrderInv
    /\ SourceFollowsWatchers /\ RetainedWhileWatched
    /\ LatestNotLost /\ NothingAfterTheCut
=============================================================================
