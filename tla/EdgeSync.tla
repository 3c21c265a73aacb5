------------------------------ MODULE EdgeSync ------------------------------
(***************************************************************************)
(* The device side of the edge rail, edgeclient/client.go: Follow's loop   *)
(* of SyncOnce passes (sync, ack, check, execute, submit), and the watch   *)
(* goroutine that nudges it over a channel of capacity one.                *)
(*                                                                         *)
(* The cloud is external.  It is modelled from what the client and its     *)
(* tests rely on: a command is offered until a result resolves it, the     *)
(* first outcome stands and a contradiction is rejected, a session is not  *)
(* spoken of before its receipt, a receipt under a recorded sequence is    *)
(* dropped after its effect, the cursor is the contiguous prefix.          *)
(*                                                                         *)
(* Every RPC may fail, and a batch whose answer is lost may reach the      *)
(* cloud at any later time.  MaxFaults bounds the failed RPCs, broken      *)
(* executor answers, broken streams, crashes and cancellations together.   *)
(* The watch goroutine's channel has no reader once Follow has returned:   *)
(* what it does after that is left out.                                    *)
(***************************************************************************)
EXTENDS Integers, Sequences, FiniteSets, SequencesExt

CONSTANTS
    Command,        \* command ids
    Envelope,       \* Envelope[c]: what the checklist sees of command c
    Poison,         \* commands whose events the cloud rejects
    Outcomes,       \* statuses the executor answers with; "" if it breaks
    MaxUpdates,     \* session facts the agent reports for one command
    Batch,          \* commands offered by one SyncEdge
    WakeStream,     \* whether the cloud offers WatchEdge
    MaxFaults

Statuses == {"succeeded", "failed", "rejected"}

\* The signature verifies or not; the ledger payload is absent, or matches
\* its digest or not; the grant is not named, or its document is missing, wrong
\* (schema, id, run, scope, digest), not signed by the cloud, or in order.
Envelopes == [signed: BOOLEAN,
              payload: {"absent", "matching", "altered"},
              grant: {"none", "missing", "wrong", "forged", "valid"}]

ASSUME EdgeSyncConstants ==
    /\ Envelope \in [Command -> Envelopes]
    /\ Poison \subseteq Command
    /\ Outcomes \subseteq Statuses \cup {""}
    /\ MaxUpdates \in Nat /\ MaxFaults \in Nat
    /\ Batch \in Nat \ {0}
    /\ WakeStream \in BOOLEAN

VARIABLES
    minted,         \* the cloud's commands, in the order of their minting
    outcome,        \* the cloud's ledger: a status, or "none" while pending
    facts,          \* session facts recorded, per command
    receipts,       \* device sequences recorded
    wire,           \* batches sent whose answer the client will not see
    revoked,        \* the machine token is no longer accepted
    signing,        \* the cloud has a key and signs what it mints
    lapsed,         \* commands whose grant has expired
    pc,             \* where Follow is
    cloudKey,       \* Client.cloudKey is known (not nil)
    ctxDone,        \* Follow's context is cancelled
    todo,           \* commands of the pass not executed yet
    seq, events,    \* locals of SyncOnce
    wake,           \* nudges in the wake channel
    stream, unread, \* the wake stream, and whether a WAKE or LISTENING is on it
    faults,         \* faults left
    \* History: whether the cloud was signing when this process registered;
    \* commands that had an effect, each with met of the process they had it in;
    \* commands whose report was taken, the facts a receipt introduces, commands
    \* minted before the last nudge, commands minted before the last SyncEdge.
    met, ran, reported, owed, announced, asked

cloud == <<minted, outcome, facts, receipts, wire, revoked, signing, lapsed, owed>>
pass == <<todo, seq, events>>
watcher == <<wake, stream, unread, announced>>
history == <<ran, reported, asked>>
key == <<cloudKey, met>>
vars == <<cloud, pc, key, ctxDone, pass, watcher, faults, history>>

Init ==
    /\ minted = <<>> /\ outcome = [c \in Command |-> "none"]
    /\ facts = [c \in Command |-> {}] /\ owed = [c \in Command |-> 0]
    /\ receipts = {} /\ wire = {} /\ lapsed = {} /\ revoked = FALSE /\ signing = FALSE
    /\ pc = "start" /\ cloudKey = FALSE /\ met = FALSE /\ ctxDone = FALSE
    /\ todo = <<>> /\ seq = 0 /\ events = <<>>
    /\ wake = 0 /\ stream = "down" /\ unread = FALSE /\ announced = {}
    /\ faults = MaxFaults
    /\ ran = {} /\ reported = {} /\ asked = {}

-----------------------------------------------------------------------------
(* The cloud. *)

PendingAt == {i \in DOMAIN minted : outcome[minted[i]] = "none"}

\* at lists the first Batch of them, in the order of their minting.
FirstPending(at) ==
    /\ \A i, j \in DOMAIN at : i < j => at[i] < at[j]
    /\ \A i \in PendingAt \ Range(at) :
         Len(at) = Batch /\ \A j \in Range(at) : j < i

IsCursor(n) == 1..n \subseteq receipts /\ n + 1 \notin receipts

\* The cloud turns signing on ("Empty means this cloud is not signing yet").
StartSigning ==
    /\ ~signing
    /\ signing' = TRUE
    /\ UNCHANGED <<minted, outcome, facts, receipts, wire, revoked, lapsed, owed, pc,
                   key, ctxDone, pass, watcher, faults, history>>

Mint(c) ==
    /\ c \notin Range(minted)
    /\ Envelope[c].signed \/ Envelope[c].grant = "valid" => signing
    /\ minted' = Append(minted, c)
    /\ unread' = (unread \/ stream = "up")
    /\ UNCHANGED <<outcome, facts, receipts, wire, revoked, signing, lapsed, owed, pc,
                   key, ctxDone, pass, wake, stream, announced, faults, history>>

RevokeToken ==
    /\ ~revoked /\ faults > 0
    /\ revoked' = TRUE /\ faults' = faults - 1
    /\ UNCHANGED <<minted, outcome, facts, receipts, wire, signing, lapsed, owed, pc,
                   key, ctxDone, pass, watcher, history>>

GrantLapses(c) ==
    /\ Envelope[c].grant = "valid" /\ c \notin lapsed
    /\ lapsed' = lapsed \cup {c}
    /\ UNCHANGED <<minted, outcome, facts, receipts, wire, revoked, signing, owed, pc,
                   key, ctxDone, pass, watcher, faults, history>>

IsReceipt(ev, c) == ev.command = c /\ ev.type = "result"

Receipt(batch, c) == CHOOSE ev \in Range(batch) : IsReceipt(ev, c)

\* The ledger after batch: the first outcome of a command stands.
LedgerAfter(batch) ==
    [c \in Command |->
        IF outcome[c] = "none" /\ c \notin Poison
             /\ \E ev \in Range(batch) : IsReceipt(ev, c)
        THEN Receipt(batch, c).status
        ELSE outcome[c]]

\* The i-th event of batch is taken: a result that does not contradict the
\* ledger, a fact whose command has its receipt, here or before.
Takes(batch, i) ==
    LET ev == batch[i] IN
    /\ ev.command \notin Poison
    /\ IF ev.type = "result"
       THEN LedgerAfter(batch)[ev.command] = ev.status
       ELSE \/ outcome[ev.command] # "none"
            \/ \E j \in 1..(i - 1) : IsReceipt(batch[j], ev.command)

Taken(batch) == {batch[i] : i \in {j \in DOMAIN batch : Takes(batch, j)}}

Record(batch) ==
    /\ outcome' = LedgerAfter(batch)
    /\ facts' = [c \in Command |-> facts[c] \cup
                  {ev.index : ev \in {e \in Taken(batch) :
                                        e.command = c /\ e.type = "agent"}}]
    /\ owed' = [c \in Command |->
                  IF outcome'[c] = outcome[c] THEN owed[c]
                  ELSE Receipt(batch, c).owes]
    /\ receipts' = receipts \cup {ev.seq : ev \in Taken(batch)}
    /\ UNCHANGED <<minted, revoked, signing, lapsed>>

\* A batch the client has given up on arrives after all.
LateBatch(batch) ==
    /\ Record(batch)
    /\ wire' = wire \ {batch}
    /\ UNCHANGED <<pc, key, ctxDone, pass, watcher, faults, history>>

-----------------------------------------------------------------------------
(* Register and SyncOnce. *)

\* Mutant: the key of a cloud that signs is not kept.
RegisterForgetsKey ==
    /\ pc = "start" /\ ~revoked
    /\ met' = signing
    /\ pc' = "sync"
    /\ UNCHANGED <<cloud, cloudKey, ctxDone, pass, watcher, faults, history>>

\* Register: the key is what the answer says, nil from a cloud that is not
\* signing.  The caller follows once it has registered, and Follow starts watch
\* beside its loop; nothing registers again before the next process.
Register ==
    /\ pc = "start" /\ ~revoked
    /\ cloudKey' = signing /\ met' = signing
    /\ pc' = "sync"
    /\ UNCHANGED <<cloud, ctxDone, pass, watcher, faults, history>>

\* Mutant: Follow returns on every error.
FollowGivesUp ==
    \/ (revoked \/ ctxDone) /\ pc' = "stopped" /\ UNCHANGED faults
    \/ faults > 0 /\ faults' = faults - 1 /\ pc' = "stopped"

\* Mutant: a refused token is retried like any other error.
FollowRetries ==
    \/ (revoked \/ ctxDone) /\ UNCHANGED faults
         /\ pc' = IF ctxDone THEN "stopped" ELSE "wait"
    \/ faults > 0 /\ faults' = faults - 1
         /\ pc' = IF ctxDone THEN "stopped" ELSE "wait"

\* SyncOnce returned an error: Follow returns on a refused token and on a
\* cancelled context and retries after any other error.
FollowAfterError ==
    \/ (revoked \/ ctxDone) /\ pc' = "stopped" /\ UNCHANGED faults
    \/ faults > 0 /\ faults' = faults - 1
         /\ pc' = IF ctxDone THEN "stopped" ELSE "wait"

\* A call of the pass fails: what the pass collected is gone.
PassFails ==
    /\ FollowAfterError
    /\ todo' = <<>> /\ events' = <<>> /\ seq' = 0
    /\ UNCHANGED <<key, ctxDone, watcher, ran, reported>>

SyncEdge ==
    /\ pc = "sync" /\ ~revoked /\ ~ctxDone
    /\ \E n \in 0..Batch : \E at \in [1..n -> PendingAt] :
        /\ FirstPending(at)
        /\ todo' = [i \in 1..n |-> minted[at[i]]]
        /\ pc' = IF n = 0 THEN "wait" ELSE "ack"
    /\ \E n \in 0..Cardinality(receipts) : IsCursor(n) /\ seq' = n
    /\ asked' = Range(minted)
    /\ UNCHANGED <<cloud, key, ctxDone, events, watcher, faults, ran,
                   reported>>

SyncFails ==
    /\ pc = "sync" /\ PassFails
    /\ asked' = Range(minted)
    /\ UNCHANGED cloud

\* AckCommand is bookkeeping at the cloud and leaves the command pending.
AckCommand ==
    /\ pc = "ack" /\ ~revoked /\ ~ctxDone
    /\ pc' = "exec"
    /\ UNCHANGED <<cloud, key, ctxDone, pass, watcher, faults, history>>

AckFails == pc = "ack" /\ PassFails /\ UNCHANGED <<cloud, asked>>

\* VerifyCommandGrant, with the clock of now: the document is there, over a
\* payload that matches, is the cloud's once its key is known, has not
\* expired and binds this command.
GrantRefused(c) ==
    \/ Envelope[c].grant \in {"missing", "wrong"}
    \/ Envelope[c].payload # "matching"
    \/ cloudKey /\ Envelope[c].grant = "forged"
    \/ c \in lapsed

\* The checklist before execution: the envelope's signature once the cloud's
\* key is known, the payload's digest when the bytes came along, and the
\* grant when one is named.
refuse(c) ==
    \/ cloudKey /\ ~Envelope[c].signed
    \/ Envelope[c].payload = "altered"
    \/ Envelope[c].grant # "none" /\ GrantRefused(c)

resultEvent(c, n, status, updates) ==
    [type |-> "result", command |-> c, seq |-> n, status |-> status,
     index |-> 0, owes |-> updates]

agentEvent(c, n, i) ==
    [type |-> "agent", command |-> c, seq |-> n, status |-> "none",
     index |-> i, owes |-> 0]

\* Mutant: the facts go before the receipt.
EventsOfFactsFirst(c, status, updates) ==
    [i \in 1..updates |-> agentEvent(c, seq + i, i)]
      \o <<resultEvent(c, seq + 1 + updates, status, updates)>>

\* The receipt of command c, then the facts its session gave rise to.
EventsOf(c, status, updates) ==
    <<resultEvent(c, seq + 1, status, updates)>>
      \o [i \in 1..updates |-> agentEvent(c, seq + 1 + i, i)]

\* The command is refused, or executed with any status, and its events join
\* the batch.  The agent is asked for facts in both cases.
Execute(status, updates) ==
    LET c == Head(todo) IN
    /\ pc = "exec"
    /\ status \in IF refuse(c) THEN {"rejected"} ELSE Outcomes
    /\ ran' = IF status = "rejected" THEN ran ELSE ran \cup {<<c, met>>}
    /\ events' = events \o EventsOf(c, status, updates)
    /\ seq' = seq + 1 + updates
    /\ todo' = Tail(todo)
    /\ pc' = IF Len(todo) = 1 THEN "submit" ELSE "ack"
    /\ UNCHANGED <<cloud, key, ctxDone, watcher, faults, reported, asked>>

\* The executor ran and answered with an empty status, or the agent with a
\* fact that names no session or kind: the pass ends with an error.
ExecuteBroken ==
    /\ pc = "exec" /\ faults > 0 /\ "" \in Outcomes
    /\ ran' = IF refuse(Head(todo)) THEN ran ELSE ran \cup {<<Head(todo), met>>}
    /\ faults' = faults - 1
    /\ pc' = IF ctxDone THEN "stopped" ELSE "wait"
    /\ todo' = <<>> /\ events' = <<>> /\ seq' = 0
    /\ UNCHANGED <<cloud, key, ctxDone, watcher, reported, asked>>

\* Mutant: Follow goes round with the commands it holds instead of syncing.
SubmitEventsKeepsList ==
    /\ pc = "submit" /\ ~revoked /\ ~ctxDone
    /\ Record(events) /\ UNCHANGED wire
    /\ reported' = reported \cup
         {ev.command : ev \in {e \in Taken(events) : e.type = "result"}}
    /\ pc' = "exec"
    /\ todo' = <<events[1].command>> /\ events' = <<>> /\ seq' = 0
    /\ UNCHANGED <<key, ctxDone, watcher, faults, ran, asked>>

\* One batch, answered.  Its rejections go into the report and are logged;
\* nothing of them is kept.
SubmitEvents ==
    /\ pc = "submit" /\ ~revoked /\ ~ctxDone
    /\ Record(events) /\ UNCHANGED wire
    /\ reported' = reported \cup
         {ev.command : ev \in {e \in Taken(events) : e.type = "result"}}
    /\ pc' = "wait"
    /\ todo' = <<>> /\ events' = <<>> /\ seq' = 0
    /\ UNCHANGED <<key, ctxDone, watcher, faults, ran, asked>>

\* No answer: the batch is lost, or on its way to the cloud.
SubmitFails ==
    /\ pc = "submit" /\ PassFails
    /\ wire' \in {wire} \cup (IF revoked THEN {} ELSE {wire \cup {events}})
    /\ UNCHANGED <<minted, outcome, facts, receipts, revoked, signing, lapsed, owed,
                   asked>>

-----------------------------------------------------------------------------
(* Follow's wait and the watch goroutine. *)

AfterWait(next) ==
    /\ pc = "wait"
    /\ pc' = next
    /\ UNCHANGED <<cloud, key, ctxDone, pass, stream, unread, announced,
                   faults, history>>

PollTimer == AfterWait("sync") /\ UNCHANGED wake

TakeNudge == wake = 1 /\ wake' = 0 /\ AfterWait("sync")

SeeCancel == ctxDone /\ AfterWait("stopped") /\ UNCHANGED wake

Following == pc \notin {"start", "stopped"}

\* WatchEdge answers, and greets with LISTENING.
WatchOpen ==
    /\ Following /\ ~ctxDone /\ stream = "down" /\ WakeStream /\ ~revoked
    /\ stream' = "up" /\ unread' = TRUE
    /\ UNCHANGED <<cloud, pc, key, ctxDone, pass, wake, announced, faults,
                   history>>

\* Mutant: the wake channel has no buffer.
WatchReceiveUnbuffered ==
    /\ Following /\ stream = "up" /\ unread
    /\ unread' = FALSE
    /\ wake' = IF pc = "wait" THEN 1 ELSE wake
    /\ announced' = Range(minted)
    /\ UNCHANGED <<cloud, pc, key, ctxDone, pass, stream, faults, history>>

\* A WAKE or the greeting arrives: a nudge, unless one is pending.
WatchReceive ==
    /\ Following /\ stream = "up" /\ unread
    /\ unread' = FALSE
    /\ wake' = 1
    /\ announced' = Range(minted)
    /\ UNCHANGED <<cloud, pc, key, ctxDone, pass, stream, faults, history>>

\* The stream breaks and what is on it is lost; watch backs off and reopens.
WatchBreaks ==
    /\ Following /\ stream = "up"
    /\ \/ (revoked \/ ctxDone) /\ UNCHANGED faults
       \/ faults > 0 /\ faults' = faults - 1
    /\ stream' = "down" /\ unread' = FALSE
    /\ UNCHANGED <<cloud, pc, key, ctxDone, pass, wake, announced,
                   history>>

\* Not offered, or not to this token any more, or the context is over.
WatchRetires ==
    /\ Following /\ stream = "down" /\ (~WakeStream \/ revoked \/ ctxDone)
    /\ stream' = "retired"
    /\ UNCHANGED <<cloud, pc, key, ctxDone, pass, wake, unread, announced,
                   faults, history>>

Cancel ==
    /\ Following /\ ~ctxDone /\ faults > 0
    /\ ctxDone' = TRUE /\ faults' = faults - 1
    /\ UNCHANGED <<cloud, pc, key, pass, watcher, history>>

\* The process dies and a new one starts from nothing; a batch it was
\* submitting may be on its way.
Crash ==
    /\ pc # "start" /\ faults > 0
    /\ faults' = faults - 1
    /\ wire' \in {wire} \cup
         (IF pc = "submit" /\ ~revoked THEN {wire \cup {events}} ELSE {})
    /\ pc' = "start" /\ cloudKey' = FALSE /\ met' = FALSE /\ ctxDone' = FALSE
    /\ todo' = <<>> /\ seq' = 0 /\ events' = <<>>
    /\ wake' = 0 /\ stream' = "down" /\ unread' = FALSE /\ announced' = {}
    /\ UNCHANGED <<minted, outcome, facts, receipts, revoked, signing, lapsed, owed,
                   history>>

-----------------------------------------------------------------------------
ExecuteOne == \E status \in Statuses, updates \in 0..MaxUpdates :
                Execute(status, updates)

SyncOnce == SyncEdge \/ SyncFails \/ AckCommand \/ AckFails
              \/ ExecuteOne \/ ExecuteBroken \/ SubmitEvents \/ SubmitFails

Follow == SyncOnce \/ PollTimer \/ TakeNudge \/ SeeCancel

Watch == WatchOpen \/ WatchReceive \/ WatchBreaks \/ WatchRetires

Cloud == \/ \E c \in Command : Mint(c) \/ GrantLapses(c)
         \/ \E batch \in wire : LateBatch(batch)
         \/ RevokeToken \/ StartSigning

Next == Register \/ Follow \/ Watch \/ Cloud \/ Cancel \/ Crash

Spec == Init /\ [][Next]_vars

\* The loop and the watcher keep running, and calls return.
FairSpec == Spec /\ WF_vars(Register) /\ WF_vars(Follow) /\ WF_vars(Watch)

-----------------------------------------------------------------------------
(* Properties. *)

\* Every nudge watch reads is followed by a pass that begins after it, also
\* when the nudge comes while a pass runs: a nudge is in the channel, or a
\* pass is about to call SyncEdge, or one began after the announcement.
NudgesAreFollowed ==
    Following /\ ~(announced \subseteq asked) => wake = 1 \/ pc = "sync"

\* A command that is resolved is never offered again, so all its session
\* facts must have come with its receipt: whatever was lost, repeated,
\* delivered late or sent under a reused sequence.
ResolvedIsComplete ==
    \A c \in Command : outcome[c] # "none" => 1..owed[c] \subseteq facts[c]

\* Once the cloud has taken the report of a command, no pass of this process
\* or a later one executes it again.
NoRerunAfterReport == pc = "exec" => Head(todo) \notin reported

\* Command c fails the structural checks, whatever the clock and the key.
Malformed(c) ==
    LET env == Envelope[c] IN
    \/ env.payload = "altered" \/ env.grant \in {"missing", "wrong"}
    \/ env.grant # "none" /\ env.payload = "absent"

\* Command c, or the grant it spends, does not carry the cloud's signature.
Unauthentic(c) == ~Envelope[c].signed \/ Envelope[c].grant = "forged"

HadEffect(c) == \E signed \in BOOLEAN : <<c, signed>> \in ran

\* A command that is not what the cloud hashed or granted has no effect, in no
\* pass and no process, key or no key, and the cloud never hears another outcome
\* of it than "rejected".  The same holds of one the cloud did not sign, but in
\* the processes that registered before the cloud was signing
\* (VerifyCommandGrant: "the signature check is skipped with the same stated
\* degradation as unsigned envelopes; every structural check still applies").
UnsoundHasNoEffect ==
    \A c \in Command :
        /\ Malformed(c) => ~HadEffect(c) /\ outcome[c] \in {"none", "rejected"}
        /\ Unauthentic(c) => /\ <<c, TRUE>> \notin ran
                             /\ outcome[c] \in {"none", "rejected"} \/ <<c, FALSE>> \in ran

\* Every command the cloud takes results for is resolved in the end, whatever
\* fails on the way and with or without the wake stream, unless the token is
\* revoked or Follow is cancelled.
EveryCommandResolves ==
    \A c \in Command \ Poison :
        (c \in Range(minted)) ~> (outcome[c] # "none" \/ revoked \/ ctxDone)

\* A refused token or a cancelled context ends Follow.
FollowEnds == (revoked \/ ctxDone) ~> (~Following \/ ~(revoked \/ ctxDone))

\* "rejected" says that the device performed no effect.  A report that is lost
\* and a grant that lapses before the next pass make it say so afterwards.
RejectedMeansNoEffect ==
    \A c \in Command : outcome[c] = "rejected" => ~HadEffect(c)

-----------------------------------------------------------------------------
(* The inductive invariant of EdgeSyncProofs *)

Event == [type : {"result", "agent"}, command : Command, seq : Nat,
          status : Statuses \cup {"none"}, index : Nat, owes : Nat]

TypeOK ==
    /\ minted \in Seq(Command)
    /\ outcome \in [Command -> Statuses \cup {"none"}]
    /\ facts \in [Command -> SUBSET Nat] /\ owed \in [Command -> Nat]
    /\ wire \subseteq Seq(Event)
    /\ pc \in {"start", "sync", "ack", "exec", "submit", "wait", "stopped"}
    /\ todo \in Seq(Command) /\ events \in Seq(Event) /\ seq \in Nat
    /\ wake \in {0, 1} /\ reported \subseteq Command
    /\ cloudKey \in BOOLEAN /\ met \in BOOLEAN /\ signing \in BOOLEAN

\* A pass holds commands that were pending when it began, and the key if the
\* process was given one.
PassInv ==
    /\ Following => cloudKey = met
    /\ pc \in {"ack", "exec"} => todo # <<>>
    /\ Range(todo) \cap reported = {}
    /\ announced \subseteq Range(minted)

\* What the cloud has said it took is in its ledger.
ReportInv == \A c \in reported : outcome[c] # "none"

\* A result of a batch says what it is allowed to say, given what ran ...
Honest(batch, effects) ==
    \A ev \in Range(batch) : ev.type = "result" =>
        /\ ev.status # "none"
        /\ Malformed(ev.command) => ev.status = "rejected"
        /\ Unauthentic(ev.command) /\ ev.status # "rejected" => <<ev.command, FALSE>> \in effects

\* ... and every fact it owes comes after it.
Whole(batch) ==
    \A k \in DOMAIN batch : batch[k].type = "result" =>
        \A i \in 1..batch[k].owes : \E m \in DOMAIN batch :
            /\ k < m /\ batch[m].type = "agent"
            /\ batch[m].command = batch[k].command /\ batch[m].index = i

\* The batch being put together, and those the client has given up on.
BatchInv == \A batch \in wire \cup {events} : Honest(batch, ran) /\ Whole(batch)

IInv ==
    /\ TypeOK /\ PassInv /\ ReportInv /\ BatchInv
    /\ NudgesAreFollowed /\ ResolvedIsComplete /\ UnsoundHasNoEffect
=============================================================================
