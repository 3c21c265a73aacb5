-------------------------------- MODULE Rails --------------------------------
(***************************************************************************)
(* There and back: what the machine publishes crosses the wire to a        *)
(* surface (Publish, WatchStatus, WatchPane, GetDigest), the user taps     *)
(* something the surface shows, and the request comes back over the link   *)
(* (SubmitCommand, SubmitAnswer), over the cloud, or over both, some       *)
(* moments or minutes later, to the machine's Executor.                    *)
(*                                                                         *)
(* The cloud and the Executor are not part of the repository.  The cloud   *)
(* validates with the same functions by a clock of its own, holds one      *)
(* pending command per key and delivers until it is acked; the Executor    *)
(* delivers a key at most once and may drop what does not apply            *)
(* (link/executor.go).  Who may call is LinkServer's subject, which        *)
(* snapshots of several are seen StatusHub's.                              *)
(***************************************************************************)
EXTENDS Convert, FiniteSets

CONSTANTS
    Snapshots,      \* statuses the machine may publish
    Frames,         \* pane frames the machine may publish
    Digests,        \* digests the machine's DigestSource may have
    HostID,         \* identity.HostID of this host
    Prompts,        \* what the user types
    MaxTaps,        \* bound on the requests the user makes
    MaxMinute,      \* bound on the clock
    MaxDeliveries,  \* bound on the requests that reach the host
    MaxPending      \* MaxCommandPending: what the cloud holds at most

ASSUME RailsConstants ==
    /\ Snapshots \subseteq Status /\ Frames \subseteq PaneFrame
    /\ Digests \subseteq Digest
    /\ HostID \in Text /\ Len(HostID) <= Limit.askID
    /\ Prompts \subseteq Text
    /\ MaxTaps \in Nat /\ MaxMinute \in Nat /\ MaxDeliveries \in Nat
    /\ MaxPending \in Nat

\* What ValidCommand hashes: the prompt of a spawn, and of a say with the minute.
Typed == {TrimSpace(p) : p \in Prompts \cup {Empty}}

\* fnv8 keeps 32 bits and so collides on some prompts; not on those typed here.
ASSUME NoPromptsCollide ==
    /\ \A p, q \in Typed :
         /\ fnv8(p) \in Text /\ Len(fnv8(p)) = 1
         /\ fnv8(p) = fnv8(q) => p = q
    /\ \A p, q \in Typed, m, n \in 0..MaxMinute :
         /\ fnv8(AtMinute(p, m)) \in Text /\ Len(fnv8(AtMinute(p, m))) = 1
         /\ fnv8(AtMinute(p, m)) = fnv8(AtMinute(q, n)) => p = q /\ m = n

VARIABLES
    view,       \* the message the surface received last, and what it is of
    taps,       \* the requests the user has made
    minute,     \* the host's clock: now.Unix() / 60
    outbox,     \* what the cloud has accepted and the machine not acked
    journal,    \* keys the Executor has delivered
    arrived,    \* number of deliveries so far
    done,       \* history: which request took effect, keyed when, as which arrival
    told        \* history: which request was answered how, keyed when

vars == <<view, taps, minute, outbox, journal, arrived, done, told>>

Init ==
    /\ view = [what |-> "nothing"]
    /\ taps = {}
    /\ minute = 0
    /\ outbox = {}
    /\ journal = {}
    /\ arrived = 0
    /\ done = {} /\ told = {}

-----------------------------------------------------------------------------
(* From the machine to the surface *)

\* UTF-8, as far as the structure of runes goes.
Runes(s) ==
    LET follow(b) == CASE b \in 192..223 -> 1 [] b \in 224..239 -> 2
                       [] b \in 240..247 -> 3 [] OTHER -> 0
    IN \A i \in DOMAIN s :
         \/ /\ ~Continues(s[i])
            /\ \A j \in 1..follow(s[i]) : i + j \in DOMAIN s /\ Continues(s[i + j])
         \/ /\ Continues(s[i])
            /\ \E j \in 1..3 : i - j \in DOMAIN s /\ follow(s[i - j]) >= j
                               /\ \A k \in 1..j-1 : Continues(s[i - k])

\* proto.Marshal refuses a message with a string that is not UTF-8.
Texts(T(_), s) == UNION {T(s[i]) : i \in DOMAIN s}

AgentDigestTexts(d) == {d.Headline} \cup {d.Bullets[i] : i \in DOMAIN d.Bullets}

AgentTexts(a) ==
    {a.ID, a.Title, a.Ask, a.AskID, a.Model, a.Now} \cup Texts(AgentDigestTexts, a.Digest)

WorkspaceTexts(w) == {w.Name, w.Branch} \cup Texts(AgentTexts, w.Agents)

UsageTexts(u) ==
    {u.Mode, u.SessionResets, u.WeekAllResets, u.WeekModelName, u.WeekModelResets}

StatusTexts(p) ==
    {p.Hostname, p.RookVersion, p.HostID} \cup Texts(UsageTexts, p.Usage)
    \cup Texts(WorkspaceTexts, p.Workspaces)

PaneTexts(p) == {p.Lines[i].Text : i \in DOMAIN p.Lines}

DigestTexts(p) ==
    {p.ID, p.SessionID, p.Headline, p.FullText, p.Prompt, p.Reply, p.ReplyState,
     p.Model} \cup {p.Bullets[i] : i \in DOMAIN p.Bullets}

Marshals(texts) == \A t \in texts : Runes(t)

Receive(what, own, wire, ok) ==
    /\ Cardinality(taps) < MaxTaps          \* bound: later views are not acted on
    /\ view' = [what |-> what, own |-> own, wire |-> wire, sent |-> ok]
    /\ UNCHANGED <<taps, minute, outbox, journal, arrived, done, told>>

\* Publish stamps the identity and the hub clamps; the handler converts and
\* sends, GetStatus the same snapshot on request.
WatchStatus(s) ==
    LET own == [s EXCEPT !.HostID = HostID]
        wire == statusToProto(ClampStatus(own), minute) IN
    Receive("status", own, wire, Marshals(StatusTexts(wire)))

WatchPane(f) ==
    LET wire == paneToProto(ClampPane(f)) IN
    Receive("pane", f, wire, Marshals(PaneTexts(wire)))

\* The digest of a session the surface was shown.
GetDigest(session, d) ==
    LET wire == digestToProto(ClampDigest(d)) IN
    /\ session # Empty /\ Len(session) <= Limit.askID
    /\ d.SessionID = session
    /\ Receive("digest", d, wire, Marshals(DigestTexts(wire)))

\* What the surface shows: the workspaces and agents of the last status.
Shown == IF view.what = "status" /\ view.sent
         THEN statusFromProto(view.wire).Workspaces ELSE <<>>

Agents == UNION {{w.Agents[i] : i \in DOMAIN w.Agents} :
                 w \in {Shown[i] : i \in DOMAIN Shown}}

-----------------------------------------------------------------------------
(* From the user to the Executor *)

Request(kind, target, workspace, text) ==
    [kind |-> kind, target |-> target, workspace |-> workspace, text |-> text]

\* What can be asked of an agent or a workspace the surface shows.  A surface
\* newer than the host may send a kind the host does not know.
Requests ==
    {Request(k, a.ID, Empty, Empty) :
        k \in {"COMMAND_KIND_COMPACT", "COMMAND_KIND_RESUME",
               "COMMAND_KIND_UNSPECIFIED"}, a \in Agents}
    \cup {Request("COMMAND_KIND_SAY", a.ID, Empty, p) : a \in Agents, p \in Prompts}
    \cup {Request("COMMAND_KIND_SPAWN", Empty, Shown[i].Name, p) :
            i \in DOMAIN Shown, p \in Prompts \cup {Empty}}
    \cup {Request("ANSWER", a.AskID, Empty, p) : a \in Agents, p \in Prompts}

\* The surface forgets the view; the next message may well be the same one.
Tap(r) ==
    /\ Cardinality(taps) < MaxTaps
    /\ r \in Requests \ taps
    /\ taps' = taps \cup {r}
    /\ view' = [what |-> "nothing"]
    /\ UNCHANGED <<minute, outbox, journal, arrived, done, told>>

Tick ==
    /\ minute < MaxMinute
    /\ minute' = minute + 1
    /\ UNCHANGED <<view, taps, outbox, journal, arrived, done, told>>

\* The key of a valid request, none for one that is refused.
KeyOf(r, m) ==
    IF r.kind = "ANSWER"
    THEN LET a == ValidAnswer(r.target, r.text) IN
         IF a = <<>> THEN <<>> ELSE <<[of |-> "answer", key |-> a[1].AskID]>>
    ELSE LET c == ValidCommand(kindFromProto(r.kind), r.target, r.workspace,
                               r.text, m) IN
         IF c = <<>> THEN <<>> ELSE <<[of |-> "command", key |-> c[1].ID]>>

\* The histories tell the minutes apart for a say only: no other key has one.
When(r, m) == IF r.kind = "COMMAND_KIND_SAY" THEN m ELSE 0

\* Executor.Answer or Executor.Execute of request r, keyed in minute m.
Execute(r, key, m, outcome) ==
    /\ outcome \in (IF key \in journal THEN {"Duplicate"} ELSE {"Delivered", "Dropped"})
    /\ journal' = IF outcome = "Delivered" THEN journal \cup {key} ELSE journal
    /\ done' = IF outcome = "Delivered" THEN done \cup {[request |-> r, at |-> When(r, m), nth |-> arrived]}
               ELSE done
    /\ told' = told \cup {[request |-> r, at |-> When(r, m),
                           answer |-> dispositionToProto(outcome)]}

Outcomes == {"Delivered", "Duplicate", "Dropped"}

\* SubmitCommand or SubmitAnswer, keyed by the host's clock.  A surface that
\* missed the answer sends the same request again.
Submit(r, outcome) ==
    LET key == KeyOf(r, minute) IN
    /\ arrived < MaxDeliveries
    /\ key # <<>>
    /\ Execute(r, key[1], minute, outcome)
    /\ arrived' = arrived + 1
    /\ UNCHANGED <<view, taps, minute, outbox>>

\* ValidCommand or ValidAnswer refuses: InvalidArgument, and no effect.
SubmitRefused(r) ==
    /\ arrived < MaxDeliveries
    /\ KeyOf(r, minute) = <<>>
    /\ arrived' = arrived + 1
    /\ told' = told \cup {[request |-> r, at |-> When(r, minute), answer |-> "INVALID"]}
    /\ UNCHANGED <<view, taps, minute, outbox, journal, done>>

\* The cloud accepts what is not pending already, keyed by its own clock, which
\* shows minute m.
CloudAccept(r, m) ==
    LET key == KeyOf(r, m) IN
    /\ key # <<>>
    /\ \A x \in outbox : x.key # key[1]
    /\ Cardinality(outbox) < MaxPending
    /\ outbox' = outbox \cup {[request |-> r, key |-> key[1], at |-> When(r, m)]}
    /\ UNCHANGED <<view, taps, minute, journal, arrived, done, told>>

\* The machine collects it; an ack that is lost leaves it to be collected again.
CloudDeliver(x, outcome, acked) ==
    /\ arrived < MaxDeliveries
    /\ Execute(x.request, x.key, x.at, outcome)
    /\ outbox' = IF acked THEN outbox \ {x} ELSE outbox
    /\ arrived' = arrived + 1
    /\ UNCHANGED <<view, taps, minute>>

Next ==
    \/ \E s \in Snapshots : WatchStatus(s)
    \/ \E f \in Frames : WatchPane(f)
    \/ \E a \in Agents, d \in Digests : GetDigest(a.ID, d)
    \/ \E r \in Requests : Tap(r)
    \/ Tick
    \/ \E r \in taps : \/ SubmitRefused(r)
                       \/ \E o \in Outcomes : Submit(r, o)
                       \/ \E m \in 0..MaxMinute : CloudAccept(r, m)
    \/ \E x \in outbox, o \in Outcomes, acked \in BOOLEAN : CloudDeliver(x, o, acked)

Spec == Init /\ [][Next]_vars

-----------------------------------------------------------------------------
(* Properties *)

\* "cut on a rune boundary so a clipped title stays valid UTF-8" (clip):
\* whatever is cut off, one long text never makes a message unsendable, which
\* would end every watcher's stream.
AlwaysSendable ==
    /\ view.what = "status" /\ Marshals(StatusTexts(view.own)) => view.sent
    /\ view.what = "pane" /\ Marshals(PaneTexts(view.own)) => view.sent
    /\ view.what = "digest" /\ Marshals(DigestTexts(view.own)) => view.sent

\* A handle the machine can take back: within the limit, without outer spaces.
Proper(h, n) == h # Empty /\ Len(h) <= n /\ TrimSpace(h) = h

\* A session, a workspace or an ask the surface shows can be named in a
\* request, and the request names the machine's own: the clamps of the way
\* out (Status.Clamp) and the checks of the way back (ValidCommand,
\* ValidAnswer) agree on every handle.
HandlesComeBack ==
    \A i \in DOMAIN Shown :
        LET w == Shown[i]
            spawn == ValidCommand(Spawn, Empty, w.Name, Empty, minute)
            own == view.own.Workspaces[i] IN
        /\ TrimSpace(w.Name) # Empty => spawn # <<>>
        /\ Proper(own.Name, Limit.workspaceName) => spawn[1].Workspace = own.Name
        /\ \A j \in DOMAIN w.Agents :
             LET a == w.Agents[j]
                 b == own.Agents[j]
                 compact == ValidCommand(Compact, a.ID, Empty, Empty, minute)
                 answer == ValidAnswer(a.AskID, <<121>>) IN
             /\ TrimSpace(a.ID) # Empty => compact # <<>>
             /\ TrimSpace(a.AskID) # Empty => answer # <<>>
             /\ Proper(b.ID, Limit.askID) => compact[1].SessionID = b.ID
             /\ Proper(b.AskID, Limit.askID) => answer[1].AskID = b.AskID

\* The canon of states, and numbers the wire has room for.
Plain(s) ==
    /\ \A i \in DOMAIN s.Usage :
         {s.Usage[i].SessionPct, s.Usage[i].WeekAllPct, s.Usage[i].WeekModelPct}
           \subseteq Int32
    /\ \A i \in DOMAIN s.Workspaces :
         /\ s.Workspaces[i].Attention \in Int32
         /\ \A j \in DOMAIN s.Workspaces[i].Agents :
              s.Workspaces[i].Agents[j].State \in {Working, NeedsInput, Quiet, Empty}

\* convert_test: "any clamped projection survives the wire shape unchanged",
\* where its numbers fit and its states are known; so what is within the
\* limits is shown as the machine has it.  An agent's context percentage is
\* shown as it is or not at all, however far out of range; the percentages of
\* the usage and the attention count wrap when they do not fit.
ArrivesWhole ==
    /\ view.what = "status" =>
         LET own == view.own
             shown == statusFromProto(view.wire) IN
         /\ Plain(own) => shown = ClampStatus(own)
         /\ \A i \in DOMAIN shown.Workspaces :
              \A j \in DOMAIN shown.Workspaces[i].Agents :
                shown.Workspaces[i].Agents[j].CtxPct
                  \in {0, own.Workspaces[i].Agents[j].CtxPct}
    /\ view.what = "pane" /\ {view.own.CursorX, view.own.CursorY} \subseteq Int32 =>
         paneFromProto(view.wire) = ClampPane(view.own)
    /\ view.what = "digest" => digestFromProto(view.wire) = ClampDigest(view.own)

\* Two requests that ask for the same thing: of a command its fields, as the
\* Executor gets them; of an answer the ask it is to.
Same(r, q) ==
    /\ r.kind = q.kind
    /\ TrimSpace(r.target) = TrimSpace(q.target)
    /\ TrimSpace(r.workspace) = TrimSpace(q.workspace)
    /\ r.kind # "ANSWER" => TrimSpace(r.text) = TrimSpace(q.text)

\* Everything but a say takes effect once, by whichever rails, however often
\* and however late it arrives, and so do two requests alike ("makes a command
\* delivered over two rails one command", Command); a say does in every minute
\* that some rail keys it in.
KeyedOnce ==
    \A e, f \in done : e.nth # f.nth /\ Same(e.request, f.request) =>
        e.request.kind = "COMMAND_KIND_SAY" /\ e.at # f.at

\* "The bucket keeps what dedup is FOR (double-taps, a two-rail race)"
\* (ValidCommand): one tap takes effect once.  It does not for a say whose two
\* arrivals are keyed on either side of a full minute, or by two clocks.
OneTapOneEffect ==
    \A e, f \in done : e.request = f.request => e.nth = f.nth

\* "lets deliberate repetition through" (ValidCommand): a request is answered
\* DUPLICATE only when one that asks for the same took effect, a say one of
\* the same minute; different requests never share a key.
NothingSwallowed ==
    \A e \in told : e.answer = "DISPOSITION_DUPLICATE" =>
        \E f \in done : /\ Same(e.request, f.request)
                        /\ e.request.kind = "COMMAND_KIND_SAY" => f.at = e.at

-----------------------------------------------------------------------------
(* What the proofs rest on *)

\* A message is what the converters make of the clamped original.
ViewInv ==
    \/ view = [what |-> "nothing"]
    \/ /\ view.what = "status" /\ view.own \in Status
       /\ \E at \in 0..MaxMinute : view.wire = statusToProto(ClampStatus(view.own), at)
       /\ view.sent <=> Marshals(StatusTexts(view.wire))
    \/ /\ view.what = "pane" /\ view.own \in PaneFrame
       /\ view.wire = paneToProto(ClampPane(view.own))
       /\ view.sent <=> Marshals(PaneTexts(view.wire))
    \/ /\ view.what = "digest" /\ view.own \in Digest
       /\ view.wire = digestToProto(ClampDigest(view.own))
       /\ view.sent <=> Marshals(DigestTexts(view.wire))

\* A request of a surface, and a minute its key may carry.
Asked == {r \in [kind : CommandKind \cup {"ANSWER"}, target : Text, workspace : Text,
                 text : Prompts \cup {Empty}] :
            r.kind = "ANSWER" => r.workspace = Empty}

Keyed(e) == e.request \in Asked /\ e.at \in 0..MaxMinute

\* Whatever waits has the key of its request.
PendingInv ==
    /\ taps \subseteq Asked
    /\ \A x \in outbox : Keyed(x) /\ KeyOf(x.request, x.at) = <<x.key>>

\* What took effect, and only that, is in the journal, a key once; what was
\* answered DUPLICATE is in the journal.
EffectInv ==
    /\ \A e \in done : /\ Keyed(e) /\ e.nth \in 0..arrived-1
                       /\ \E k \in journal : KeyOf(e.request, e.at) = <<k>>
    /\ \A k \in journal : \E e \in done : KeyOf(e.request, e.at) = <<k>>
    /\ \A e, f \in done : KeyOf(e.request, e.at) = KeyOf(f.request, f.at) => e.nth = f.nth
    /\ \A e \in told : e.answer = "DISPOSITION_DUPLICATE" =>
         Keyed(e) /\ \E k \in journal : KeyOf(e.request, e.at) = <<k>>

CountInv ==
    /\ IsFiniteSet(taps) /\ Cardinality(taps) <= MaxTaps
    /\ IsFiniteSet(outbox) /\ Cardinality(outbox) <= MaxPending
    /\ minute \in 0..MaxMinute /\ arrived \in 0..MaxDeliveries
    /\ \A e \in told : e.answer \in Disposition \cup {"INVALID"}

IInv == ViewInv /\ PendingInv /\ EffectInv /\ CountInv
=============================================================================
