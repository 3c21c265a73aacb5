# A TLA+ verification of rook-host

rook-host is the machine side of Rook: it pairs phones with a host, publishes
the host's status and its terminal panes to them over a direct link, takes
answers and commands from them, and plays the device in the cloud's edge
protocol. This directory holds TLA+ models of it, the TLC runs that check them
and TLAPS proofs about them. The models are translated from the Go source; where
they abstract from it, the header of the module says how.

## 1. Inventory

| Component | State | Operations | Interacts with |
|---|---|---|---|
| Status hub (`link/hub.go`) | `seq`, current snapshot, subscribers, each with a one-slot buffer and a `gone` channel; one mutex | `publish`, `snapshot`, `subscribe`, `unsubscribe`, `dropDevice` | WatchStatus goroutines (channels), RevokeDevice and Pair (calls) |
| Pane hub (`link/panehub.go`) | the same per session, plus the retained frame and `open` | the same per session, `closeIfUnwatchedLocked` | WatchPane goroutines, the external `PaneSource` (Open/Close called under the lock, PublishPane called back) |
| Challenges and tokens (`link/tokens.go`) | two maps with expiries, in memory | `mint`, `consume`, `resolve`, `dropDevice` | the server's handlers |
| Registry (`registry/registry.go`) | device map in memory, registry file | `Add`, `SetCapabilities`, `Touch`, `Revoke`, `Get`, `List`, `Allowed`, `Open` | the server's handlers, the file system |
| Pairing window (`pairing/pairing.go`) | at most one secret with an expiry | `Open`, `Close`, `Redeem` | the host UI, Pair |
| Link server (`link/server.go`) | none of its own: the stores above | Pair, Challenge, Authenticate, GetStatus, WatchStatus, WatchPane, GetDigest, SubmitAnswer, SubmitCommand, RevokeDevice, Publish, PublishPane | surfaces (RPC), executor |
| Edge client (`edgeclient/client.go`) | cloud key, wake channel | `Register`, `SyncOnce`, `Follow`, `watch` | the cloud (RPC), executor |
| Projection (`projection/projection.go`) and `link/convert.go` | none | `ValidAnswer`, `ValidCommand`, `Clamp`, `clip`, conversions | both rails |
| Edge signatures (`edgesign`), identity (`identity`) | the identity file | canonical encodings, signatures, grant checklist, `LoadOrCreate` | server, edge client |
| Transport (`transport`), Bonjour (`bonjour`) | the listener and its failure; the registered record | `Listen`, `Err`, `Shutdown`, `Addrs`; `Advertise`, `Stop` | the embedding host |

What is hard in it:

* *Concurrency.* Every RPC is a goroutine. Each store has its own mutex, no
  handler holds one across two stores, and hub receivers take no lock at all. So
  a handler is a sequence of critical sections with anything in between: a
  revocation between a check and its use, a receive between two channel
  operations of a publish.
* *Failure.* The registry changes memory before it writes the file, and the
  write may fail or the process die in it. A handler that returns early leaves
  the rest of its steps undone.
* *Time.* Windows, challenges and tokens expire between any two steps.
* *Delivery.* The edge client keeps no journal: a lost answer, a crash or a
  failed call repeats executions and reuses sequence numbers, and the first batch
  may still arrive.
* *Ordering.* Surfaces collapse races by `seq`; frames wait in a buffer, in a
  handler's hand and in a source's.
* *Two rails.* A request may come over the link, the cloud or both, minutes
  apart; only the natural key makes it one.
* *Boundaries.* Limits are in bytes and texts in runes, integers shrink on the
  wire, clamps of the way out and checks of the way back are separate code,
  signatures cover bytes and not fields.

What makes each part correct: a watcher sees increasing numbers and ends up with
the newest (hubs); the source runs exactly while somebody watches (pane hub); a
secret or challenge works once (credentials); what was acknowledged survives a
crash (registry); after RevokeDevice the device is out (server); every command is
resolved, completely and without a repetition after its report (edge client);
what a surface shows can be sent, is what the machine has and can be named in a
request, which takes effect once (projection, conversion, keys); a signature or a
grant admits what was signed or approved and nothing else (statements); a paired
device finds the same host after every restart (identity, transport). The list of
hazards in `PROJECT.json` names the lines where each of these could go wrong.

## 2. Modules

| Module | Models | Notes |
|---|---|---|
| `StatusHub` | `link/hub.go`, the WatchStatus loop | one step per channel operation of `publish` |
| `LatestWins` | what a hub promises its watchers | abstract; `StatusHub` and each session of `PaneHub` implement it |
| `AtomicRegistry` | what the registry promises its callers | abstract; `Registry` implements it |
| `PaneHub` | `link/panehub.go`, the WatchPane loop, the PaneSource (external) | one step per critical section |
| `Registry` | `registry/registry.go` with the file and process crashes | one step per file operation |
| `LinkServer` | the handlers of `link/server.go` over registry, pairing window, challenges, tokens and stream tables | composes the parts; one step per critical section |
| `EdgeSync` | `edgeclient/client.go` with the checks it uses of `edgesign`, the cloud (external) | one step per call of a pass |
| `Projection` | `projection/projection.go`: types, Clamps, `clip`, validation, keys | pure operators |
| `Convert` | `link/convert.go` and the messages it fills | pure operators, with widths |
| `Rails` | a message's way to a surface and a request's way back, over link and cloud | uses `Convert` and `Projection`; cloud and executor external |
| `Statements` | `identity/sign.go`, `edgesign/`: canonical bytes, signatures, grants, `refuse` | signatures and fields paired freely |
| `FrontDoor` | `identity/identity.go`, `transport/`, `bonjour/`, the pairing code | several runs of the process, of either build |
| `StatusHubProofs`, `PaneHubProofs`, `RegistryProofs`, `LinkServerProofs`, `EdgeSyncProofs`, `RailsProofs`, `StatementsProofs`, `FrontDoorProofs` | | TLAPS proofs about the module of that name |
| `MC...` | | instances for TLC |

**StatusHub.** `subs`, `updates[s]`, `gone[s]` are the hub's table, the buffer
and the channel of a subscriber; `publisher`, `todo`, `target` are the local
state of the goroutine inside `publish`, which is also what holds `hub.mu` from
one step to the next; `pc`, `held`, `sent`, `verdict` are a handler's. A frame is
its number, because `seq`, `current` and `at` are assigned together under the
lock. `PublishOffer`, `PublishDrain`, `PublishResend` are the three selects;
between them a handler may `Receive`. `Subscribe`, `Unsubscribe` and
`DropDevice` are critical sections; `UnsubscribeClose` and `DropClose` are the
closing of `gone` after them. The authorization before `Subscribe` is
`LinkServer`'s subject. `cut` records the number at which a stream was dropped.

**PaneHub.** Same streams; a stream's device and session are fixed when it is
called, so one instance has every combination. `publish` is one step here: the
selects are the same code, and `StatusHub` shows what they come to. `source[id]`
counts Open minus Close calls. The source hands frames over some time after it
captured them (`captured`); a frame captured before a Close is marked late.
`Feed(id)` is a session seen by itself, as `LatestWins` would have it: to it a stream
of another session is one that is not watching.

**Registry.** `phase` says how far the holder of `Registry.mu` has come in
changing memory, writing the temporary file, renaming it and returning.
`PersistFails` is an error of any of the file operations, `Crash` and `Open` the
end of the process and its next start. `since[d]` is a history: the entry of `d`
last acknowledged and all it was given after that; so are `was`, the entry the
operation under way found, `told[d]`, what the last operation on `d` asked for, and
`unsaved`, the devices whose caller was given an error and after whom nobody saved. `Seen` is what callers will have seen once the lock is
free: an operation happens when its file is renamed, or when `persistLocked` gives
up, and a process that dies before either has never begun it.

**LinkServer.** A call has a program counter; its locals are the RPC, the
device, the credential and the registration copied by Authenticate. The registry
is a memory map and a file with `persistLocked` as one step that succeeds or
not: a simplification that the refinement of `AtomicRegistry` by the step-by-step
`Registry` justifies for what other goroutines can see. The two hubs are one table of
subscribed calls, dropped in two steps as the code does. Expiry is a set that
may grow at any time. `Restart` loses everything but the file. A registration is
told apart by the secret that enrolled it. `voided[d]` are the registrations of `d`
that a revocation on disk has ended, `dead` the devices whose RevokeDevice returned
nil and that `Add` has not put back into memory, saved or not; `raced` the calls that
had passed their check when a drop came (and the tokens they mint).

**EdgeSync.** `pc` is where Follow is: about to call SyncEdge, AckCommand, the
executor or SubmitEvents, or in its select. `todo`, `seq`, `events` are SyncOnce's
locals, which every error discards (`PassFails`). `wake` is the channel of
capacity one, `stream` and `unread` the wake stream that `watch` reads. An
envelope is what the checks tell apart: its signature, payload and grant; a grant
may lapse at any time. The cloud has no key at first and may get one at any moment
(`StartSigning`); what a process learns is what the cloud had when it registered
(`met`), and a process without a key executes unsigned commands, as `refuse` and
`grant.go` say. The cloud is external, modelled from the comments and the
fake of `client_test.go`: the first outcome of a command stands, its facts need
its receipt, receipts are kept per sequence, commands in `Poison` have all their
events rejected. `SubmitFails` and `Crash` may leave the batch in `wire`, from
where it arrives at any time or never. `AckCommand` changes nothing the client
sees again.

**Projection and Convert.** A string is the sequence of its bytes, so that `clip`
can cut inside a rune; a pointer is a sequence of at most one value. The limits are
one record (`Limit`), because TLC checks small ones in the proportions of the real.
`fnv8` is a parameter; `MCRails` gives it FNV-1a with 16 bits. `int32` and `uint32`
wrap at `Width` bits. Converters are written as what they change of the record:
widths, timestamps, enums. The limit on a workspace's name is written twice in the
source, in `Clamp` and in `ValidCommand`; `LimitsAreNatural` says that they agree.

**Rails.** `view` is the message a surface received last, with what the machine
published (`own`). `Tap` is a user's request about something shown; `Submit` is the
link's handler with the executor, `CloudAccept` and `CloudDeliver` the other rail,
which keys a request by a clock of its own and where a lost ack delivers again. `done` and `told` are histories: what took effect,
and what was answered. The order of snapshots is `StatusHub`'s subject and who may
call `LinkServer`'s.

**Statements.** `signed` and `approved` are what was signed or approved so far;
each check pairs any signature with any statement of the instance, and any grant
with any command, also with its expiry rewritten. `canonical` builds the bytes
field by field, as `ActionDigest` does without lengths. A time is any integer of
nanoseconds or absent, and is signed as `UnixNano` gives it: 0 for none, wrapped
outside 64 bits (`nanosOf`; `Word` stands for 2^64). `Admits` is `refuse`, with
the case of a client that learned no key.

**FrontDoor.** `file`, `tmp` are the identity file and its temporary, `proc` how far
`LoadOrCreate` has come, with `Die` between any two steps; `backup` is what somebody
else's damage to the file can be repaired from. `done` is the listener's channel.
`build` is which of the two Bonjour implementations
was compiled in; `advert` is what the network sees of the advertiser whose goroutine
is `responder`, and with the one that is not darwin's it may be seen for a while
after the process died (`RecordExpires`). A pairing code is kept with what the host
put into it, so that `ParseURL` can be compared. Its URL is text: the port's decimal
digits, the addresses joined with commas, because a port out of range and an empty
list of hints are where the two sides could differ. `Join`, `Split`, `Itoa` and `Atoi` are
recursive functions over positions.

Operators marked *Mutant* are slips a maintainer could make; replacing the
definition that follows by the mutant makes TLC find the property violated.

## 3. Runs

| Run | Instance | Shows |
|---|---|---|
| `status_hub` | 2 streams of 2 devices, 2 snapshots, fairness | types, `LatestNotLost`, `NothingAfterTheCut`, refinement of `LatestWins`; `LatestArrives`, `DroppedStreamEnds` |
| `pane_hub` | 2 streams, each of either of 2 devices and on either of 2 sessions, 3 frames | `SourceFollowsWatchers`, `RetainedWhileWatched`, `LatestNotLost`, `NothingAfterTheCut`, refinement of `LatestWins` per session |
| `registry` | 2 devices, one known and one unknown capability | `FileKeepsPromises`, `MemoryKeepsPromises`, refinement of `AtomicRegistry` |
| `link_server` | 1 device, 3 calls, 2 secrets, 1 challenge, 1 token, every RPC, failing writes, restarts | `SingleUse`, `RevocationIsDurable`, `RevocationIsComplete` |
| `edge_sync` | 2 commands, one with a grant, one unsigned and poisoned, a cloud that begins to sign at any time, 2 faults, the wake stream, fairness | `NudgesAreFollowed`, `ResolvedIsComplete`, `NoRerunAfterReport`, `UnsoundHasNoEffect`; `EveryCommandResolves`, `FollowEnds` |
| `rails` | 4 snapshots, 2 frames, 2 digests at and beyond the limits, 2 requests, 2 deliveries, 2 minutes on each rail's clock | `AlwaysSendable`, `HandlesComeBack`, `ArrivesWhole`, `KeyedOnce`, `NothingSwallowed` |
| `statements` | fields that are equal when joined, times that are absent, the epoch, negative and wrapped, 1 signature, 1 grant, a clock of 2 | `AcceptedAsMeant`, `LedgerIsTheClouds`, `GrantIsForThisAction`, `MeantIsAccepted` |
| `front_door` | both builds, 3 starts, 2 windows, bytes of 2 bits | `PairedStillTrusted`, `ComesBackTheSame`, `CodeLeadsHere`, `AdvertLeadsHere` |

Four more runs expect a violation; see below. A type invariant is checked where it
is proved as a theorem of its own (`StatusHub`); in the other modules it documents
the variables and is part of the inductive invariant.

*Bounds.* The proofs of section 4 remove the bounds below for every safety property;
they are the reasons why TLC's instances are worth running, and all there is for
liveness. Two snapshots make one wait in a buffer while the next is published, so
every select of `publish` and a receive between two of them happen; two streams
suffice because streams interact only through the lock and the publisher's loop.
In the pane hub three frames are one
more than a stream holds (buffer and hand). Two pane watchers give every
order of first, second and last watcher, of one device or two; the two sessions
are for a drop that spans them. Three calls let a pairing, a revocation and a request of the device
interleave. Two secrets give a re-pairing; one token is enough, since the
interesting call is the one that has it. That a challenge is presented by the wrong
device, or one device's `Touch` writes another's entry, takes a second device: the
proofs of `LinkServer` have any number, and `registry` two.
Values of one kind are interchangeable and no liveness is checked in those runs,
so symmetry is sound. On the edge rail two commands make a batch that can fail in
the middle, and a command that comes while another is under way; two faults are a
lost report and something going wrong in the pass that repeats it; one fact per
command is enough to come before or after its receipt. `Batch` exceeds the
number of poisoned commands: a cloud whose batches can be filled with commands it
never takes results for starves the others, and nothing in the client prevents it.
The unsigned command runs in a process that met a cloud without a key and in none
that met one with it; of ill-formed payloads and grants, which the instance has not,
`UnsoundIsInert` speaks.
Deadlock checking is off where the system may stop: in the `edge_` runs, since
Follow returns for good when its token is refused, and in `front_door`, since the
host is not started for ever.

In `rails` the texts have each limit's length, one rune more, and a rune across
the limit; handles hold the separator of keys; two requests are what it takes for
one to be mistaken for another, two deliveries for one to happen twice, two minutes
for the boundary between, on either side of which the link and the cloud may find
themselves. Percentages go beyond four bits, the wire's width there.
In `statements` one signature suffices, because a check reads one; the commands
include three whose run, device, resource and payload join to the same text, two
with the same scope, and expiries that have the same nanoseconds. In
`front_door` the third start is the first that can find what a creation and a
damaged file left behind, and ports with different bytes (6 is 1 and 2) show the
order. A window closes and opens again between a scan and the pairing. The file is
damaged and repaired, never removed: a host without the file is a new host, by
`LoadOrCreate`'s own words.

*Fairness* (`StatusHub!Fairness`). Runnable goroutines run (WF): `publish` once
it has the lock, the closing loops. Go's mutex hands over to a starving waiter,
so `unsubscribe` gets the lock (SF). `select` picks uniformly among ready cases,
so a case ready again and again is taken (SF), whatever the ticker does. WF on
`Send` is an assumption on the surface: it keeps reading or its connection
breaks. The code sets no deadline there; without the assumption a revoked stream
whose surface stalls stays in `Send`. Nothing makes the host publish, a surface
connect or hang up, or anybody revoke. `EdgeSync!FairSpec` has weak fairness of
the Follow loop, of `watch` and of Register: the executor and the calls return
(the Executor's contract says so of the one, connections break for the other), the
timer fires. Faults are bounded, so failing for ever is not a behaviour.

*Assumptions on what is external.* SHA-256 and the 32 bits of `fnv8` have no
collision on the instance (`NoPromptsCollide`; on all texts for the proofs that
assume `Sha256IsFaithful`). An approved action's type does not begin with "device:",
is not that word and holds no bar: `GrantIsForThisAction` needs it, because scopes
and action digests are joined texts. The cloud digests the ledger payload it sends. One host process runs at a
time. The executor delivers a key at most once, which `executor.go` asks of it; the
cloud holds one pending command per key, as the errors in `projection.go` say.

### What disagrees with the source's own statements

* `link_late_stream`: a WatchStatus or WatchPane that passed `authorize` before
  RevokeDevice and subscribes after its drops keeps its stream, although
  RevokeDevice promises that "every open stream" is cancelled and that the
  device's current RPCs fail. Shortest case: Authorize, Revoke, the three drops,
  Subscribe. `RevocationIsComplete` shows that this is the only way: whatever
  else is left of a revoked device had passed its check when the drop came.
* `pane_late_frame`: a frame captured before Close and published after the next
  Open becomes the retained frame, so a later watcher can open on "a stale grid".
  `Close` is called under the lock `PublishPane` needs, so a source cannot wait
  for such a frame in `Close`.
* `edge_rejected_after_effect`: a command runs, its report is lost, its grant
  expires, the next pass refuses it, and the ledger says "rejected", which
  `grant.go` defines as "performs no effect".
* `rails_across_minutes`: a say is keyed with the minute of the rail it comes by, so
  one tap that reaches the host by link and by cloud around a full minute, or a
  double tap there, is typed twice, although the minute is said to keep "what dedup
  is FOR (double-taps, a two-rail race)" and one command over two rails to be "one
  command". `KeyedOnce` shows that this is the only way, and that every other kind
  takes effect once.

Statements that disagree with the code as it reads, without a run:

* `docs/PAIRING.md` (140) says that a session's `seq` restarts with its last
  watcher, and `paneSession` keeps it on purpose.
* `edge.proto` (193-195) has the device surface rejected events instead of retrying
  them, and SyncOnce executes and submits them again in each pass.
* `server.go` (201-207) says sessions of an old registration end with a re-pair; an
  Authenticate that read the old registration before it mints its token after the
  drop. Authorization is live, so it gains nothing the new registration does not
  grant.
* `transport.Addrs` is said to return "IPv4/IPv6 addresses" and keeps IPv4 only; the
  first `Err` after a failure returns it and the second returns nil, from the closed
  channel, where `transport.go` (66) promises "Nil while healthy".
* `edgesign.go` (8-11) says that a command's signature binds it to its expiry. The
  bytes of a command without expiry are those of one that expires at the epoch, and
  times outside int64 wrap (93-96). `AcceptedAsMeant` therefore speaks of the
  nanoseconds that are signed; everything else that is signed is bound as it is.
  Nothing in this repository reads a command's expiry.

## 4. Proofs

TLAPS proves every safety property and every refinement the passing runs check, for every
value of the constants. The assumptions are the named `ASSUME`s of the modules. Most only say what
the constants are; those that say more are listed at the end of this section. Each
proof module has one lemma per action, a theorem `IInvHolds` (`Spec => []IInv`), and
one theorem per property. `IInv` is stated in the component's module, in parts, and
TLC checked it before it was proved.

**StatusHubProofs** (`TypeCorrect`, `LatestNeverLost`, `DropIsFinal`,
`SentAlwaysIncreases`, `Refinement`). None of the safety properties is inductive.
`IInv` adds: `PublisherInv` (the publisher works through subscribers, and a buffer it
has drained stays empty until it sends, because receivers only empty it and only the
lock holder sends: the third select never gives up); `OrderInv` (`sent < held <
updates <= seq` wherever there is a frame, and strictly below `seq` for subscribers
the publisher has yet to reach); `StreamInv` (registered means in progress and not
cut; a closed `gone` in the loop is the work of dropDevice). The refinement maps each
action to one of `LatestWins` or to a stutter.

**PaneHubProofs** (`SourceIsDriven`, `FrameIsRetained`, `NoFrameMissed`,
`DropIsFinal`, `SentAlwaysIncreases`, `Refinement`). `CallInv` says that a subscriber is in its loop
and that a slot without a call is clean; `OrderInv` is the order of the status hub,
per session. The properties need each other: that a drop leaves no watcher of a
session is what lets `closeIfUnwatchedLocked` forget the frame, and the opening frame
of a late watcher is the newest only because a retained frame is. `Refinement` is one
theorem for all sessions. It is why `OrderInv` speaks of every call and not only of
subscribers: a frame that a dropped stream still sends must not be newer than its cut.

**RegistryProofs** (`Durability`, `NeverTorn`, `MemoryIsNeverBehind`, `Refinement`).
`PersistInv` says what the temporary file holds when it is about to replace the
registry; every operation is first reduced to one change of one entry.
`MemoryIsNeverBehind` says that checks read what was asked for last, written or not,
and where the file may lag behind it. For the
refinement `OperationInv` says that what memory holds of the device while the
operation is on its way to disk is something an operation makes of the entry it found.

**LinkServerProofs** (`AcceptedOnce`, `RevocationLasts`, `RevocationReachesAll`).
`CredentialInv`: what can still be presented was minted and never accepted. For
revocation the invariant follows RevokeDevice through its steps: `Reached(d, where)`
says what the tombstone, the drop of tokens and the two drops of streams have achieved
once the call is past them, `RevocationInv` that it stays achieved until the device is
paired again, whatever other calls do in between. `EnrolmentInv` and the secrets that
enrolled registrations are what `RevocationLasts` rests on: a secret enrols once, so
what a revocation on disk has ended can only come back from a copy, and no copy of it
without the tombstone is left.

**EdgeSyncProofs** (`NudgesFollowed`, `ResolvedComplete`, `ReportedIsDone`,
`UnsoundIsInert`). `BatchInv` is about every batch, the one under way and those the
client gave up on and the cloud may yet get: a result says what the checks allow
(`Honest`) and its facts come after it in the same batch (`Whole`). That is why it
does no harm that batches arrive late, twice or under a sequence that was used before.
What the client has learned is what the cloud had at registration (`PassInv`), so
`UnsoundIsInert` holds of every process that registered with a cloud that was signing.

**RailsProofs** (`AlwaysSent`, `HandlesReturn`, `WholeArrives`,
`TakesEffectOnce`, `NoneSwallowed`). `ViewInv`: what a surface has is what the
converters make of the clamped original; `EffectInv`: the journal holds exactly the
keys of what took effect, each once. On them rest lemmas about the operators: `clip`
gives a prefix within its limit that ends where a rune does, so a valid text stays
valid UTF-8; every Clamp keeps the types and the positions of its agents; each
converter followed by its inverse is the identity on what fits; what `TrimSpace`
leaves is no longer than the text; keys of different requests differ.

**StatementsProofs** (`CanonicalInjective`, `BytesSayAll`, `AcceptedWasMeant`,
`LedgerFromTheCloud`, `GrantBinds`, `RefusalHasACause`). `CanonicalInjective`: equal
canonical bytes of as many fields mean equal fields, because a length of fixed size
comes before each. `BytesSayAll` carries that to the four sorts of statement, with
their different domains: equal bytes mean equal fields and equal nanoseconds, for
all times, with those that `nanosOf` maps to one number not told apart. The action digest has no lengths; `GrantBinds` shows that
the scopes, which the checklist compares first, tell the actions apart. A verdict is
over before the next step, so the properties together with what has been signed
(`SignedInv`) and approved (`ApprovedInv`) are inductive.

**FrontDoorProofs** (`NoDeviceOrphaned`, `IdentityLasts`, `AdvertIsRight`,
`CodeIsRight`). `IdentityInv`: a process that creates an identity does so while
there is none, and one that is up has its own on disk or in the damaged file's backup.
`PinnedInv` and `CodeInv`: phones and codes know only identities that were on disk.
`WindowInv`: the code of an open window was made from the identity, the port and the
secret that are in use. `CodeIsRight` then rests on
what the code's text is made of: `SplitJoin` (splitting at commas gives back what was
joined, when no part has a comma) and `AtoiItoa` (the digits of a number give it back).
A recursive function is reasoned about by its course: `LoopRuns` says that a loop of n
rounds has one, and `UpTo` that what holds at first and is kept by every round holds at
the end, by the least number at which it would not. (`clip`, `TrimSpace` and
`canonical` are treated in the same way in the proofs above.)

Assumptions and hypotheses that say more than a type:

* `Sha256IsFaithful`, a hypothesis of `BytesSayAll`, `AcceptedWasMeant`,
  `LedgerFromTheCloud` and `GrantBinds`: the digest is injective and not empty. No
  hash of fixed size is; the theorems say what follows as long as nobody meets a
  collision. `RefusalHasACause` needs no such thing.
* `NoPromptsCollide`: `fnv8` tells apart the prompts that are typed, alone and with
  the minute. With 32 bits this is likely for a user's prompts and no more; where it
  fails a `DUPLICATE` swallows a request.
* `FrontDoorConstants`: the text of an interface's address is not empty and has no
  comma, which is so of what `net.IP.String` prints.
* `StatementsConstants`: the types of approved actions, as said in section 3.
* `WidthHoldsLimits`: the limits fit the wire, and doubling a power of two gives the
  next (arithmetic that the provers lack; TLC evaluates it).
* `LimitsAreNatural`: the two limits on a workspace's name agree, and an answer may
  have a byte.

What the proofs taught, where TLC had been content:

* An action type that *begins* with "device:" is as bad as the word itself: the
  resource's scope then reads as a device's. The instance had only excluded the word.
* A command that needs a grant and has no ledger bytes is refused, however it was
  approved, so `MeantIsAccepted` says that the bytes are there.
* `HandlesReturn` depends on two literals in two functions being the same number.
* A style run's fields are uint32 in the source already, and only so does
  `paneFromProto` give them back.

Only model-checked:

* the liveness properties (`LatestArrives`, `DroppedStreamEnds`,
  `EveryCommandResolves`, `FollowEnds`): the prover has no rules for
  fairness here;
* that FNV-1a, as `MCRails` defines it, meets `NoPromptsCollide` on the instance;
* the four violations.

## 5. Not modelled, and the plan

Left out on purpose:

* wording, logging, display formats, the escaping of URLs (`net/url`'s), the wire
  form of a TXT record, a Bonjour registration that is refused;
* cryptography, x509, HTTP/2, JSON and protobuf encodings: libraries;
* the generated code but for the shape of its messages: getters, reflection and
  connect's glue have no behaviour of this program;
* configuration: reading seeds, the backoff's durations, the bearer interceptor,
  the refusals of a host without a pane or digest source;
* the wait of `Shutdown` for its handlers, which is net/http's: the code only hands
  it a context, and a watch stream ends when its surface hangs up;
* power loss (nothing is fsynced), two hosts on one state directory, and the removal
  of the identity file.

Weak spots seen while modelling that no property here is about: entries of
`paneHub.sessions` are never removed (`panehub.go:112`); `Follow` leaves `watch`
running when its token is refused (`client.go:277`); an executor that always answers
one command with an empty status blocks every pass there (`client.go:201`); a stream
outlives a capability that is taken away (`registry.go:191`); `Publish` samples the
time before the lock (`server.go:129`); a compact's or resume's key never changes, so
a journal that never forgets swallows the second one (`projection.go:106`); `Clamp`
works in place on memory the embedder may share (`projection.go:248`); `GetDigest`
does not trim the session id as `WatchPane` does (`server.go:350`); two processes
creating an identity share one temporary file (`identity.go:187`); on macOS `Stop`
returns before the record is gone (`bonjour_darwin.go:52`); a re-pair that fails to
save is answered with an error and lifts the tombstone all the same, in memory and in
the file at the next save of any device (`server.go:198`); a client that registered
before the cloud was signing verifies nothing until it is restarted
(`client.go:142`); attention counts and usage percentages wrap at 32 bits
(`convert.go:31`).

The state machines of the repository are all modelled, and every safety property and
refinement of the runs is proved. What could be added needs more than the source
says: a file system that loses what was not synced, and deadlines for the surfaces
and executors whose progress the liveness properties assume.
