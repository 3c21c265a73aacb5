----------------------------- MODULE LinkServer -----------------------------
(***************************************************************************)
(* Pairing, sessions and revocation on the direct link: the handlers of    *)
(* link/server.go over the stores they share, the device registry          *)
(* (registry/registry.go), the pairing window (pairing/pairing.go), the    *)
(* challenges and session tokens (link/tokens.go) and the stream tables of *)
(* the two hubs.                                                           *)
(*                                                                         *)
(* A Call is a handler goroutine, or the host goroutine inside             *)
(* RevokeDevice.  Each store has its own mutex and no handler holds one    *)
(* across two stores: a step is one critical section (or what the handler  *)
(* computes between two), and calls interleave between them.  A call that  *)
(* an early return ends before it has changed anything takes no step.      *)
(*                                                                         *)
(* Secrets, challenges and tokens are fresh random values: a member of     *)
(* Secret, Nonce or Token is handed out at most once.  Time is the set     *)
(* lapsed of values whose TTL has run out, which any step may extend.      *)
(*                                                                         *)
(* persistLocked writes the whole registry to a temporary file and renames *)
(* it: taken here in one step, it replaces the file or leaves it, and a    *)
(* crash in the middle of it is a crash before or after it (Registry takes *)
(* its steps one by one).  PersistOutcomes says whether it can fail.       *)
(* LastSeenAt is left out, the write that Touch makes is not.              *)
(***************************************************************************)
EXTENDS Integers, FiniteSets

CONSTANTS
    Device,            \* device keys; the device id is the key's fingerprint
    Call,              \* calls in progress at the same time
    Secret,            \* pairing secrets that can be minted
    Nonce,             \* challenges that can be minted
    Token,             \* session tokens that can be minted
    Grants,            \* capability sets that are asked for or set
    Requests,          \* the RPCs that surfaces make with a token
    PersistOutcomes,   \* whether persistLocked succeeds, fails, or may do both
    NoValue            \* no device, secret, challenge or token

Capability == {"status.read", "session.read", "agent.answer", "agent.command"}

\* What each RPC of the session surface is authorized for.
CapabilityFor == [WatchStatus |-> "status.read",
                  WatchPane |-> "session.read",
                  SubmitAnswer |-> "agent.answer",
                  SubmitCommand |-> "agent.command"]

Submissions == {"SubmitAnswer", "SubmitCommand"}

ASSUME LinkServerConstants ==
    /\ Grants \subseteq SUBSET Capability
    /\ Requests \subseteq DOMAIN CapabilityFor
    /\ PersistOutcomes \subseteq BOOLEAN
    /\ NoValue \notin Device \cup Secret \cup Nonce \cup Token
    /\ Call \cap Token = {}        \* raced holds both

VARIABLES
    devices,           \* Registry.devices, in memory
    disk,              \* the registry file
    secret,            \* Manager.secret, NoValue for ""
    issued,            \* nonces.issued: issued[n] is the device, or NoValue
    sessions,          \* tokens.sessions: sessions[t] is the device, or NoValue
    subs,              \* calls subscribed to the status hub or the pane hub
    gone,              \* calls whose gone channel is closed
    lapsed,            \* secrets, challenges and tokens past their expiry
    minted,            \* secrets, challenges and tokens handed out so far
    pc, op, dev, cred, \* per call: where it is, which RPC it serves, for which
                       \*   device, with which secret, challenge or token
    (* history *)
    uses,              \* uses[v]: times secret or challenge v was accepted
    stands,            \* RevokeDevice calls whose tombstone is still in place
    dead,              \* devices whose revocation was acknowledged and that Add
                       \*   has not registered again, in memory at least
    voided,            \* voided[d]: the registrations of d, by the secrets that
                       \*   enrolled them, that a revocation on disk has ended
    raced              \* calls past their check, and tokens of calls past their
                       \*   check, when RevokeDevice or Pair dropped that device

registry == <<devices, disk>>
credentials == <<secret, issued, sessions, lapsed, minted>>
streams == <<subs, gone>>
calls == <<pc, op, dev, cred>>
history == <<uses, stands, dead, voided, raced>>
vars == <<registry, credentials, streams, calls, history>>

\* A registration, told apart by the secret that enrolled it.
Registration == [by : Secret, revoked : BOOLEAN, capabilities : SUBSET Capability]
Absent == [by |-> NoValue, revoked |-> FALSE, capabilities |-> {}]

Known(d) == devices[d] # Absent
Live(d) == Known(d) /\ ~devices[d].revoked

Init ==
    /\ devices = [d \in Device |-> Absent]
    /\ disk = devices
    /\ secret = NoValue
    /\ issued = [n \in Nonce |-> NoValue]
    /\ sessions = [t \in Token |-> NoValue]
    /\ subs = {} /\ gone = {}
    /\ lapsed = {} /\ minted = {}
    /\ pc = [c \in Call |-> "idle"]
    /\ op = [c \in Call |-> "none"]
    /\ dev = [c \in Call |-> NoValue]
    /\ cred = [c \in Call |-> NoValue]
    /\ uses = [v \in Secret \cup Nonce |-> 0]
    /\ stands = {} /\ dead = {} /\ raced = {}
    /\ voided = [d \in Device |-> {}]

-----------------------------------------------------------------------------
(* Steps of a call *)

Begin(c, what, d, v, next) ==
    /\ pc[c] = "idle"
    /\ pc' = [pc EXCEPT ![c] = next]
    /\ op' = [op EXCEPT ![c] = what]
    /\ dev' = [dev EXCEPT ![c] = d]
    /\ cred' = [cred EXCEPT ![c] = v]

At(c, here, what) == pc[c] = here /\ op[c] = what

Goto(c, next) ==
    /\ pc' = [pc EXCEPT ![c] = next]
    /\ UNCHANGED <<op, dev, cred>>

\* The call returns; its locals are gone.
Return(c) ==
    /\ pc' = [pc EXCEPT ![c] = "idle"]
    /\ op' = [op EXCEPT ![c] = "none"]
    /\ dev' = [dev EXCEPT ![c] = NoValue]
    /\ cred' = [cred EXCEPT ![c] = NoValue]

\* persistLocked, after the map has changed in memory.
Persist(ok) == disk' = IF ok THEN devices' ELSE disk

-----------------------------------------------------------------------------
(* The pairing window: Manager.Open (which closes the one before) and Close *)

OpenWindow(x) ==
    /\ x \in Secret \ minted
    /\ secret' = x
    /\ minted' = minted \cup {x}
    /\ UNCHANGED <<registry, issued, sessions, lapsed, streams, calls, history>>

CloseWindow ==
    /\ secret # NoValue
    /\ secret' = NoValue
    /\ UNCHANGED <<registry, issued, sessions, lapsed, minted, streams, calls, history>>

\* The clock passes the expiry of a secret, a challenge or a token in use.
Lapse(v) ==
    /\ v \in minted \ lapsed
    /\ \/ v = secret
       \/ v \in Nonce /\ issued[v] # NoValue
       \/ v \in Token /\ sessions[v] # NoValue
    /\ lapsed' = lapsed \cup {v}
    /\ UNCHANGED <<registry, secret, issued, sessions, minted, streams, calls, history>>

-----------------------------------------------------------------------------
(* Pair *)

\* The checks before it touch no state; Redeem burns a live window on a match.
PairRedeem(c, d, x) ==
    /\ secret = x
    /\ x \notin lapsed
    /\ Begin(c, "Pair", d, x, "adding")
    /\ secret' = NoValue
    /\ uses' = [uses EXCEPT ![x] = @ + 1]
    /\ UNCHANGED <<registry, issued, sessions, lapsed, minted, streams,
                   stands, dead, voided, raced>>

\* Registry.Add replaces any registration of the key in memory, then persists.
\* On a persist error Pair returns without dropping anything, and the new
\* registration stays in memory: it lifts a tombstone there until the restart.
PairAdd(c, caps, ok) ==
    /\ At(c, "adding", "Pair")
    /\ caps # {}
    /\ devices' = [devices EXCEPT ![dev[c]] =
           [by |-> cred[c], revoked |-> FALSE, capabilities |-> caps]]
    /\ Persist(ok)
    /\ IF ok THEN Goto(c, "dropTokens") ELSE Return(c)
    /\ dead' = dead \ {dev[c]}
    /\ stands' = {x \in stands : dev[x] # dev[c]}
    /\ UNCHANGED <<credentials, streams, uses, voided, raced>>

\* Nothing recognizable was asked for: refused, with the window burned.
PairRefused(c) ==
    /\ At(c, "adding", "Pair")
    /\ {} \in Grants
    /\ Return(c)
    /\ UNCHANGED <<registry, credentials, streams, history>>

-----------------------------------------------------------------------------
(* RevokeDevice, and the three drops it shares with Pair *)

\* History: the tombstone is on the disk, over the registration that was in
\* memory and the one that was in the file; from here on the device cannot be
\* without a registration either.
Void(d) == voided' = [voided EXCEPT ![d] = @ \cup {devices[d].by, disk[d].by, NoValue}]

\* Mutant: RevokeDevice ignores the registry's error.
RevokeIgnoresError(c, d, ok) ==
    /\ Known(d)
    /\ devices' = [devices EXCEPT ![d].revoked = TRUE]
    /\ Persist(ok)
    /\ Begin(c, "Revoke", d, NoValue, "dropTokens")
    /\ stands' = stands \cup {c}
    /\ Void(d)
    /\ UNCHANGED <<credentials, streams, uses, dead, raced>>

Revoke(c, d, ok) ==
    /\ pc[c] = "idle"
    /\ Known(d)
    /\ devices' = [devices EXCEPT ![d].revoked = TRUE]
    /\ Persist(ok)
    /\ IF ok THEN /\ Begin(c, "Revoke", d, NoValue, "dropTokens")
                  /\ stands' = stands \cup {c}
                  /\ Void(d)
             ELSE UNCHANGED <<pc, op, dev, cred, stands, voided>>
    /\ UNCHANGED <<credentials, streams, uses, dead, raced>>

\* History: calls of the device that have passed the check this drop comes too
\* late for.
Past(c, where, what) ==
    {x \in Call : dev[x] = dev[c] /\ pc[x] \in where /\ op[x] \in what}

DropTokens(c) ==
    /\ pc[c] = "dropTokens"
    /\ sessions' = [t \in Token |->
                      IF sessions[t] = dev[c] THEN NoValue ELSE sessions[t]]
    /\ Goto(c, "dropStatus")
    /\ raced' = raced \cup Past(c, {"consuming", "verifying"}, {"Authenticate"})
                      \cup Past(c, {"authorized"}, Submissions)
    /\ UNCHANGED <<registry, secret, issued, lapsed, minted, streams,
                   uses, stands, dead, voided>>

\* hub.dropDevice or paneHub.dropDevice, the closing of gone included.
DropStreams(c, what) ==
    LET dropped == {x \in subs : dev[x] = dev[c] /\ op[x] = what} IN
    /\ subs' = subs \ dropped
    /\ gone' = gone \cup dropped
    /\ raced' = raced \cup Past(c, {"authorized"}, {what})

DropStatus(c) ==
    /\ pc[c] = "dropStatus"
    /\ DropStreams(c, "WatchStatus")
    /\ Goto(c, "dropPanes")
    /\ UNCHANGED <<registry, credentials, uses, stands, dead, voided>>

\* The last drop; the call returns success.
DropPanes(c) ==
    /\ pc[c] = "dropPanes"
    /\ DropStreams(c, "WatchPane")
    /\ Return(c)
    /\ dead' = IF c \in stands THEN dead \cup {dev[c]} ELSE dead
    /\ stands' = stands \ {c}
    /\ UNCHANGED <<registry, credentials, uses, voided>>

\* Host-side policy: takes effect at the next check, and ends no stream.
SetCapabilities(d, caps, ok) ==
    /\ Known(d)
    /\ devices' = [devices EXCEPT ![d].capabilities = caps]
    /\ Persist(ok)
    /\ UNCHANGED <<credentials, streams, calls, history>>

-----------------------------------------------------------------------------
(* Challenge and Authenticate *)

ChallengeGet(c, d) ==
    /\ Live(d)
    /\ Begin(c, "Challenge", d, NoValue, "minting")
    /\ UNCHANGED <<registry, credentials, streams, history>>

\* nonces.mint sweeps the expired.
ChallengeMint(c, n) ==
    /\ At(c, "minting", "Challenge")
    /\ n \in Nonce \ minted
    /\ issued' = [m \in Nonce |-> IF m = n THEN dev[c]
                                  ELSE IF m \in lapsed THEN NoValue
                                  ELSE issued[m]]
    /\ minted' = minted \cup {n}
    /\ Return(c)
    /\ UNCHANGED <<registry, secret, sessions, lapsed, streams, history>>

\* rand.Read fails.
ChallengeFails(c) ==
    /\ At(c, "minting", "Challenge")
    /\ Return(c)
    /\ UNCHANGED <<registry, credentials, streams, history>>

\* Authenticate goes on with the copy of the registration it reads here.
AuthGet(c, d, n) ==
    /\ n \in minted
    /\ Live(d)
    /\ Begin(c, "Authenticate", d, n, "consuming")
    /\ UNCHANGED <<registry, credentials, streams, history>>

\* Mutant: consume looks the challenge up without deleting it.
AuthConsumeKeeps(c) ==
    LET n == cred[c] IN
    /\ At(c, "consuming", "Authenticate")
    /\ IF issued[n] = dev[c] /\ n \notin lapsed
         THEN Goto(c, "verifying") /\ uses' = [uses EXCEPT ![n] = @ + 1]
         ELSE Return(c) /\ UNCHANGED uses
    /\ UNCHANGED <<registry, credentials, streams, stands, dead, voided, raced>>

\* nonces.consume deletes the challenge whoever presents it.
AuthConsume(c) ==
    LET n == cred[c]
        accepted == issued[n] = dev[c] /\ n \notin lapsed IN
    /\ At(c, "consuming", "Authenticate")
    /\ issued' = [issued EXCEPT ![n] = NoValue]
    /\ IF accepted THEN /\ Goto(c, "verifying")
                        /\ uses' = [uses EXCEPT ![n] = @ + 1]
                        /\ UNCHANGED raced
                   ELSE /\ Return(c)
                        /\ raced' = raced \ {c}
                        /\ UNCHANGED uses
    /\ UNCHANGED <<registry, secret, sessions, lapsed, minted, streams,
                   stands, dead, voided>>

\* The signature verifies and a session is minted ...
AuthMint(c, t) ==
    /\ At(c, "verifying", "Authenticate")
    /\ t \in Token \ minted
    /\ sessions' = [sessions EXCEPT ![t] = dev[c]]
    /\ minted' = minted \cup {t}
    /\ raced' = IF c \in raced THEN (raced \ {c}) \cup {t} ELSE raced
    /\ Goto(c, "touching")
    /\ UNCHANGED <<registry, secret, issued, lapsed, streams, uses, stands, dead, voided>>

\* ... or it does not (or rand.Read fails): the challenge is spent all the same.
AuthRefused(c) ==
    /\ At(c, "verifying", "Authenticate")
    /\ Return(c)
    /\ raced' = raced \ {c}
    /\ UNCHANGED <<registry, credentials, streams, uses, stands, dead, voided>>

\* Registry.Touch writes the whole map, best effort; the call returns.
Touch(c, ok) ==
    /\ pc[c] = "touching"
    /\ disk' = IF ok /\ Known(dev[c]) THEN devices ELSE disk
    /\ Return(c)
    /\ raced' = raced \ {c}
    /\ UNCHANGED <<devices, credentials, streams, uses, stands, dead, voided>>

-----------------------------------------------------------------------------
(* authorize, and the RPCs behind it *)

\* tokens.resolve ...
Resolve(c, what, t) ==
    /\ sessions[t] # NoValue
    /\ t \notin lapsed
    /\ Begin(c, what, sessions[t], t, "resolved")
    /\ UNCHANGED <<registry, credentials, streams, history>>

\* ... which deletes an expired entry on sight.
ResolveLapsed(t) ==
    /\ sessions[t] # NoValue
    /\ t \in lapsed
    /\ sessions' = [sessions EXCEPT ![t] = NoValue]
    /\ UNCHANGED <<registry, secret, issued, lapsed, minted, streams, calls, history>>

\* Mutant: Allowed does not look at the tombstone.
AllowedWhenKnown(c) ==
    Known(dev[c]) /\ CapabilityFor[op[c]] \in devices[dev[c]].capabilities

\* Registry.Allowed, against the live registry.
Allowed(c) == Live(dev[c]) /\ CapabilityFor[op[c]] \in devices[dev[c]].capabilities

Authorize(c) ==
    /\ pc[c] = "resolved"
    /\ IF Allowed(c) THEN Goto(c, "authorized") ELSE Return(c)
    /\ UNCHANGED <<registry, credentials, streams, history>>

\* WatchStatus and WatchPane: the subscription is a critical section of its own.
Subscribe(c) ==
    /\ pc[c] = "authorized"
    /\ op[c] \in {"WatchStatus", "WatchPane"}
    /\ subs' = subs \cup {c}
    /\ Goto(c, "watching")
    /\ UNCHANGED <<registry, credentials, gone, history>>

\* The stream ends: gone is closed, or the surface hangs up; unsubscribe runs.
EndStream(c) ==
    /\ pc[c] = "watching"
    /\ subs' = subs \ {c}
    /\ gone' = gone \ {c}
    /\ Return(c)
    /\ raced' = raced \ {c}
    /\ UNCHANGED <<registry, credentials, uses, stands, dead, voided>>

\* SubmitAnswer and SubmitCommand reach the executor, then touch the registry.
Execute(c) ==
    /\ pc[c] = "authorized"
    /\ op[c] \in Submissions
    /\ Goto(c, "touching")
    /\ UNCHANGED <<registry, credentials, streams, history>>

-----------------------------------------------------------------------------
\* The host process crashes or is restarted: only the registry file is left.
Restart ==
    /\ devices' = disk
    /\ secret' = NoValue
    /\ issued' = [n \in Nonce |-> NoValue]
    /\ sessions' = [t \in Token |-> NoValue]
    /\ subs' = {} /\ gone' = {}
    /\ pc' = [c \in Call |-> "idle"]
    /\ op' = [c \in Call |-> "none"]
    /\ dev' = [c \in Call |-> NoValue]
    /\ cred' = [c \in Call |-> NoValue]
    /\ stands' = {} /\ raced' = {}
    /\ UNCHANGED <<disk, lapsed, minted, uses, dead, voided>>

(* Operators marked "Mutant" are not part of the specification: each shows  *)
(* that a property depends on the definition that follows it.              *)

Host ==
    \/ \E x \in Secret : OpenWindow(x)
    \/ CloseWindow
    \/ \E d \in Device, caps \in Grants, ok \in PersistOutcomes :
         SetCapabilities(d, caps, ok)
    \/ \E v \in Secret \cup Nonce \cup Token : Lapse(v)
    \/ \E t \in Token : ResolveLapsed(t)
    \/ Restart

Start(c) ==
    \/ \E d \in Device : ChallengeGet(c, d)
    \/ \E d \in Device, x \in Secret : PairRedeem(c, d, x)
    \/ \E d \in Device, n \in Nonce : AuthGet(c, d, n)
    \/ \E d \in Device, ok \in PersistOutcomes : Revoke(c, d, ok)
    \/ \E t \in Token, what \in Requests : Resolve(c, what, t)

Continue(c) ==
    \/ \E caps \in Grants, ok \in PersistOutcomes : PairAdd(c, caps, ok)
    \/ PairRefused(c)
    \/ DropTokens(c) \/ DropStatus(c) \/ DropPanes(c)
    \/ ChallengeFails(c) \/ \E n \in Nonce : ChallengeMint(c, n)
    \/ AuthConsume(c) \/ AuthRefused(c) \/ \E t \in Token : AuthMint(c, t)
    \/ \E ok \in PersistOutcomes : Touch(c, ok)
    \/ Authorize(c) \/ Subscribe(c) \/ Execute(c)

Next == Host \/ \E c \in Call : Start(c) \/ Continue(c) \/ EndStream(c)

Spec == Init /\ [][Next]_vars

-----------------------------------------------------------------------------
(* Properties *)

TypeOK ==
    /\ devices \in [Device -> Registration \cup {Absent}]
    /\ disk \in [Device -> Registration \cup {Absent}]
    /\ secret \in Secret \cup {NoValue}
    /\ issued \in [Nonce -> Device \cup {NoValue}]
    /\ sessions \in [Token -> Device \cup {NoValue}]
    /\ subs \subseteq Call /\ gone \subseteq Call
    /\ lapsed \subseteq minted
    /\ minted \subseteq Secret \cup Nonce \cup Token
    /\ pc \in [Call -> {"idle", "adding", "dropTokens", "dropStatus", "dropPanes",
                        "minting", "consuming", "verifying", "touching",
                        "resolved", "authorized", "watching"}]
    /\ op \in [Call -> {"none", "Pair", "Revoke", "Challenge", "Authenticate"}
                        \cup DOMAIN CapabilityFor]
    /\ dev \in [Call -> Device \cup {NoValue}]
    /\ cred \in [Call -> Secret \cup Nonce \cup Token \cup {NoValue}]
    /\ uses \in [Secret \cup Nonce -> Nat]
    /\ stands \subseteq Call /\ dead \subseteq Device
    /\ voided \in [Device -> SUBSET (Secret \cup {NoValue})]
    /\ raced \subseteq Call \cup Token

\* A pairing window enrols at most one device (Manager.Redeem: "Single-use by
\* construction") and a challenge admits at most one Authenticate
\* (nonces.consume: "replay gets nothing"), however the calls presenting the
\* same secret or challenge interleave, and across restarts.
SingleUse == \A v \in Secret \cup Nonce : uses[v] <= 1

\* Once a revocation is saved, the registration it ended never comes back
\* without its tombstone, in memory or in the file, whatever else is written (or
\* fails to be written) and whenever the host restarts: only a pairing with a
\* secret of its own lifts it (Device.Revoked: "re-pairing the same key is a
\* deliberate human act with a fresh QR, not a retry").  A pairing that fails to
\* save does so too, in memory and, once anything else is saved, in the file.
RevocationIsDurable ==
    \A d \in Device : \A entry \in {devices[d], disk[d]} :
        entry.by \in voided[d] => entry.revoked

\* Once RevokeDevice has returned nil, and until Add registers the key again (in
\* memory, be it saved or not), no call of the device is past its check, on a
\* stream or about to act, and no session of it is left, but for the calls that
\* had passed their check already when RevokeDevice came to the table they were
\* about to enter.
RevocationIsComplete ==
    \A d \in dead :
        /\ \A c \in Call : dev[c] = d /\ c \notin gone /\
                             pc[c] \in {"authorized", "watching"} => c \in raced
        /\ \A t \in Token : sessions[t] = d => t \in raced

\* RevokeDevice: "every open stream cancelled. The device's next RPC - and its
\* current ones - fail": no stream of the device is left after it.
RevokedStreamsEnd ==
    \A c \in subs : dev[c] \notin dead

-----------------------------------------------------------------------------
(* The inductive invariants of LinkServerProofs *)

\* What a handler's locals hold where it is.
CallInv ==
    \A c \in Call :
        /\ pc[c] # "idle" => dev[c] \in Device
        /\ pc[c] = "adding" => cred[c] \in Secret
        /\ pc[c] = "consuming" => cred[c] \in Nonce
        /\ pc[c] \in {"resolved", "authorized"} => op[c] \in DOMAIN CapabilityFor
        /\ pc[c] = "watching" => /\ op[c] \in {"WatchStatus", "WatchPane"}
                                 /\ c \in subs \cup gone

\* A secret or challenge that can still be presented was minted and never
\* accepted, and a value is not both: it is burned in the step that accepts it.
CredentialInv ==
    /\ secret # NoValue => secret \in minted /\ uses[secret] = 0
    /\ \A n \in Nonce : issued[n] # NoValue => n \in minted /\ uses[n] = 0 /\ n # secret
    /\ \A v \in Secret \cup Nonce : v \notin minted => uses[v] = 0

\* The secrets a registration of d goes by, or has gone by when it was revoked.
Spent(d) == (voided[d] \cup {devices[d].by, disk[d].by}) \ {NoValue}

\* Pair registers a device with the secret it has redeemed, which nobody else
\* holds and no registration goes by.
EnrolmentInv ==
    /\ \A d \in Device : \A x \in Spent(d) : uses[x] # 0
    /\ \A c \in Call : pc[c] = "adding" =>
         /\ uses[cred[c]] # 0
         /\ \A d \in Device : cred[c] \notin Spent(d)
         /\ \A b \in Call \ {c} : pc[b] = "adding" => cred[b] # cred[c]

Tombstone(d) == devices[d].revoked /\ disk[d].revoked

\* What DropTokens leaves of d, and what DropStatus or DropPanes leaves of it.
TokensDropped(d) ==
    /\ \A t \in Token : sessions[t] = d => t \in raced
    /\ \A c \in Call : dev[c] = d /\ pc[c] = "authorized"
                         /\ op[c] \in Submissions => c \in raced
    /\ \A c \in Call : dev[c] = d /\ pc[c] \in {"consuming", "verifying"}
                         /\ op[c] = "Authenticate" => c \in raced

StreamsDropped(d, what) ==
    \A c \in Call : dev[c] = d /\ op[c] = what /\ c \notin gone
                      /\ pc[c] \in {"authorized", "watching"} => c \in raced

\* What RevokeDevice has achieved for d where it is, and once it has returned.
Reached(d, where) ==
    /\ Tombstone(d)
    /\ where # "dropTokens" => TokensDropped(d)
    /\ where \in {"dropPanes", "returned"} => StreamsDropped(d, "WatchStatus")
    /\ where = "returned" => StreamsDropped(d, "WatchPane")

\* A RevokeDevice of d that stands is there, or has returned.
Revoking(d, where) ==
    \/ \E c \in stands : dev[c] = d /\ pc[c] = where
    \/ where = "returned" /\ d \in dead

RevocationInv ==
    /\ \A c \in stands : pc[c] \in {"dropTokens", "dropStatus", "dropPanes"}
    /\ \A d \in Device, where \in {"dropTokens", "dropStatus", "dropPanes", "returned"} :
         Revoking(d, where) => Reached(d, where)

IInv == /\ TypeOK /\ CallInv /\ CredentialInv /\ SingleUse
        /\ EnrolmentInv /\ RevocationIsDurable /\ RevocationInv
=============================================================================
