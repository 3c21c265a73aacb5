----------------------------- MODULE Statements -----------------------------
(***************************************************************************)
(* What a signature vouches for: the four signed statements of             *)
(* identity/sign.go (pairing proof, challenge answer) and edgesign.go      *)
(* (command, event), the approval grant of grant.go, and the device's      *)
(* checks of them.                                                         *)
(*                                                                         *)
(* Statements are kept, queued, repeated and routed by others, so a        *)
(* receiver may find any signature beside any fields: the model pairs them *)
(* freely.  A signature is the key with the exact bytes signed, sha256 is  *)
(* injective (assumed where it is given a value), and json.Marshal of a    *)
(* grant is the grant itself, its fields in their order.  What the cloud   *)
(* puts into a grant is external, from the tests of grant.go.              *)
(***************************************************************************)
EXTENDS Integers, FiniteSets, SequencesExt

CONSTANTS
    Word,           \* 2^64: the values u64 can encode
    sha256(_),      \* a digest, always of the same length
    Devices,        \* device keys; the public key as bytes is <<k>>
    Cloud,          \* the cloud's key
    PairClaims, AuthClaims, Events,
    Commands,       \* commands as the cloud mints them, unsigned
    Actions,        \* what a human may approve
    MaxSigned,      \* bound on statements signed
    MaxGrants,      \* bound on grants issued
    MaxNow          \* bound on the clock

\* Texts whose length, and numbers whose value, u64 can encode; times in
\* nanoseconds since the epoch, of which int64 holds some centuries only.
Text == {s \in Seq(Nat) : Len(s) < Word}
Number == 0..Word - 1
Time == Int
Nil == <<>>
Optional(S) == {p \in Seq(S) : Len(p) <= 1}

\* Eight bytes, big-endian; here one symbol.
u64(v) == <<v % Word>>

\* Mutant: the fields one after the other.
canonicalUnprefixed(domain, fields) == domain \o FlattenSeq(fields)

Prefixed(f) == u64(Len(f)) \o f

canonical(domain, fields) ==
    Prefixed(domain) \o FlattenSeq([i \in DOMAIN fields |-> Prefixed(fields[i])])

\* crypto/ed25519
Sign(key, bytes) == [by |-> key, over |-> bytes]
Verify(key, bytes, sig) == sig # Nil /\ sig[1] = Sign(key, bytes)

pairDomain == <<11>>
authDomain == <<12>>
commandDomain == <<13>>
eventDomain == <<14>>
Bar == <<2>>
Colon == <<3>>
DeviceWord == <<4>>     \* "device"
SumWord == <<5>>        \* "sha256:"

-----------------------------------------------------------------------------
(* The statements of the link *)

PairClaim == [HostID : Text, Secret : Text, Pub : Text]
AuthClaim == [HostID : Text, DeviceID : Text, Nonce : Text]

pairBytes(c) == canonical(pairDomain, <<c.HostID, c.Secret, c.Pub>>)
authBytes(c) == canonical(authDomain, <<c.HostID, c.DeviceID, c.Nonce>>)

-----------------------------------------------------------------------------
(* The envelopes of the edge rail *)

anypb == [TypeUrl : Text, Value : Text]

EdgeCommand ==
    [ProtocolVersion : Text, CommandId : Text, LogicalOperationId : Text,
     Attempt : Number, DeviceId : Text, TaskId : Text, WorkflowRunId : Text,
     ResourceType : Text, ResourceId : Text, FencingToken : Number,
     ExpectedAggregateVersion : Number, ExpiresAt : Optional(Time),
     IdempotencyKey : Text, ApprovalGrantId : Text, PolicyContextHash : Text,
     Payload : Optional(anypb), PayloadDigest : Text, LedgerPayload : Text]

EdgeEvent ==
    [EventId : Text, DeviceId : Text, DeviceSequence : Number, CommandId : Text,
     Type : Text, OccurredAt : Optional(Time), FencingToken : Number,
     Payload : Optional(anypb), PayloadDigest : Text, Traceparent : Text]

\* The digest of the value and the type, both empty without a payload.
payloadOf(p) == IF p = Nil THEN Nil ELSE sha256(p[1].Value)
payloadTypeOf(p) == IF p = Nil THEN Nil ELSE p[1].TypeUrl

\* UnixNano: no time counts as the epoch, and one outside int64 wraps.
int64(v) == ((v + Word \div 2) % Word) - Word \div 2
nanosOf(t) == IF t = Nil THEN 0 ELSE int64(t[1])

commandBytes(c) ==
    canonical(commandDomain,
        <<c.ProtocolVersion, c.CommandId, c.LogicalOperationId, u64(c.Attempt),
          c.DeviceId, c.TaskId, c.WorkflowRunId, c.ResourceType, c.ResourceId,
          u64(c.FencingToken), u64(c.ExpectedAggregateVersion),
          u64(nanosOf(c.ExpiresAt)), c.IdempotencyKey, c.ApprovalGrantId,
          c.PolicyContextHash, payloadTypeOf(c.Payload), payloadOf(c.Payload),
          c.PayloadDigest>>)

eventBytes(e) ==
    canonical(eventDomain,
        <<e.EventId, e.DeviceId, u64(e.DeviceSequence), e.CommandId, e.Type,
          u64(nanosOf(e.OccurredAt)), u64(e.FencingToken),
          payloadTypeOf(e.Payload), payloadOf(e.Payload), e.PayloadDigest>>)

-----------------------------------------------------------------------------
(* Grants *)

GrantSchema == <<15>>

\* The document without its ServerSignature, which is beside it here.
GrantDoc == [Schema : Text, GrantID : Text, RequestID : Text, ActorID : Text,
             ActionType : Text, ActionDigest : Text, ResourceScope : SUBSET Text,
             WorkflowRunID : Text, IssuedAt : Nat, ExpiresAt : Optional(Time),
             SingleUse : BOOLEAN]
Grant == [doc : GrantDoc,
          ServerSignature : Optional([by : Devices \cup {Cloud}, over : GrantDoc])]

Action == [run : Text, device : Text, type : Text, id : Text, payload : Text]

\* The fields are joined with bars, without lengths.
ActionDigest(a) ==
    sha256(a.run \o Bar \o a.device \o Bar \o a.type \o Bar \o a.id \o Bar \o a.payload)

Scopes(device, type, id) == {DeviceWord \o Colon \o device, type \o Colon \o id}

SignGrant(key, doc) == [doc |-> doc, ServerSignature |-> <<Sign(key, doc)>>]
VerifyGrantSignature(key, g) == Verify(key, g.doc, g.ServerSignature)

\* Mutant: bytes are payload when there are any.
LedgerPayloadPresent(c) == c.LedgerPayload # Nil

VerifiedLedgerPayload(c) ==
    c.LedgerPayload # Nil /\ sha256(c.LedgerPayload) = c.PayloadDigest

\* The action a command asks for.
ActionOf(c) == [run |-> c.WorkflowRunId, device |-> c.DeviceId,
                type |-> c.ResourceType, id |-> c.ResourceId,
                payload |-> c.LedgerPayload]

\* The checks of the document itself, and the exact action.
GrantHolds(cloudKey, c, grant, t) ==
    /\ grant # Nil
    /\ VerifiedLedgerPayload(c)
    /\ LET doc == grant[1].doc IN
       /\ doc.Schema = GrantSchema
       /\ doc.GrantID = c.ApprovalGrantId
       /\ cloudKey # Nil => VerifyGrantSignature(cloudKey[1], grant[1])
       /\ doc.ExpiresAt # Nil /\ t <= doc.ExpiresAt[1]
       /\ doc.WorkflowRunID = c.WorkflowRunId
       /\ doc.ActionDigest = SumWord \o ActionDigest(ActionOf(c))

\* Mutant: the action digest is trusted to pin the resource.
VerifyCommandGrantByDigest(cloudKey, c, grant, t) == GrantHolds(cloudKey, c, grant, t)

\* Mutant: a grant is over when its last moment comes.
VerifyCommandGrantEarly(cloudKey, c, grant, t) ==
    GrantHolds(cloudKey, c, grant, t) /\ t < grant[1].doc.ExpiresAt[1]

VerifyCommandGrant(cloudKey, c, grant, t) ==
    /\ GrantHolds(cloudKey, c, grant, t)
    /\ Scopes(c.DeviceId, c.ResourceType, c.ResourceId) \subseteq grant[1].doc.ResourceScope

\* Client.refuse, as the condition under which it does not.
Admits(cloudKey, c, sig, grant, t) ==
    /\ cloudKey # Nil => Verify(cloudKey[1], commandBytes(c), sig)
    /\ c.LedgerPayload # Nil => VerifiedLedgerPayload(c)
    /\ c.ApprovalGrantId # Nil => VerifyCommandGrant(cloudKey, c, grant, t)

-----------------------------------------------------------------------------
(* The parties *)

\* Resource types are words such as "worktree", without bars; none is "device",
\* or begins with it and a colon.
\* The cloud digests the ledger payload it sends, and dates what it signs.
ASSUME StatementsConstants ==
    /\ Word \in Nat /\ Word > 1 /\ Cloud \in Nat /\ Devices \subseteq Nat \ {Cloud}
    /\ PairClaims \subseteq PairClaim /\ AuthClaims \subseteq AuthClaim
    /\ Events \subseteq EdgeEvent /\ Commands \subseteq EdgeCommand
    /\ \A c \in Commands : c.PayloadDigest = sha256(c.LedgerPayload)
    /\ Actions \subseteq Action
    /\ \A a \in Actions : /\ Bar[1] \notin Range(a.type)
                          /\ ~IsPrefix(DeviceWord \o Colon, a.type \o Colon)
    /\ MaxSigned \in Nat /\ MaxGrants \in Nat /\ MaxNow \in Nat

VARIABLES
    signed,     \* the statements signed so far: of which sort, by whom, what
    approved,   \* the grants issued, each with the action that was approved
    now,        \* the device's clock
    verdict     \* the last check: of what, under which key, and its outcome

vars == <<signed, approved, now, verdict>>

NoVerdict == [as |-> "nothing"]

Init ==
    /\ signed = {} /\ approved = {}
    /\ now = 1
    /\ verdict = NoVerdict

BytesOf(as, body) ==
    CASE as = "pair"    -> pairBytes(body)
      [] as = "auth"    -> authBytes(body)
      [] as = "command" -> commandBytes(body)
      [] as = "event"   -> eventBytes(body)

SignatureOf(s) == <<Sign(s.by, BytesOf(s.as, s.body))>>
Signatures == {SignatureOf(s) : s \in signed} \cup {Nil}

\* Between two checks.
MayGoOn == verdict = NoVerdict

SignAs(as, key, body) ==
    /\ MayGoOn /\ Cardinality(signed) < MaxSigned
    /\ signed' = signed \cup {[as |-> as, by |-> key, body |-> body]}
    /\ UNCHANGED <<approved, now, verdict>>

SignPairProof(k, c) == c.Pub = <<k>> /\ SignAs("pair", k, c)
SignAuth(k, c) == SignAs("auth", k, c)
SignCommand(c) == SignAs("command", Cloud, c)
SignEvent(k, e) == SignAs("event", k, e)

\* What the cloud writes of an approved action, with the expiry it chooses.  No
\* check reads when the grant was issued.
GrantFor(a, id, expires) ==
    [Schema |-> GrantSchema, GrantID |-> id, RequestID |-> id, ActorID |-> Nil,
     ActionType |-> a.type, ActionDigest |-> SumWord \o ActionDigest(a),
     ResourceScope |-> Scopes(a.device, a.type, a.id), WorkflowRunID |-> a.run,
     IssuedAt |-> 1, ExpiresAt |-> <<expires>>, SingleUse |-> TRUE]

Approve(a, id, expires) ==
    /\ MayGoOn /\ Cardinality(approved) < MaxGrants
    /\ approved' = approved \cup
         {[action |-> a, grant |-> SignGrant(Cloud, GrantFor(a, id, expires))]}
    /\ UNCHANGED <<signed, now, verdict>>

Tick ==
    /\ MayGoOn /\ now < MaxNow
    /\ now' = now + 1
    /\ UNCHANGED <<signed, approved, verdict>>

Judge(as, key, body, sig, grant, ok) ==
    /\ MayGoOn
    /\ verdict' = [as |-> as, key |-> key, body |-> body, sig |-> sig,
                   grant |-> grant, ok |-> ok]
    /\ UNCHANGED <<signed, approved, now>>

\* The host takes the key from the request, and the registry's for a device.
VerifyPairProof(c, sig) ==
    Judge("pair", c.Pub, c, sig, Nil, Verify(c.Pub[1], pairBytes(c), sig))

VerifyAuth(k, c, sig) ==
    Judge("auth", <<k>>, c, sig, Nil, Verify(k, authBytes(c), sig))

VerifyEvent(k, e, sig) ==
    Judge("event", <<k>>, e, sig, Nil, Verify(k, eventBytes(e), sig))

\* Client.refuse: a client that learned no key skips both signatures.
Check(cloudKey, c, sig, grant) ==
    Judge("command", cloudKey, c, sig, grant,
          Admits(cloudKey, c, sig, grant, now))

\* The caller acts on the verdict.
Proceed ==
    /\ verdict # NoVerdict /\ verdict' = NoVerdict
    /\ UNCHANGED <<signed, approved, now>>

\* The documents about: as issued, or with another expiry written in.
Grants == {<<[g.grant EXCEPT !.doc.ExpiresAt = <<t>>]>> :
             g \in approved, t \in 1..MaxNow} \cup {Nil}

Next ==
    \/ \E k \in Devices : \/ \E c \in PairClaims : SignPairProof(k, c)
                          \/ \E c \in AuthClaims : SignAuth(k, c)
                          \/ \E e \in Events : SignEvent(k, e)
    \/ \E c \in Commands : SignCommand(c)
    \/ \E a \in Actions, c \in Commands, t \in now..MaxNow :
         c.ApprovalGrantId # Nil /\ Approve(a, c.ApprovalGrantId, t)
    \/ Tick \/ Proceed
    \/ \E sig \in Signatures :
         \/ \E c \in PairClaims : VerifyPairProof(c, sig)
         \/ \E k \in Devices : \/ \E c \in AuthClaims : VerifyAuth(k, c, sig)
                               \/ \E e \in Events : VerifyEvent(k, e, sig)
         \/ \E c \in Commands, p \in {d.LedgerPayload : d \in Commands},
               cloudKey \in {Nil, <<Cloud>>}, grant \in Grants :
              /\ c.ApprovalGrantId = Nil => grant = Nil
              /\ Check(cloudKey, [c EXCEPT !.LedgerPayload = p], sig, grant)

Spec == Init /\ [][Next]_vars

-----------------------------------------------------------------------------
(* Properties *)

\* What a signature covers: not the ledger bytes (their digest is) nor an event's
\* trace, and of a time the nanoseconds, modulo Word and 0 where there is none:
\* a command without expiry and one that expires at the epoch are not told apart.
Covered(body) ==
    [f \in DOMAIN body \ {"LedgerPayload", "Traceparent"} |->
       IF f \in {"ExpiresAt", "OccurredAt"} THEN u64(nanosOf(body[f])) ELSE body[f]]

Accepted(sort) == verdict.as = sort /\ verdict.ok /\ verdict.key # Nil

\* "no field can impersonate its neighbor's suffix" (canonical), "must never
\* be spendable against another" host (sign.go): what is accepted under a key
\* was signed with that key, as the same sort of statement, with these fields
\* and these nanoseconds, however the signatures were kept, repeated or routed.
AcceptedAsMeant ==
    \A sort \in {"pair", "auth", "command", "event"} : Accepted(sort) =>
        \E s \in signed : /\ s.as = sort /\ <<s.by>> = verdict.key
                          /\ Covered(s.body) = Covered(verdict.body)

\* "unverified bytes are not payload, they are noise" (VerifiedLedgerPayload):
\* the ledger bytes of a command that is admitted, which no signature covers
\* itself, are those the cloud hashed when it signed the command.
LedgerIsTheClouds ==
    Accepted("command") /\ verdict.body.LedgerPayload # Nil =>
        \E s \in signed : /\ s.as = "command"
                          /\ Covered(s.body) = Covered(verdict.body)
                          /\ s.body.LedgerPayload = verdict.body.LedgerPayload

\* "the grant binds a HUMAN's yes to this command's exact digest"
\* (edge.pb.go): a grant admits the action that was approved and no other,
\* although the digest joins its fields without lengths.
GrantIsForThisAction ==
    Accepted("command") /\ verdict.body.ApprovalGrantId # Nil =>
        \E g \in approved : /\ g.action = ActionOf(verdict.body)
                            /\ g.grant.doc = verdict.grant[1].doc
                            /\ now <= g.grant.doc.ExpiresAt[1]

\* A refusal has a cause: a statement that comes as it was signed, with its
\* ledger bytes and the grant that was issued for its action and is not over, is
\* accepted.
MeantIsAccepted ==
    \A s \in signed :
        /\ verdict.as = s.as /\ ~verdict.ok
        /\ verdict.key = <<s.by>> /\ verdict.body = s.body
        /\ verdict.sig = SignatureOf(s)
        => /\ s.as = "command" /\ s.body.ApprovalGrantId # Nil
           /\ ~\E g \in approved : /\ s.body.LedgerPayload # Nil
                                   /\ verdict.grant = <<g.grant>>
                                   /\ g.action = ActionOf(s.body)
                                   /\ g.grant.doc.GrantID = s.body.ApprovalGrantId
                                   /\ now <= g.grant.doc.ExpiresAt[1]

-----------------------------------------------------------------------------
(* What the proofs rest on *)

Sorts == {"pair", "auth", "command", "event"}

\* The bodies a statement of each sort may have.
Bodies(as) == CASE as = "pair" -> PairClaim [] as = "auth" -> AuthClaim
                [] as = "command" -> EdgeCommand [] as = "event" -> EdgeEvent

\* Signers: a pairing proof is made with the key it names, and every command is
\* one the cloud minted.
SignedInv ==
    \A s \in signed : /\ s.as \in Sorts /\ s.by \in Devices \cup {Cloud}
                      /\ s.body \in Bodies(s.as)
                      /\ s.as = "pair" => s.body.Pub = <<s.by>>
                      /\ s.as = "command" => s.body \in Commands

\* Every grant is the cloud's, for the action a human approved.
ApprovedInv ==
    \A g \in approved :
        /\ g.action \in Actions
        /\ \E c \in Commands, t \in 1..MaxNow :
             g.grant = SignGrant(Cloud, GrantFor(g.action, c.ApprovalGrantId, t))

\* What the parties have signed and granted so far.
BooksInv == SignedInv /\ ApprovedInv /\ now \in Nat \ {0}

\* A verdict is over before anything else happens, so what it says stays true.
IInv == /\ BooksInv
        /\ AcceptedAsMeant /\ LedgerIsTheClouds /\ GrantIsForThisAction
        /\ MeantIsAccepted
=============================================================================
