---------------------------- MODULE MCStatements ----------------------------
(* Statements over a few fields chosen to be easily mistaken for each other: *)
(* equal when joined, or holding bytes that look like lengths, bars, colons. *)
EXTENDS Statements

A == <<1>>
AA == <<1, 1>>
AbarA == A \o Bar \o A
AcolonA == A \o Colon \o A

\* An injective digest of texts over 1..5 of at most 18 symbols.
Hash(s) ==
    LET Code(t) == FoldLeft(LAMBDA n, b : n * 6 + b, 0, t)
        Part(i) == 100 + Code(SubSeq(s, i, IF Len(s) < i + 8 THEN Len(s) ELSE i + 8))
    IN <<Part(1), Part(10)>>

DeviceKeys == {1, 7}
CloudKey == 9

PairSet == {[HostID |-> h, Secret |-> s, Pub |-> <<k>>] :
              h \in {A, AA}, s \in {A, AA}, k \in DeviceKeys}
AuthSet == {[HostID |-> h, DeviceID |-> d, Nonce |-> n] :
              h \in {A, AA}, d \in {A, AA}, n \in {A, <<7>>}}

BaseEvent ==
    [EventId |-> A, DeviceId |-> AA, DeviceSequence |-> 1, CommandId |-> A,
     Type |-> A, OccurredAt |-> Nil, FencingToken |-> 1, Payload |-> Nil,
     PayloadDigest |-> Nil, Traceparent |-> Nil]
EventSet ==
    {BaseEvent, [BaseEvent EXCEPT !.EventId = AA, !.DeviceId = A],
     [BaseEvent EXCEPT !.OccurredAt = <<1>>, !.Traceparent = A],
     [BaseEvent EXCEPT !.OccurredAt = <<Word + 1>>],
     [BaseEvent EXCEPT !.Payload = <<[TypeUrl |-> Nil, Value |-> Nil]>>],
     [BaseEvent EXCEPT !.PayloadDigest = Hash(Nil)]}

BaseCommand ==
    [ProtocolVersion |-> A, CommandId |-> A, LogicalOperationId |-> AA,
     Attempt |-> 1, DeviceId |-> A, TaskId |-> A, WorkflowRunId |-> A,
     ResourceType |-> A, ResourceId |-> A, FencingToken |-> 1,
     ExpectedAggregateVersion |-> 1, ExpiresAt |-> Nil, IdempotencyKey |-> A,
     ApprovalGrantId |-> Nil, PolicyContextHash |-> Nil,
     Payload |-> <<[TypeUrl |-> A, Value |-> A]>>,
     PayloadDigest |-> Hash(A), LedgerPayload |-> A]

Ledger(c, p) == [c EXCEPT !.LedgerPayload = p, !.PayloadDigest = Hash(p)]
Resource(c, t, i) == [c EXCEPT !.ResourceType = t, !.ResourceId = i]
GrantedCommand == [BaseCommand EXCEPT !.ApprovalGrantId = A]

\* Three commands have one joined text of run, device, resource and payload,
\* and two have one scope.
CommandSet ==
    {BaseCommand, Ledger(BaseCommand, AA),
     [BaseCommand EXCEPT !.CommandId = AA, !.LogicalOperationId = A],
     [BaseCommand EXCEPT !.FencingToken = 2],
     [BaseCommand EXCEPT !.ExpiresAt = <<0>>],
     [BaseCommand EXCEPT !.ExpiresAt = <<-1>>],
     Ledger(GrantedCommand, AbarA),
     Resource(GrantedCommand, A, AbarA),
     [GrantedCommand EXCEPT !.DeviceId = AbarA],
     Resource(GrantedCommand, A, AcolonA), Resource(GrantedCommand, AcolonA, A)}

ActionSet == {ActionOf(c) : c \in {d \in CommandSet : d.ApprovalGrantId # Nil}}
=============================================================================
