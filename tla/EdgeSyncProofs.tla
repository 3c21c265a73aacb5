--------------------------- MODULE EdgeSyncProofs ---------------------------
(***************************************************************************)
(* Proofs about EdgeSync, for any set of commands with any envelopes, any  *)
(* batch size and any number of faults.                                    *)
(***************************************************************************)
EXTENDS EdgeSync, SequenceTheorems, TLAPS

-----------------------------------------------------------------------------
(* Sequences *)

\* Taking the first command off the list leaves commands of the list.
LEMMA RangeOfTail ==
    ASSUME NEW S, NEW s \in Seq(S), s # <<>>
    PROVE  /\ Tail(s) \in Seq(S) /\ Range(Tail(s)) \subseteq Range(s)
           /\ Head(s) \in S /\ Head(s) \in Range(s)
           /\ Len(s) # 1 => Tail(s) # <<>>
<1>1. /\ Head(s) \in S /\ Tail(s) \in Seq(S) /\ Len(Tail(s)) = Len(s) - 1
      /\ \A i \in 1..Len(Tail(s)) : Tail(s)[i] = s[i + 1]
  BY HeadTailProperties
<1>2. Len(s) \in Nat /\ Len(s) > 0
  OBVIOUS
<1> QED
  BY <1>1, <1>2 DEF Range

\* Minting one more command keeps the commands minted before.
LEMMA RangeOfAppend ==
    ASSUME NEW S, NEW s \in Seq(S), NEW e \in S
    PROVE  Append(s, e) \in Seq(S) /\ Range(s) \subseteq Range(Append(s, e))
BY DEF Range

\* A pass that has ended holds nothing.
LEMMA RangeOfEmpty == Range(<<>>) = {}
BY DEF Range

\* The events of one command: its receipt, then the facts.
LEMMA EventsOfCommand ==
    ASSUME NEW c \in Command, NEW status \in Statuses, NEW updates \in 0..MaxUpdates, seq \in Nat
    PROVE  LET es == EventsOf(c, status, updates) IN
           /\ es \in Seq(Event) /\ Len(es) = 1 + updates
           /\ es[1] = resultEvent(c, seq + 1, status, updates)
           /\ \A i \in 1..updates : es[1 + i] = agentEvent(c, seq + 1 + i, i)
<1> DEFINE first == <<resultEvent(c, seq + 1, status, updates)>>
           rest == [i \in 1..updates |-> agentEvent(c, seq + 1 + i, i)]
<1>1. first \in Seq(Event) /\ Len(first) = 1
      /\ first[1] = resultEvent(c, seq + 1, status, updates)
  BY DEF resultEvent, Event
<1>2. \A i \in 1..updates : agentEvent(c, seq + 1 + i, i) \in Event
  BY DEF agentEvent, Event
<1>3. rest \in Seq(Event) /\ Len(rest) = updates
      /\ \A i \in 1..updates : rest[i] = agentEvent(c, seq + 1 + i, i)
  BY <1>2
<1>4. EventsOf(c, status, updates) = first \o rest
  BY DEF EventsOf
<1> HIDE DEF first, rest
<1>5. /\ first \o rest \in Seq(Event) /\ Len(first \o rest) = 1 + updates
      /\ (first \o rest)[1] = first[1]
      /\ \A i \in 1..updates : (first \o rest)[1 + i] = rest[i]
  <2>1. /\ first \o rest \in Seq(Event) /\ Len(first \o rest) = Len(first) + Len(rest)
        /\ \A k \in 1..Len(first) + Len(rest) :
             (first \o rest)[k] = IF k <= Len(first) THEN first[k] ELSE rest[k - Len(first)]
    BY <1>1, <1>3, ConcatProperties, Zenon
  <2>2. updates \in Nat /\ \A i \in 1..updates : 1 + i \in 1..1 + updates /\ (1 + i) - 1 = i
    OBVIOUS
  <2> QED
    BY <1>1, <1>3, <2>1, <2>2
<1> QED
  BY <1>1, <1>3, <1>4, <1>5

\* A batch that grows by the events of one more command stays whole and honest.
LEMMA GrownBatch ==
    ASSUME NEW c \in Command, NEW status \in Statuses, NEW updates \in 0..MaxUpdates,
           seq \in Nat, NEW batch \in Seq(Event), NEW effects,
           Honest(batch, effects), Whole(batch),
           Malformed(c) => status = "rejected",
           Unauthentic(c) /\ status # "rejected" => <<c, FALSE>> \in effects
    PROVE  LET grown == batch \o EventsOf(c, status, updates) IN
           grown \in Seq(Event) /\ Honest(grown, effects) /\ Whole(grown)
<1> DEFINE es == EventsOf(c, status, updates)
           grown == batch \o es
<1>1. /\ es \in Seq(Event) /\ Len(es) = 1 + updates
      /\ es[1] = resultEvent(c, seq + 1, status, updates)
      /\ \A i \in 1..updates : es[1 + i] = agentEvent(c, seq + 1 + i, i)
  BY EventsOfCommand
<1> HIDE DEF es
<1>2. /\ grown \in Seq(Event) /\ Len(grown) = Len(batch) + Len(es)
      /\ \A k \in 1..Len(batch) + Len(es) :
           grown[k] = IF k <= Len(batch) THEN batch[k] ELSE es[k - Len(batch)]
  BY <1>1, ConcatProperties, Zenon
<1>3. Range(grown) = Range(batch) \cup Range(es)
  BY <1>1, RangeConcatenation, ZenonT(30)
<1> HIDE DEF grown
<1>4. Len(batch) \in Nat /\ updates \in Nat /\ DOMAIN batch = 1..Len(batch)
      /\ DOMAIN es = 1..1 + updates /\ DOMAIN grown = 1..Len(batch) + 1 + updates
  BY <1>1, <1>2
<1>5. \A k \in 2..1 + updates : es[k] = agentEvent(c, seq + k, k - 1)
  <2> SUFFICES ASSUME NEW k \in 2..1 + updates PROVE es[k] = agentEvent(c, seq + k, k - 1)
    OBVIOUS
  <2>1. k - 1 \in 1..updates /\ 1 + (k - 1) = k /\ seq + 1 + (k - 1) = seq + k
    BY <1>4
  <2> QED
    BY <1>1, <2>1
<1>6. \A k \in DOMAIN es : es[k].type = "result" => k = 1
  <2> SUFFICES ASSUME NEW k \in DOMAIN es, k # 1 PROVE es[k].type # "result"
    OBVIOUS
  <2>1. k \in 2..1 + updates
    BY <1>4
  <2>2. es[k] = agentEvent(c, seq + k, k - 1)
    BY <1>5, <2>1
  <2> QED
    BY <2>2 DEF agentEvent
<1>7. Honest(grown, effects)
  <2> SUFFICES ASSUME NEW ev \in Range(grown), ev.type = "result"
               PROVE  /\ ev.status # "none" /\ (Malformed(ev.command) => ev.status = "rejected")
                      /\ Unauthentic(ev.command) /\ ev.status # "rejected"
                           => <<ev.command, FALSE>> \in effects
    BY DEF Honest
  <2>1. CASE ev \in Range(batch)
    BY <2>1 DEF Honest
  <2>2. CASE ev \in Range(es)
    <3>1. PICK k \in DOMAIN es : ev = es[k]
      BY <2>2 DEF Range
    <3>2. ev = resultEvent(c, seq + 1, status, updates)
      BY <1>1, <1>6, <3>1
    <3> QED
      BY <3>2 DEF resultEvent, Statuses
  <2> QED
    BY <1>3, <2>1, <2>2
<1>8. Whole(grown)
  <2> SUFFICES ASSUME NEW k \in DOMAIN grown, grown[k].type = "result",
                      NEW i \in 1..grown[k].owes
               PROVE  \E m \in DOMAIN grown :
                        /\ k < m /\ grown[m].type = "agent"
                        /\ grown[m].command = grown[k].command /\ grown[m].index = i
    BY DEF Whole
  <2>1. CASE k <= Len(batch)
    <3>1. k \in DOMAIN batch /\ grown[k] = batch[k]
      BY <1>1, <1>2, <1>4, <2>1
    <3>2. PICK m \in DOMAIN batch :
             /\ k < m /\ batch[m].type = "agent"
             /\ batch[m].command = batch[k].command /\ batch[m].index = i
      BY <3>1 DEF Whole
    <3>3. m \in DOMAIN grown /\ grown[m] = batch[m]
      BY <1>1, <1>2, <1>4
    <3> QED
      BY <3>1, <3>2, <3>3
  <2>2. CASE k > Len(batch)
    <3>1. k - Len(batch) \in DOMAIN es /\ grown[k] = es[k - Len(batch)]
      <4>1. k \in 1..Len(batch) + Len(es) /\ ~(k <= Len(batch))
        BY <1>1, <1>4, <2>2
      <4>2. k - Len(batch) \in DOMAIN es
        BY <1>4, <2>2
      <4> QED
        BY <1>2, <4>1, <4>2
    <3>2. k - Len(batch) = 1 /\ grown[k] = resultEvent(c, seq + 1, status, updates)
      BY <1>1, <1>6, <3>1
    <3>3. k = Len(batch) + 1 /\ i \in 1..updates
      BY <1>4, <3>2 DEF resultEvent
    <3>4. /\ k + i \in DOMAIN grown /\ k < k + i
          /\ k + i \in 1..Len(batch) + Len(es) /\ ~(k + i <= Len(batch))
          /\ (k + i) - Len(batch) = 1 + i
      BY <1>1, <1>4, <3>3
    <3>5. grown[k + i] = agentEvent(c, seq + 1 + i, i)
      BY <1>1, <1>2, <3>3, <3>4
    <3> QED
      BY <3>2, <3>4, <3>5 DEF agentEvent, resultEvent
  <2> QED
    BY <1>4, <2>1, <2>2
<1> QED
  BY <1>2, <1>7, <1>8 DEF grown, es

-----------------------------------------------------------------------------
(* What a batch does to the cloud's ledger *)

\* The receipt the ledger goes by is one of the batch.
LEMMA ReceiptOfBatch ==
    ASSUME NEW batch \in Seq(Event), NEW c, \E ev \in Range(batch) : IsReceipt(ev, c)
    PROVE  /\ Receipt(batch, c) \in Range(batch) /\ IsReceipt(Receipt(batch, c), c)
           /\ Receipt(batch, c) \in Event
<1>1. Receipt(batch, c) \in Range(batch) /\ IsReceipt(Receipt(batch, c), c)
  BY DEF Receipt
<1>2. Range(batch) \subseteq Event
  BY RangeOfSeq
<1> QED
  BY <1>1, <1>2

\* An outcome stands; a command gets one from its receipt, and what the cloud
\* says it took has one.
LEMMA Ledger ==
    ASSUME TypeOK, NEW batch \in Seq(Event), Honest(batch, ran)
    PROVE  /\ LedgerAfter(batch) \in [Command -> Statuses \cup {"none"}]
           /\ \A c \in Command : LedgerAfter(batch)[c] # outcome[c] =>
                /\ outcome[c] = "none" /\ c \notin Poison
                /\ LedgerAfter(batch)[c] = Receipt(batch, c).status
                /\ \E ev \in Range(batch) : IsReceipt(ev, c)
           /\ \A ev \in Taken(batch) :
                /\ ev \in Event
                /\ ev.type = "result" => LedgerAfter(batch)[ev.command] # "none"
<1> DEFINE Resolved(c) == /\ outcome[c] = "none" /\ c \notin Poison
                          /\ \E ev \in Range(batch) : IsReceipt(ev, c)
<1>1. \A c \in Command :
        LedgerAfter(batch)[c] = IF Resolved(c) THEN Receipt(batch, c).status ELSE outcome[c]
  BY DEF LedgerAfter
<1>2. \A c \in Command : Resolved(c) => Receipt(batch, c).status \in Statuses \cup {"none"}
  BY ReceiptOfBatch DEF Event
<1>3. LedgerAfter(batch) = [c \in Command |-> LedgerAfter(batch)[c]]
  BY DEF LedgerAfter
<1> HIDE DEF Resolved
<1>4. LedgerAfter(batch) \in [Command -> Statuses \cup {"none"}]
  <2>1. \A c \in Command : LedgerAfter(batch)[c] \in Statuses \cup {"none"}
    BY <1>1, <1>2 DEF TypeOK
  <2> QED
    BY <1>3, <2>1
<1>5. \A c \in Command : LedgerAfter(batch)[c] # outcome[c] =>
        /\ outcome[c] = "none" /\ c \notin Poison
        /\ LedgerAfter(batch)[c] = Receipt(batch, c).status
        /\ \E ev \in Range(batch) : IsReceipt(ev, c)
  BY <1>1 DEF Resolved
<1>6. ASSUME NEW ev \in Taken(batch)
      PROVE  ev \in Event /\ (ev.type = "result" => LedgerAfter(batch)[ev.command] # "none")
  <2>1. PICK j \in DOMAIN batch : Takes(batch, j) /\ ev = batch[j]
    BY DEF Taken
  <2>2. ev \in Event /\ ev \in Range(batch)
    BY <2>1 DEF Range
  <2>3. ev.type = "result" => LedgerAfter(batch)[ev.command] = ev.status
    BY <2>1 DEF Takes
  <2> QED
    BY <2>2, <2>3 DEF Honest
<1> QED
  BY <1>4, <1>5, <1>6

\* A receipt that is taken brings its facts along: the batch has them after it,
\* and the cloud takes them with it.
LEMMA FactsComeAlong ==
    ASSUME TypeOK, NEW batch \in Seq(Event), Honest(batch, ran), Whole(batch), NEW c \in Command,
           LedgerAfter(batch)[c] # outcome[c], NEW i \in 1..Receipt(batch, c).owes
    PROVE  \E ev \in Taken(batch) : ev.command = c /\ ev.type = "agent" /\ ev.index = i
<1>1. /\ c \notin Poison
      /\ Receipt(batch, c) \in Range(batch) /\ IsReceipt(Receipt(batch, c), c)
  BY Ledger, ReceiptOfBatch
<1>2. PICK k \in DOMAIN batch : Receipt(batch, c) = batch[k]
  BY <1>1 DEF Range
<1>3. batch[k].command = c /\ batch[k].type = "result" /\ i \in 1..batch[k].owes
  BY <1>1, <1>2 DEF IsReceipt
<1>4. PICK m \in DOMAIN batch :
        /\ k < m /\ batch[m].type = "agent"
        /\ batch[m].command = c /\ batch[m].index = i
  BY <1>3 DEF Whole
<1>5. k \in 1..(m - 1) /\ IsReceipt(batch[k], batch[m].command)
  BY <1>3, <1>4 DEF IsReceipt
<1>6. Takes(batch, m)
  BY <1>1, <1>4, <1>5 DEF Takes
<1>7. batch[m] \in Taken(batch)
  BY <1>4, <1>6 DEF Taken
<1> QED
  BY <1>4, <1>7

\* Recording a whole and honest batch, in time or late, keeps what the ledger
\* promises.
LEMMA RecordKeeps ==
    ASSUME TypeOK, ResolvedIsComplete, NEW batch \in Seq(Event), Honest(batch, ran), Whole(batch),
           Record(batch)
    PROVE  /\ outcome' \in [Command -> Statuses \cup {"none"}]
           /\ facts' \in [Command -> SUBSET Nat] /\ owed' \in [Command -> Nat]
           /\ minted' = minted
           /\ \A c \in Command : outcome[c] # "none" => outcome'[c] = outcome[c]
           /\ \A ev \in Taken(batch) : ev.type = "result" => outcome'[ev.command] # "none"
           /\ \A c \in Command : outcome'[c] # outcome[c] /\ outcome'[c] # "rejected" =>
                ~Malformed(c) /\ (Unauthentic(c) => <<c, FALSE>> \in ran)
           /\ ResolvedIsComplete'
<1> DEFINE New(c) == {ev.index : ev \in {e \in Taken(batch) : e.command = c /\ e.type = "agent"}}
<1>1. /\ outcome' = LedgerAfter(batch) /\ minted' = minted
      /\ facts' = [c \in Command |-> facts[c] \cup New(c)]
      /\ owed' = [c \in Command |-> IF outcome'[c] = outcome[c] THEN owed[c]
                                    ELSE Receipt(batch, c).owes]
  BY DEF Record
<1>2. outcome' \in [Command -> Statuses \cup {"none"}]
  BY <1>1, Ledger
<1>3. facts' \in [Command -> SUBSET Nat]
  <2>1. \A ev \in Taken(batch) : ev \in Event
    BY Ledger
  <2>2. \A ev \in Event : ev.index \in Nat
    BY DEF Event
  <2>3. \A c \in Command : New(c) \subseteq Nat
    BY <2>1, <2>2
  <2> HIDE DEF New
  <2> QED
    BY <1>1, <2>3 DEF TypeOK
<1>4. owed' \in [Command -> Nat]
  <2>1. \A c \in Command : outcome'[c] # outcome[c] => Receipt(batch, c).owes \in Nat
    BY <1>1, Ledger, ReceiptOfBatch DEF Event
  <2> HIDE DEF New
  <2> QED
    BY <1>1, <2>1 DEF TypeOK
<1>5. \A c \in Command : outcome'[c] # outcome[c] /\ outcome'[c] # "rejected" =>
        ~Malformed(c) /\ (Unauthentic(c) => <<c, FALSE>> \in ran)
  <2> SUFFICES ASSUME NEW c \in Command, outcome'[c] # outcome[c], outcome'[c] # "rejected"
               PROVE  ~Malformed(c) /\ (Unauthentic(c) => <<c, FALSE>> \in ran)
    OBVIOUS
  <2>1. outcome'[c] = Receipt(batch, c).status
        /\ Receipt(batch, c) \in Range(batch) /\ IsReceipt(Receipt(batch, c), c)
    BY <1>1, Ledger, ReceiptOfBatch
  <2> QED
    BY <2>1 DEF Honest, IsReceipt
<1>6. ResolvedIsComplete'
  <2> SUFFICES ASSUME NEW c \in Command, outcome'[c] # "none" PROVE 1..owed'[c] \subseteq facts'[c]
    BY DEF ResolvedIsComplete
  <2>1. CASE outcome'[c] = outcome[c]
    BY <1>1, <2>1 DEF ResolvedIsComplete
  <2>2. CASE outcome'[c] # outcome[c]
    <3>1. owed'[c] = Receipt(batch, c).owes
      BY <1>1, <2>2
    <3>2. \A i \in 1..owed'[c] : i \in New(c)
      BY <1>1, <2>2, <3>1, FactsComeAlong
    <3> QED
      BY <1>1, <3>2
  <2> QED
    BY <2>1, <2>2
<1> QED
  BY <1>1, <1>2, <1>3, <1>4, <1>5, <1>6, Ledger

-----------------------------------------------------------------------------
(* The inductive invariant *)

\* The checklist refuses what is malformed, key or no key, and with the key what
\* the cloud did not sign.
LEMMA UnsoundIsRefused ==
    ASSUME NEW c, Malformed(c) \/ (cloudKey /\ Unauthentic(c))
    PROVE  refuse(c)
BY DEF Malformed, Unauthentic, refuse, GrantRefused

\* What a batch says stays honest while what ran only grows.
LEMMA HonestStays ==
    ASSUME NEW effects, NEW more, effects \subseteq more, NEW batch, Honest(batch, effects)
    PROVE  Honest(batch, more)
BY DEF Honest

\* An empty batch says nothing.
LEMMA EmptyBatch ==
    ASSUME NEW effects
    PROVE  <<>> \in Seq(Event) /\ Whole(<<>>) /\ Honest(<<>>, effects)
<1>1. Honest(<<>>, effects)
  BY RangeOfEmpty DEF Honest
<1>2. <<>> \in Seq(Event) /\ Whole(<<>>)
  BY DEF Whole
<1> QED
  BY <1>1, <1>2

\* A step that leaves the ledger and what ran alone keeps the promises about them.
LEMMA LedgerAlone ==
    ASSUME IInv, UNCHANGED <<outcome, facts, owed, ran, reported>>
    PROVE  /\ ReportInv' /\ ResolvedIsComplete' /\ UnsoundHasNoEffect'
           /\ outcome' \in [Command -> Statuses \cup {"none"}]
           /\ facts' \in [Command -> SUBSET Nat] /\ owed' \in [Command -> Nat]
           /\ reported' \subseteq Command
BY DEF IInv, TypeOK, ReportInv, ResolvedIsComplete, UnsoundHasNoEffect, HadEffect

\* A pass ends, one way or another: what it held is gone, or on the wire.
LEMMA PassEnds ==
    ASSUME IInv, todo' = <<>>, events' = <<>>, seq' = 0, minted' = minted,
           ran \subseteq ran', wire' \in {wire, wire \cup {events}}
    PROVE  /\ BatchInv' /\ Range(todo') \cap reported' = {}
           /\ todo' \in Seq(Command) /\ events' \in Seq(Event) /\ seq' \in Nat
           /\ wire' \subseteq Seq(Event) /\ minted' \in Seq(Command)
<1>1. BatchInv'
  BY EmptyBatch, HonestStays DEF IInv, BatchInv, Whole
<1>2. Range(todo') = {}
  BY RangeOfEmpty
<1> QED
  BY <1>1, <1>2, EmptyBatch DEF IInv, TypeOK

\* The steps that leave the cloud's ledger and the pass alone.
LEMMA PassAlone ==
    ASSUME IInv, UNCHANGED <<todo, seq, events, wire, reported>>, ran \subseteq ran'
    PROVE  /\ BatchInv' /\ Range(todo') \cap reported' = {}
           /\ todo' \in Seq(Command) /\ events' \in Seq(Event) /\ seq' \in Nat
           /\ wire' \subseteq Seq(Event)
BY HonestStays DEF IInv, TypeOK, PassInv, BatchInv, Whole

\* A call of the pass fails.
LEMMA FailsStep ==
    ASSUME IInv, Following, PassFails, UNCHANGED <<minted, outcome, facts, owed, signing>>,
           wire' \in {wire, wire \cup {events}},
           \/ pc # "sync" /\ asked' = asked
           \/ pc = "sync" /\ asked' = Range(minted)
    PROVE  IInv'
<1>1. /\ todo' = <<>> /\ events' = <<>> /\ seq' = 0
      /\ UNCHANGED <<cloudKey, met, wake, announced, ran, reported>>
      /\ pc' \in {"stopped", "wait"}
  BY DEF PassFails, FollowAfterError, watcher, key
<1>2. /\ ReportInv' /\ ResolvedIsComplete' /\ UnsoundHasNoEffect'
      /\ outcome' \in [Command -> Statuses \cup {"none"}]
      /\ facts' \in [Command -> SUBSET Nat] /\ owed' \in [Command -> Nat]
      /\ reported' \subseteq Command
  BY <1>1, LedgerAlone
<1>3. /\ BatchInv' /\ Range(todo') \cap reported' = {}
      /\ todo' \in Seq(Command) /\ events' \in Seq(Event) /\ seq' \in Nat
      /\ wire' \subseteq Seq(Event) /\ minted' \in Seq(Command)
  BY <1>1, PassEnds
<1>4. TypeOK'
  BY <1>1, <1>2, <1>3 DEF IInv, TypeOK
<1>5. PassInv'
  BY <1>1, <1>3 DEF IInv, PassInv, Following
<1>6. NudgesAreFollowed'
  BY <1>1 DEF IInv, PassInv, NudgesAreFollowed, Following
<1> QED
  BY <1>2, <1>3, <1>4, <1>5, <1>6 DEF IInv

\* SyncEdge: the cloud offers commands it has no outcome for.
LEMMA SyncStep ==
    ASSUME IInv, SyncEdge
    PROVE  IInv'
<1>1. /\ UNCHANGED <<minted, outcome, facts, owed, wire, events, wake, announced, ran,
                     reported, cloudKey, met, signing>>
      /\ asked' = Range(minted) /\ pc' \in {"wait", "ack"}
  BY DEF SyncEdge, cloud, watcher, key
<1>2. PICK n \in 0..Batch : \E at \in [1..n -> PendingAt] :
        /\ todo' = [i \in 1..n |-> minted[at[i]]]
        /\ pc' = IF n = 0 THEN "wait" ELSE "ack"
  BY DEF SyncEdge
<1>3. PICK at \in [1..n -> PendingAt] :
        /\ todo' = [i \in 1..n |-> minted[at[i]]]
        /\ pc' = IF n = 0 THEN "wait" ELSE "ack"
  BY <1>2
<1>4. \A i \in 1..n : minted[at[i]] \in Command /\ outcome[minted[at[i]]] = "none"
  BY <1>3 DEF IInv, TypeOK, PendingAt
<1>5. n \in Nat
  OBVIOUS
<1>6. /\ todo' \in Seq(Command) /\ DOMAIN todo' = 1..n
      /\ \A i \in 1..n : todo'[i] = minted[at[i]]
  BY <1>3, <1>4, <1>5
<1>7. pc' = "ack" => todo' # <<>>
  BY <1>3, <1>5, <1>6
<1>8. Range(todo') \cap reported' = {}
  BY <1>1, <1>4, <1>6 DEF Range, IInv, ReportInv
<1>9. seq' \in Nat
  BY DEF SyncEdge
<1>10. /\ ReportInv' /\ ResolvedIsComplete' /\ UnsoundHasNoEffect'
       /\ outcome' \in [Command -> Statuses \cup {"none"}]
       /\ facts' \in [Command -> SUBSET Nat] /\ owed' \in [Command -> Nat]
       /\ reported' \subseteq Command
  BY <1>1, LedgerAlone
<1>11. TypeOK'
  BY <1>1, <1>6, <1>9, <1>10 DEF IInv, TypeOK
<1>12. PassInv'
  BY <1>1, <1>7, <1>8 DEF IInv, PassInv, Following, SyncEdge
<1>13. BatchInv'
  BY <1>1, HonestStays DEF IInv, BatchInv, Whole
<1>14. NudgesAreFollowed'
  BY <1>1 DEF IInv, PassInv, NudgesAreFollowed
<1> QED
  BY <1>10, <1>11, <1>12, <1>13, <1>14 DEF IInv

\* One command is refused or executed, and its events join the batch.
LEMMA ExecuteStep ==
    ASSUME IInv, NEW status \in Statuses, NEW updates \in 0..MaxUpdates,
           Execute(status, updates)
    PROVE  IInv'
<1> DEFINE c == Head(todo)
<1>1. /\ pc = "exec" /\ todo # <<>> /\ cloudKey = met /\ met \in BOOLEAN /\ todo \in Seq(Command)
      /\ events \in Seq(Event) /\ seq \in Nat /\ Honest(events, ran) /\ Whole(events)
  BY DEF IInv, TypeOK, PassInv, BatchInv, Following, Execute
<1>2. /\ UNCHANGED <<minted, outcome, facts, owed, wire, wake, announced, asked,
                     reported, cloudKey, met, signing>>
      /\ pc' \in {"submit", "ack"} /\ (pc' = "ack" => Len(todo) # 1)
      /\ todo' = Tail(todo) /\ seq' = seq + 1 + updates
      /\ events' = events \o EventsOf(c, status, updates)
      /\ ran' = IF status = "rejected" THEN ran ELSE ran \cup {<<c, met>>}
      /\ status \in IF refuse(c) THEN {"rejected"} ELSE Outcomes
  BY DEF Execute, cloud, watcher, key
<1>3. /\ todo' \in Seq(Command) /\ Range(todo') \subseteq Range(todo)
      /\ c \in Command /\ (pc' = "ack" => todo' # <<>>)
  BY <1>1, <1>2, RangeOfTail
<1> HIDE DEF c
<1>4. /\ Malformed(c) => status = "rejected"
      /\ Unauthentic(c) /\ status # "rejected" => met = FALSE
  BY <1>1, <1>2, UnsoundIsRefused
<1>5. events' \in Seq(Event) /\ Honest(events', ran') /\ Whole(events')
  <2>1. Honest(events, ran')
    BY <1>1, <1>2, HonestStays
  <2>2. Unauthentic(c) /\ status # "rejected" => <<c, FALSE>> \in ran'
    BY <1>2, <1>4
  <2> QED
    BY <1>1, <1>2, <1>3, <1>4, <2>1, <2>2, GrownBatch
<1>6. seq' \in Nat
  BY <1>1, <1>2
<1>7. BatchInv'
  <2> SUFFICES ASSUME NEW batch \in wire \cup {events'} PROVE Honest(batch, ran') /\ Whole(batch)
    BY <1>2 DEF BatchInv
  <2>1. ran \subseteq ran'
    BY <1>2
  <2> QED
    BY <1>5, <2>1, HonestStays DEF IInv, BatchInv
<1>8. UnsoundHasNoEffect'
  BY <1>2, <1>3, <1>4 DEF IInv, UnsoundHasNoEffect, HadEffect
<1>9. ReportInv' /\ ResolvedIsComplete'
  BY <1>2 DEF IInv, ReportInv, ResolvedIsComplete
<1>10. TypeOK'
  BY <1>2, <1>3, <1>5, <1>6 DEF IInv, TypeOK
<1>11. PassInv'
  BY <1>1, <1>2, <1>3 DEF IInv, PassInv, Following
<1>12. NudgesAreFollowed'
  BY <1>1, <1>2 DEF IInv, NudgesAreFollowed, Following
<1> QED
  BY <1>7, <1>8, <1>9, <1>10, <1>11, <1>12 DEF IInv

\* A batch is recorded, in time or late.
LEMMA RecordStep ==
    ASSUME IInv, NEW batch \in wire \cup {events}, Record(batch), ran' = ran,
           \/ reported' = reported
           \/ reported' = reported \cup
                {ev.command : ev \in {e \in Taken(batch) : e.type = "result"}}
    PROVE  /\ ReportInv' /\ ResolvedIsComplete' /\ UnsoundHasNoEffect'
           /\ outcome' \in [Command -> Statuses \cup {"none"}]
           /\ facts' \in [Command -> SUBSET Nat] /\ owed' \in [Command -> Nat]
           /\ minted' = minted /\ reported' \subseteq Command
<1>1. batch \in Seq(Event) /\ Honest(batch, ran) /\ Whole(batch) /\ TypeOK /\ ResolvedIsComplete
  BY DEF IInv, TypeOK, BatchInv
<1>2. /\ outcome' \in [Command -> Statuses \cup {"none"}]
      /\ facts' \in [Command -> SUBSET Nat] /\ owed' \in [Command -> Nat]
      /\ minted' = minted /\ ResolvedIsComplete'
  BY <1>1, RecordKeeps
<1>3. \A c \in Command : outcome[c] # "none" => outcome'[c] = outcome[c]
  BY <1>1, RecordKeeps
<1>4. \A ev \in Taken(batch) : ev.type = "result" => outcome'[ev.command] # "none"
  BY <1>1, RecordKeeps
<1>5. \A c \in Command : outcome'[c] # outcome[c] /\ outcome'[c] # "rejected" =>
        ~Malformed(c) /\ (Unauthentic(c) => <<c, FALSE>> \in ran)
  BY <1>1, RecordKeeps
<1>6. \A ev \in Taken(batch) : ev.command \in Command
  BY <1>1, Ledger DEF Event
<1>7. reported' \subseteq Command
  <2>1. reported \subseteq Command
    BY DEF IInv, TypeOK
  <2> QED
    BY <1>6, <2>1
<1>8. ReportInv'
  <2> SUFFICES ASSUME NEW c \in reported' PROVE outcome'[c] # "none"
    BY DEF ReportInv
  <2>1. CASE c \in reported
    BY <1>3, <2>1 DEF IInv, TypeOK, ReportInv
  <2>2. CASE c \notin reported
    BY <1>4, <2>2
  <2> QED
    BY <2>1, <2>2
<1>9. UnsoundHasNoEffect'
  BY <1>5 DEF IInv, UnsoundHasNoEffect, HadEffect
<1> QED
  BY <1>2, <1>7, <1>8, <1>9

\* Every step keeps the invariant.
LEMMA IInvStep ==
    ASSUME IInv, [Next]_vars
    PROVE  IInv'
<1>1. CASE Register
  <2>1. /\ UNCHANGED <<minted, outcome, facts, owed, wire, todo, seq, events, wake,
                       announced, ran, reported>>
        /\ pc' = "sync" /\ cloudKey' = signing /\ met' = signing
        /\ signing' = signing
    BY <1>1 DEF Register, cloud, pass, watcher, history, key
  <2> QED
    BY <2>1, LedgerAlone, PassAlone DEF IInv, TypeOK, PassInv, NudgesAreFollowed
<1>2. CASE SyncEdge
  BY <1>2, SyncStep
<1>3. CASE SyncFails
  BY <1>3, FailsStep DEF SyncFails, Following, cloud
<1>4. CASE AckCommand
  <2>1. /\ UNCHANGED <<minted, outcome, facts, owed, wire, todo, seq, events, wake,
                       announced, asked, ran, reported, cloudKey, met, signing>>
        /\ pc = "ack" /\ pc' = "exec"
    BY <1>4 DEF AckCommand, cloud, pass, watcher, history, key
  <2> QED
    BY <2>1, LedgerAlone, PassAlone DEF IInv, TypeOK, PassInv, NudgesAreFollowed, Following
<1>5. CASE AckFails
  BY <1>5, FailsStep DEF AckFails, Following, cloud
<1>6. ASSUME NEW status \in Statuses, NEW updates \in 0..MaxUpdates, Execute(status, updates)
      PROVE  IInv'
  BY <1>6, ExecuteStep
<1>7. CASE ExecuteBroken
  <2>1. /\ UNCHANGED <<minted, outcome, facts, owed, wire, wake, announced, asked,
                       reported, cloudKey, met, signing>>
        /\ todo' = <<>> /\ events' = <<>> /\ seq' = 0
        /\ pc = "exec" /\ pc' \in {"stopped", "wait"}
        /\ ran' = IF refuse(Head(todo)) THEN ran ELSE ran \cup {<<Head(todo), met>>}
    BY <1>7 DEF ExecuteBroken, cloud, watcher, key
  <2>2. Malformed(Head(todo)) \/ (met /\ Unauthentic(Head(todo))) => ran' = ran
    BY <2>1, UnsoundIsRefused DEF IInv, PassInv, Following
  <2>3. UnsoundHasNoEffect'
    BY <2>1, <2>2 DEF IInv, TypeOK, UnsoundHasNoEffect, HadEffect
  <2>4. ReportInv' /\ ResolvedIsComplete'
    BY <2>1 DEF IInv, ReportInv, ResolvedIsComplete
  <2> QED
    BY <2>1, <2>3, <2>4, PassEnds DEF IInv, TypeOK, PassInv, NudgesAreFollowed, Following
<1>8. CASE SubmitEvents
  <2>1. /\ UNCHANGED <<wire, wake, announced, asked, ran, cloudKey, met, signing>>
        /\ Record(events)
        /\ reported' = reported \cup
             {ev.command : ev \in {e \in Taken(events) : e.type = "result"}}
        /\ todo' = <<>> /\ events' = <<>> /\ seq' = 0
        /\ pc = "submit" /\ pc' = "wait"
    BY <1>8 DEF SubmitEvents, Record, watcher, key
  <2>2. /\ ReportInv' /\ ResolvedIsComplete' /\ UnsoundHasNoEffect'
        /\ outcome' \in [Command -> Statuses \cup {"none"}]
        /\ facts' \in [Command -> SUBSET Nat] /\ owed' \in [Command -> Nat]
        /\ minted' = minted /\ reported' \subseteq Command
    BY <2>1, RecordStep
  <2> QED
    BY <2>1, <2>2, PassEnds DEF IInv, TypeOK, PassInv, NudgesAreFollowed, Following
<1>9. CASE SubmitFails
  BY <1>9, FailsStep DEF SubmitFails, Following
<1>10. CASE PollTimer \/ TakeNudge \/ SeeCancel
  <2>1. /\ UNCHANGED <<minted, outcome, facts, owed, wire, todo, seq, events, announced,
                       asked, ran, reported, cloudKey, met, signing>>
        /\ pc = "wait" /\ pc' \in {"sync", "stopped"} /\ wake' \in {0, wake}
    BY <1>10 DEF PollTimer, TakeNudge, SeeCancel, AfterWait, cloud, pass, history, key
  <2> QED
    BY <2>1, LedgerAlone, PassAlone DEF IInv, TypeOK, PassInv, NudgesAreFollowed, Following
<1>11. CASE WatchReceive
  <2>1. /\ UNCHANGED <<minted, outcome, facts, owed, wire, todo, seq, events, pc, asked,
                       ran, reported, cloudKey, met, signing>>
        /\ wake' = 1 /\ announced' = Range(minted)
    BY <1>11 DEF WatchReceive, cloud, pass, history, key
  <2> QED
    BY <2>1, LedgerAlone, PassAlone DEF IInv, TypeOK, PassInv, NudgesAreFollowed, Following
<1>12. CASE WatchOpen \/ WatchBreaks \/ WatchRetires \/ Cancel \/ RevokeToken \/ UNCHANGED vars
            \/ \E c \in Command : GrantLapses(c)
  <2>1. UNCHANGED <<minted, outcome, facts, owed, wire, todo, seq, events, pc, wake,
                    announced, asked, ran, reported, cloudKey, met, signing>>
    BY <1>12 DEF WatchOpen, WatchBreaks, WatchRetires, Cancel, RevokeToken, GrantLapses, vars,
                 cloud, pass, watcher, history, key
  <2> QED
    BY <2>1, LedgerAlone, PassAlone DEF IInv, TypeOK, PassInv, NudgesAreFollowed, Following
<1>13. ASSUME NEW c \in Command, Mint(c)
       PROVE  IInv'
  <2>1. /\ UNCHANGED <<outcome, facts, owed, wire, todo, seq, events, pc, wake,
                       announced, asked, ran, reported, cloudKey, met, signing>>
        /\ minted' = Append(minted, c)
    BY <1>13 DEF Mint, pass, history, key
  <2>2. minted' \in Seq(Command) /\ Range(minted) \subseteq Range(minted')
    BY <2>1, RangeOfAppend DEF IInv, TypeOK
  <2> QED
    BY <2>1, <2>2, LedgerAlone, PassAlone DEF IInv, TypeOK, PassInv, NudgesAreFollowed, Following
<1>14. ASSUME NEW batch \in wire, LateBatch(batch)
       PROVE  IInv'
  <2>1. /\ UNCHANGED <<todo, seq, events, pc, wake, announced, asked, ran, reported, cloudKey, met, signing>>
        /\ wire' = wire \ {batch} /\ Record(batch)
    BY <1>14 DEF LateBatch, Record, pass, watcher, history, key
  <2>2. /\ ReportInv' /\ ResolvedIsComplete' /\ UnsoundHasNoEffect'
        /\ outcome' \in [Command -> Statuses \cup {"none"}]
        /\ facts' \in [Command -> SUBSET Nat] /\ owed' \in [Command -> Nat]
        /\ minted' = minted /\ reported' \subseteq Command
    BY <2>1, RecordStep
  <2>3. BatchInv'
    BY <2>1, HonestStays DEF IInv, BatchInv, Whole
  <2> QED
    BY <2>1, <2>2, <2>3 DEF IInv, TypeOK, PassInv, NudgesAreFollowed, Following
<1>15. CASE Crash
  <2>1. /\ UNCHANGED <<minted, outcome, facts, owed, asked, ran, reported>>
        /\ todo' = <<>> /\ events' = <<>> /\ seq' = 0 /\ wire' \in {wire, wire \cup {events}}
        /\ pc' = "start" /\ wake' = 0 /\ announced' = {} /\ cloudKey' = FALSE /\ met' = FALSE
        /\ signing' = signing
    BY <1>15 DEF Crash, history
  <2> QED
    BY <2>1, LedgerAlone, PassEnds DEF IInv, TypeOK, PassInv, NudgesAreFollowed, Following
<1>16. CASE StartSigning
  <2>1. /\ UNCHANGED <<minted, outcome, facts, owed, wire, todo, seq, events, pc, wake,
                       announced, asked, ran, reported, cloudKey, met>>
        /\ signing' = TRUE
    BY <1>16 DEF StartSigning, pass, watcher, history, key
  <2> QED
    BY <2>1, LedgerAlone, PassAlone DEF IInv, TypeOK, PassInv, NudgesAreFollowed, Following
<1> QED
  BY <1>1, <1>2, <1>3, <1>4, <1>5, <1>6, <1>7, <1>8, <1>9, <1>10, <1>11, <1>12, <1>13, <1>14, <1>15,
     <1>16 DEF Next, Follow, SyncOnce, ExecuteOne, Watch, Cloud

-----------------------------------------------------------------------------
(* The theorems *)

\* EdgeSync's inductive invariant: types, what a pass holds, what a batch on
\* its way may say, and the three invariants it is there for.
THEOREM IInvHolds == Spec => []IInv
<1>1. Init => IInv
  <2> SUFFICES ASSUME Init PROVE IInv
    OBVIOUS
  <2>1. TypeOK
    <3>1. minted \in Seq(Command) /\ wire \subseteq Seq(Event)
          /\ todo \in Seq(Command) /\ events \in Seq(Event) /\ seq \in Nat
      BY DEF Init
    <3>2. outcome \in [Command -> Statuses \cup {"none"}]
          /\ facts \in [Command -> SUBSET Nat] /\ owed \in [Command -> Nat]
      BY DEF Init
    <3> QED
      BY <3>1, <3>2 DEF Init, TypeOK
  <2>2. PassInv /\ ReportInv /\ NudgesAreFollowed
    BY RangeOfEmpty DEF Init, PassInv, ReportInv, NudgesAreFollowed, Following
  <2>3. BatchInv
    BY EmptyBatch DEF Init, BatchInv
  <2>4. ResolvedIsComplete /\ UnsoundHasNoEffect
    BY DEF Init, ResolvedIsComplete, UnsoundHasNoEffect, HadEffect
  <2> QED
    BY <2>1, <2>2, <2>3, <2>4 DEF IInv
<1>2. IInv /\ [Next]_vars => IInv'
  BY IInvStep
<1> QED
  BY <1>1, <1>2, PTL DEF Spec

\* However the watch goroutine's nudges and the passes interleave, a nudge is
\* followed by a pass that begins after it.
THEOREM NudgesFollowed == Spec => []NudgesAreFollowed
<1>1. IInv => NudgesAreFollowed
  BY DEF IInv
<1> QED
  BY <1>1, IInvHolds, PTL

\* A command the cloud counts as resolved has all its session facts there,
\* whatever was lost, repeated or late and however often the client died.
THEOREM ResolvedComplete == Spec => []ResolvedIsComplete
<1>1. IInv => ResolvedIsComplete
  BY DEF IInv
<1> QED
  BY <1>1, IInvHolds, PTL

\* A command whose report the cloud has taken is executed by no later pass.
THEOREM ReportedIsDone == Spec => []NoRerunAfterReport
<1>1. IInv => NoRerunAfterReport
  <2> SUFFICES ASSUME IInv, pc = "exec" PROVE Head(todo) \notin reported
    BY DEF NoRerunAfterReport
  <2>1. Head(todo) \in Range(todo)
    BY RangeOfTail DEF IInv, TypeOK, PassInv
  <2> QED
    BY <2>1 DEF IInv, PassInv
<1> QED
  BY <1>1, IInvHolds, PTL

\* A malformed command has no effect and no outcome but "rejected", key or no
\* key; one the cloud did not sign, but for the processes that registered before
\* the cloud was signing.
THEOREM UnsoundIsInert == Spec => []UnsoundHasNoEffect
<1>1. IInv => UnsoundHasNoEffect
  BY DEF IInv
<1> QED
  BY <1>1, IInvHolds, PTL
====
