-------------------------- MODULE LinkServerProofs --------------------------
(***************************************************************************)
(* Proofs about LinkServer, for any number of calls, devices, secrets,     *)
(* challenges and tokens.                                                  *)
(***************************************************************************)
EXTENDS LinkServer, TLAPS

USE LinkServerConstants

\* The RPCs that authorize is asked about.
LEMMA Surface ==
    DOMAIN CapabilityFor = {"WatchStatus", "WatchPane", "SubmitAnswer", "SubmitCommand"}
BY DEF CapabilityFor

\* The steps that touch the secret, the challenges and what was accepted.
LEMMA WritesCredentials ==
    ASSUME [Next]_vars
    PROVE  \/ UNCHANGED <<secret, issued, minted, uses>>
           \/ CloseWindow \/ Restart \/ \E x \in Secret : OpenWindow(x)
           \/ \E c \in Call :
                \/ \E d \in Device, x \in Secret : PairRedeem(c, d, x)
                \/ \E n \in Nonce : ChallengeMint(c, n)
                \/ AuthConsume(c)
                \/ \E t \in Token : AuthMint(c, t)
<1> USE DEF credentials, history
<1>1. CASE Host
  BY <1>1 DEF Host, SetCapabilities, Lapse, ResolveLapsed
<1>2. ASSUME NEW c \in Call, Start(c)
      PROVE  \/ UNCHANGED <<secret, issued, minted, uses>>
             \/ \E d \in Device, x \in Secret : PairRedeem(c, d, x)
  BY <1>2 DEF Start, ChallengeGet, AuthGet, Revoke, Resolve
<1>3. ASSUME NEW c \in Call, Continue(c)
      PROVE  \/ UNCHANGED <<secret, issued, minted, uses>>
             \/ \E n \in Nonce : ChallengeMint(c, n)
             \/ AuthConsume(c)
             \/ \E t \in Token : AuthMint(c, t)
  BY <1>3 DEF Continue, PairAdd, PairRefused, DropTokens, DropStatus, DropPanes,
     ChallengeFails, AuthRefused, Touch, Authorize, Subscribe, Execute
<1>4. CASE \E c \in Call : EndStream(c)
  BY <1>4 DEF EndStream
<1>5. CASE UNCHANGED vars
  BY <1>5 DEF vars
<1> QED
  BY <1>1, <1>2, <1>3, <1>4, <1>5 DEF Next

\* The steps that write the registry, in memory or in the file.
LEMMA WritesRegistry ==
    ASSUME [Next]_vars
    PROVE  \/ UNCHANGED registry \/ Restart
           \/ \E e \in Device, caps \in Grants, ok \in PersistOutcomes :
                SetCapabilities(e, caps, ok)
           \/ \E c \in Call :
                \/ \E e \in Device, ok \in PersistOutcomes : Revoke(c, e, ok)
                \/ \E caps \in Grants, ok \in PersistOutcomes : PairAdd(c, caps, ok)
                \/ \E ok \in PersistOutcomes : Touch(c, ok)
<1> USE DEF registry
<1>1. CASE Host
  BY <1>1 DEF Host, OpenWindow, CloseWindow, Lapse, ResolveLapsed
<1>2. ASSUME NEW c \in Call, Start(c)
      PROVE  UNCHANGED registry \/ \E e \in Device, ok \in PersistOutcomes : Revoke(c, e, ok)
  BY <1>2 DEF Start, ChallengeGet, PairRedeem, AuthGet, Resolve
<1>3. ASSUME NEW c \in Call, Continue(c)
      PROVE  \/ UNCHANGED registry
             \/ \E caps \in Grants, ok \in PersistOutcomes : PairAdd(c, caps, ok)
             \/ \E ok \in PersistOutcomes : Touch(c, ok)
  BY <1>3 DEF Continue, PairRefused, DropTokens, DropStatus, DropPanes, ChallengeFails,
     ChallengeMint, AuthConsume, AuthRefused, AuthMint, Authorize, Subscribe, Execute
<1>4. CASE \E c \in Call : EndStream(c)
  BY <1>4 DEF EndStream
<1>5. CASE UNCHANGED vars
  BY <1>5 DEF vars
<1> QED
  BY <1>1, <1>2, <1>3, <1>4, <1>5 DEF Next

\* RevokeDevice writes an entry with the tombstone over the device's and
\* SetCapabilities one with the tombstone as it was.
LEMMA Entries ==
    ASSUME TypeOK, NEW d \in Device, NEW caps \in SUBSET Capability, Known(d)
    PROVE  /\ LET new == [devices EXCEPT ![d].revoked = TRUE] IN
                /\ new \in [Device -> Registration \cup {Absent}]
                /\ new[d].revoked
                /\ \A e \in Device \ {d} : new[e] = devices[e]
                /\ new[d].by = devices[d].by
           /\ LET new == [devices EXCEPT ![d].capabilities = caps] IN
                /\ new \in [Device -> Registration \cup {Absent}]
                /\ \A e \in Device : /\ new[e].revoked = devices[e].revoked
                                     /\ new[e].by = devices[e].by
<1>1. devices[d] \in Registration
  BY DEF TypeOK, Known
<1>2. /\ [devices[d] EXCEPT !.revoked = TRUE] \in Registration
      /\ [devices[d] EXCEPT !.revoked = TRUE].revoked = TRUE
      /\ [devices[d] EXCEPT !.capabilities = caps] \in Registration
      /\ [devices[d] EXCEPT !.capabilities = caps].revoked = devices[d].revoked
      /\ [devices[d] EXCEPT !.revoked = TRUE].by = devices[d].by
      /\ [devices[d] EXCEPT !.capabilities = caps].by = devices[d].by
  BY <1>1 DEF Registration
<1> QED
  BY <1>2 DEF TypeOK

\* Every step of the host and of a handler keeps the types, and the locals of
\* every handler what they have to be where it is.
LEMMA TypeStep == TypeOK /\ CallInv /\ [Next]_vars => TypeOK' /\ CallInv'
<1> SUFFICES ASSUME TypeOK, CallInv, [Next]_vars PROVE TypeOK' /\ CallInv'
  OBVIOUS
<1> DEFINE Goal == TypeOK' /\ CallInv'
<1> USE Surface DEF TypeOK, CallInv, registry, credentials, streams, calls, history
<1>1. ASSUME NEW x \in Secret, OpenWindow(x) PROVE Goal
  BY <1>1 DEF OpenWindow
<1>2. ASSUME CloseWindow PROVE Goal
  BY <1>2 DEF CloseWindow
<1>3. ASSUME NEW d \in Device, NEW caps \in Grants, NEW ok \in PersistOutcomes,
             SetCapabilities(d, caps, ok)
      PROVE  Goal
  BY <1>3, Entries DEF SetCapabilities, Persist
<1>4. ASSUME NEW v \in Secret \cup Nonce \cup Token, Lapse(v) PROVE Goal
  BY <1>4 DEF Lapse
<1>5. ASSUME NEW t \in Token, ResolveLapsed(t) PROVE Goal
  BY <1>5 DEF ResolveLapsed
<1>6. ASSUME Restart PROVE Goal
  BY <1>6 DEF Restart
<1>7. ASSUME NEW c \in Call, NEW d \in Device, ChallengeGet(c, d) PROVE Goal
  BY <1>7 DEF ChallengeGet, Begin
<1>8. ASSUME NEW c \in Call, NEW d \in Device, NEW x \in Secret, PairRedeem(c, d, x) PROVE Goal
  BY <1>8 DEF PairRedeem, Begin
<1>9. ASSUME NEW c \in Call, NEW d \in Device, NEW n \in Nonce, AuthGet(c, d, n) PROVE Goal
  BY <1>9 DEF AuthGet, Begin
<1>10. ASSUME NEW c \in Call, NEW d \in Device, NEW ok \in PersistOutcomes, Revoke(c, d, ok)
       PROVE  Goal
  <2>1. devices' \in [Device -> Registration \cup {Absent}]
    BY <1>10, Entries DEF Revoke
  <2>2. \A entry \in Registration \cup {Absent} : entry.by \in Secret \cup {NoValue}
    BY DEF Registration, Absent
  <2>3. voided' \in [Device -> SUBSET (Secret \cup {NoValue})]
    BY <1>10, <2>2 DEF Revoke, Void
  <2> QED
    BY <1>10, <2>1, <2>3 DEF Revoke, Begin, Persist
<1>11. ASSUME NEW c \in Call, NEW t \in Token, NEW what \in Requests, Resolve(c, what, t)
       PROVE  Goal
  BY <1>11 DEF Resolve, Begin
<1>12. ASSUME NEW c \in Call, NEW caps \in Grants, NEW ok \in PersistOutcomes,
              PairAdd(c, caps, ok)
       PROVE  Goal
  <2>1. dev[c] \in Device /\ cred[c] \in Secret /\ caps \in SUBSET Capability
    BY <1>12 DEF PairAdd, At
  <2>2. [by |-> cred[c], revoked |-> FALSE, capabilities |-> caps] \in Registration
    BY <2>1 DEF Registration
  <2>3. devices' \in [Device -> Registration \cup {Absent}]
    BY <1>12, <2>1, <2>2 DEF PairAdd
  <2> QED
    BY <1>12, <2>1, <2>3 DEF PairAdd, At, Goto, Return, Persist
<1>13. ASSUME NEW c \in Call, PairRefused(c) PROVE Goal
  BY <1>13 DEF PairRefused, Return
<1>14. ASSUME NEW c \in Call, DropTokens(c) PROVE Goal
  BY <1>14 DEF DropTokens, Goto, Past
<1>15. ASSUME NEW c \in Call, DropStatus(c) PROVE Goal
  BY <1>15 DEF DropStatus, DropStreams, Goto, Past
<1>16. ASSUME NEW c \in Call, DropPanes(c) PROVE Goal
  BY <1>16 DEF DropPanes, DropStreams, Return, Past
<1>17. ASSUME NEW c \in Call, ChallengeFails(c) PROVE Goal
  BY <1>17 DEF ChallengeFails, Return
<1>18. ASSUME NEW c \in Call, NEW n \in Nonce, ChallengeMint(c, n) PROVE Goal
  BY <1>18 DEF ChallengeMint, At, Return
<1>19. ASSUME NEW c \in Call, AuthConsume(c) PROVE Goal
  BY <1>19 DEF AuthConsume, At, Goto, Return
<1>20. ASSUME NEW c \in Call, AuthRefused(c) PROVE Goal
  BY <1>20 DEF AuthRefused, Return
<1>21. ASSUME NEW c \in Call, NEW t \in Token, AuthMint(c, t) PROVE Goal
  BY <1>21 DEF AuthMint, At, Goto
<1>22. ASSUME NEW c \in Call, NEW ok \in PersistOutcomes, Touch(c, ok) PROVE Goal
  BY <1>22 DEF Touch, Return
<1>23. ASSUME NEW c \in Call, Authorize(c) PROVE Goal
  BY <1>23 DEF Authorize, Goto, Return
<1>24. ASSUME NEW c \in Call, Subscribe(c) PROVE Goal
  BY <1>24 DEF Subscribe, Goto
<1>25. ASSUME NEW c \in Call, Execute(c) PROVE Goal
  BY <1>25 DEF Execute, At, Goto
<1>26. ASSUME NEW c \in Call, EndStream(c) PROVE Goal
  BY <1>26 DEF EndStream, Return
<1>27. CASE UNCHANGED vars
  BY <1>27 DEF vars
<1> QED
  BY <1>1, <1>2, <1>3, <1>4, <1>5, <1>6, <1>7, <1>8, <1>9, <1>10, <1>11, <1>12, <1>13,
     <1>14, <1>15, <1>16, <1>17, <1>18, <1>19, <1>20, <1>21, <1>22, <1>23, <1>24, <1>25,
     <1>26, <1>27 DEF Next, Host, Start, Continue

\* A secret is burned by the Redeem that accepts it and a challenge deleted by
\* the consume that accepts it, in the same critical section, so neither can be
\* accepted again; no other step makes one presentable that was accepted.
LEMMA CredentialStep ==
    TypeOK /\ CallInv /\ CredentialInv /\ SingleUse /\ [Next]_vars => CredentialInv' /\ SingleUse'
<1> SUFFICES ASSUME TypeOK, CallInv, CredentialInv, SingleUse, [Next]_vars
             PROVE  CredentialInv' /\ SingleUse'
  OBVIOUS
<1> USE DEF TypeOK, CredentialInv, SingleUse, registry, credentials, streams, calls, history
<1>1. ASSUME NEW x \in Secret, OpenWindow(x) PROVE CredentialInv' /\ SingleUse'
  BY <1>1 DEF OpenWindow
<1>2. CASE CloseWindow
  BY <1>2 DEF CloseWindow
<1>3. CASE Restart
  BY <1>3 DEF Restart
<1>4. ASSUME NEW c \in Call, NEW d \in Device, NEW x \in Secret, PairRedeem(c, d, x)
      PROVE  CredentialInv' /\ SingleUse'
  BY <1>4 DEF PairRedeem
<1>5. ASSUME NEW c \in Call, NEW n \in Nonce, ChallengeMint(c, n)
      PROVE  CredentialInv' /\ SingleUse'
  BY <1>5 DEF ChallengeMint
<1>6. ASSUME NEW c \in Call, AuthConsume(c) PROVE CredentialInv' /\ SingleUse'
  <2>1. cred[c] \in Nonce /\ dev[c] \in Device
    BY <1>6 DEF AuthConsume, At, CallInv
  <2> QED
    BY <1>6, <2>1 DEF AuthConsume
<1>7. ASSUME NEW c \in Call, NEW t \in Token, AuthMint(c, t) PROVE CredentialInv' /\ SingleUse'
  BY <1>7 DEF AuthMint
<1>8. CASE UNCHANGED <<secret, issued, minted, uses>>
  BY <1>8
<1> HIDE DEF TypeOK, CredentialInv, SingleUse
<1> QED
  BY <1>1, <1>2, <1>3, <1>4, <1>5, <1>6, <1>7, <1>8, WritesCredentials

-----------------------------------------------------------------------------
(* Enrolments *)

\* A step that leaves the registrations alone and sends no call to Add.
Bystands ==
    /\ UNCHANGED <<devices, disk, voided>>
    /\ \A x \in Secret : uses[x] # 0 => uses'[x] # 0
    /\ \A c \in Call : pc'[c] = "adding" => pc[c] = "adding" /\ cred'[c] = cred[c]

\* Redeem sends calls to Add; Pair, RevokeDevice, SetCapabilities, Touch and a
\* restart write registrations; no other step does either.
LEMMA WritesEnrolments ==
    ASSUME TypeOK, CallInv, [Next]_vars
    PROVE  \/ Bystands \/ Restart
           \/ \E e \in Device, caps \in Grants, ok \in PersistOutcomes :
                SetCapabilities(e, caps, ok)
           \/ \E c \in Call :
                \/ \E e \in Device, ok \in PersistOutcomes : Revoke(c, e, ok)
                \/ \E e \in Device, x \in Secret : PairRedeem(c, e, x)
                \/ \E caps \in Grants, ok \in PersistOutcomes : PairAdd(c, caps, ok)
                \/ \E ok \in PersistOutcomes : Touch(c, ok)
<1> USE DEF Bystands, registry, credentials, history, calls
<1>1. CASE Host
  BY <1>1 DEF Host, OpenWindow, CloseWindow, Lapse, ResolveLapsed
<1>2. ASSUME NEW c \in Call, Start(c)
      PROVE  \/ Bystands
             \/ \E e \in Device, ok \in PersistOutcomes : Revoke(c, e, ok)
             \/ \E e \in Device, x \in Secret : PairRedeem(c, e, x)
  BY <1>2 DEF Start, ChallengeGet, AuthGet, Resolve, Begin, TypeOK
<1>3. ASSUME NEW c \in Call, Continue(c)
      PROVE  \/ Bystands
             \/ \E caps \in Grants, ok \in PersistOutcomes : PairAdd(c, caps, ok)
             \/ \E ok \in PersistOutcomes : Touch(c, ok)
  <2>1. CASE AuthConsume(c)
    <3>1. cred[c] \in Nonce
      BY <2>1 DEF AuthConsume, At, CallInv
    <3>2. \A x \in Secret : uses[x] # 0 => uses'[x] # 0
      BY <2>1, <3>1 DEF AuthConsume, TypeOK
    <3> QED
      BY <2>1, <3>2 DEF AuthConsume, Goto, Return, TypeOK
  <2>2. CASE PairRefused(c) \/ ChallengeFails(c) \/ AuthRefused(c)
    BY <2>2 DEF PairRefused, ChallengeFails, AuthRefused, Return, TypeOK
  <2>3. CASE DropTokens(c) \/ DropStatus(c) \/ DropPanes(c)
    BY <2>3 DEF DropTokens, DropStatus, DropPanes, Goto, Return, TypeOK
  <2>4. CASE (\E n \in Nonce : ChallengeMint(c, n)) \/ (\E t \in Token : AuthMint(c, t))
    BY <2>4 DEF ChallengeMint, AuthMint, Goto, Return, TypeOK
  <2>5. CASE Authorize(c) \/ Subscribe(c) \/ Execute(c)
    BY <2>5 DEF Authorize, Subscribe, Execute, Goto, Return, TypeOK
  <2> QED
    BY <1>3, <2>1, <2>2, <2>3, <2>4, <2>5 DEF Continue
<1>4. ASSUME NEW c \in Call, EndStream(c) PROVE Bystands
  BY <1>4 DEF EndStream, Return, TypeOK
<1>5. CASE UNCHANGED vars
  BY <1>5 DEF vars
<1> QED
  BY <1>1, <1>2, <1>3, <1>4, <1>5 DEF Next

\* The secret a call adds with was never accepted before it redeemed it, so no
\* registration goes by it, revoked or not; and no other write takes a tombstone
\* off a registration, or puts one back that was revoked.
LEMMA EnrolmentStep ==
    TypeOK /\ CallInv /\ CredentialInv /\ EnrolmentInv /\ RevocationIsDurable /\ [Next]_vars
      => EnrolmentInv' /\ RevocationIsDurable'
<1> SUFFICES ASSUME TypeOK, CallInv, CredentialInv, EnrolmentInv, RevocationIsDurable,
                    [Next]_vars
             PROVE  EnrolmentInv' /\ RevocationIsDurable'
  OBVIOUS
<1> DEFINE Goal == EnrolmentInv' /\ RevocationIsDurable'
<1>0. \A d \in Device : devices[d].by \in Secret \cup {NoValue} /\ disk[d].by \in Secret \cup {NoValue}
  BY DEF TypeOK, Registration, Absent
<1>1. CASE Bystands
  <2>1. \A d \in Device : Spent(d)' = Spent(d)
    BY <1>1 DEF Bystands, Spent
  <2>2. \A d \in Device : Spent(d) \subseteq Secret
    BY <1>0 DEF Spent, TypeOK
  <2>3. EnrolmentInv'
    BY <1>1, <2>1, <2>2 DEF Bystands, EnrolmentInv, CallInv
  <2> QED
    BY <1>1, <2>3 DEF Bystands, RevocationIsDurable
<1>2. ASSUME NEW c \in Call, NEW e \in Device, NEW x \in Secret, PairRedeem(c, e, x)
      PROVE  Goal
  <2>1. /\ UNCHANGED <<devices, disk, voided>>
        /\ uses[x] = 0 /\ uses' = [uses EXCEPT ![x] = @ + 1]
        /\ pc[c] = "idle" /\ pc' = [pc EXCEPT ![c] = "adding"] /\ cred' = [cred EXCEPT ![c] = x]
    BY <1>2 DEF PairRedeem, Begin, CredentialInv, registry
  <2>2. \A d \in Device : Spent(d)' = Spent(d) /\ Spent(d) \subseteq Secret
    BY <1>0, <2>1 DEF Spent, TypeOK
  <2>3. uses'[x] # 0 /\ \A y \in Secret : uses[y] # 0 => uses'[y] # 0
    BY <2>1 DEF TypeOK
  <2>4. EnrolmentInv'
    BY <2>1, <2>2, <2>3 DEF EnrolmentInv, CallInv, TypeOK
  <2> QED
    BY <2>1, <2>4 DEF RevocationIsDurable
<1>3. ASSUME NEW c \in Call, NEW caps \in Grants, NEW ok \in PersistOutcomes, PairAdd(c, caps, ok)
      PROVE  Goal
  <2>1. /\ dev[c] \in Device /\ cred[c] \in Secret /\ pc[c] = "adding"
        /\ UNCHANGED <<uses, voided>>
        /\ disk' \in {disk, devices'}
    BY <1>3 DEF PairAdd, At, CallInv, Persist
  <2>2. devices'[dev[c]].by = cred[c] /\ \A d \in Device \ {dev[c]} : devices'[d] = devices[d]
    BY <1>3, <2>1 DEF PairAdd, TypeOK
  <2>3. /\ pc'[c] # "adding"
        /\ \A b \in Call \ {c} : pc'[b] = pc[b] /\ cred'[b] = cred[b]
    BY <1>3 DEF PairAdd, Goto, Return, TypeOK
  <2>4. \A d \in Device : Spent(d)' \subseteq Spent(d) \cup {cred[c]}
    BY <2>1, <2>2 DEF Spent
  <2>5. EnrolmentInv'
    BY <2>1, <2>3, <2>4 DEF EnrolmentInv
  <2>6. cred[c] # NoValue /\ cred[c] \notin voided[dev[c]]
    BY <2>1 DEF EnrolmentInv, Spent
  <2>7. RevocationIsDurable'
    BY <2>1, <2>2, <2>6 DEF RevocationIsDurable
  <2> QED
    BY <2>5, <2>7
<1>4. ASSUME UNCHANGED uses,
             \A c \in Call : pc'[c] = "adding" => pc[c] = "adding" /\ cred'[c] = cred[c],
             \A d \in Device : Spent(d)' \subseteq Spent(d)
      PROVE  EnrolmentInv'
  BY <1>4 DEF EnrolmentInv
<1>5. ASSUME NEW c \in Call, NEW e \in Device, NEW ok \in PersistOutcomes, Revoke(c, e, ok)
      PROVE  Goal
  <2>1. /\ \A d \in Device : devices'[d].by = devices[d].by
        /\ \A d \in Device \ {e} : devices'[d] = devices[d]
        /\ devices'[e].revoked
    <3>1. Known(e) /\ devices' = [devices EXCEPT ![e].revoked = TRUE]
      BY <1>5 DEF Revoke
    <3>2. /\ devices'[e].revoked /\ devices'[e].by = devices[e].by
          /\ \A d \in Device \ {e} : devices'[d] = devices[d]
      BY <3>1, Entries
    <3> QED
      BY <3>2
  <2>2. disk' = IF ok THEN devices' ELSE disk
    BY <1>5 DEF Revoke, Persist
  <2>3. voided' = IF ok THEN [voided EXCEPT ![e] = @ \cup {devices[e].by, disk[e].by, NoValue}]
                        ELSE voided
    BY <1>5 DEF Revoke, Void
  <2>4. \A d \in Device : Spent(d)' \subseteq Spent(d)
    BY <2>1, <2>2, <2>3 DEF Spent, TypeOK
  <2>5. UNCHANGED uses /\ \A b \in Call : pc'[b] = "adding" => pc[b] = "adding" /\ cred'[b] = cred[b]
    BY <1>5 DEF Revoke, Begin, TypeOK
  <2>6. RevocationIsDurable'
    BY <2>1, <2>2, <2>3 DEF RevocationIsDurable, TypeOK
  <2> QED
    BY <1>4, <2>4, <2>5, <2>6
<1>6. ASSUME NEW e \in Device, NEW caps \in Grants, NEW ok \in PersistOutcomes,
             SetCapabilities(e, caps, ok)
      PROVE  Goal
  <2>1. \A d \in Device : devices'[d].by = devices[d].by /\ devices'[d].revoked = devices[d].revoked
    BY <1>6, Entries DEF SetCapabilities
  <2>2. disk' \in {disk, devices'} /\ UNCHANGED <<uses, voided, pc, cred>>
    BY <1>6 DEF SetCapabilities, Persist, history, calls
  <2>3. \A d \in Device : Spent(d)' \subseteq Spent(d)
    BY <2>1, <2>2 DEF Spent
  <2>4. RevocationIsDurable'
    BY <2>1, <2>2 DEF RevocationIsDurable
  <2> QED
    BY <1>4, <2>2, <2>3, <2>4
<1>7. ASSUME NEW c \in Call, NEW ok \in PersistOutcomes, Touch(c, ok) PROVE Goal
  <2>1. disk' \in {disk, devices} /\ UNCHANGED <<devices, uses, voided>>
    BY <1>7 DEF Touch
  <2>2. \A b \in Call : pc'[b] = "adding" => pc[b] = "adding" /\ cred'[b] = cred[b]
    BY <1>7 DEF Touch, Return, TypeOK
  <2>3. \A d \in Device : Spent(d)' \subseteq Spent(d)
    BY <2>1 DEF Spent
  <2>4. RevocationIsDurable'
    BY <2>1 DEF RevocationIsDurable
  <2> QED
    BY <1>4, <2>1, <2>2, <2>3, <2>4
<1>8. CASE Restart
  <2>1. devices' = disk /\ UNCHANGED <<disk, uses, voided>> /\ \A b \in Call : pc'[b] # "adding"
    BY <1>8 DEF Restart
  <2>2. \A d \in Device : Spent(d)' \subseteq Spent(d)
    BY <2>1 DEF Spent
  <2>3. RevocationIsDurable'
    BY <2>1 DEF RevocationIsDurable
  <2> QED
    BY <1>4, <2>1, <2>2, <2>3
<1> QED
  BY <1>1, <1>2, <1>3, <1>5, <1>6, <1>7, <1>8, WritesEnrolments

-----------------------------------------------------------------------------
(* Revocation.  A step that does not pair d again keeps, of a revocation of d, *)
(* what has been reached of it.                                                *)

PairsAgain(d) ==
    \E c \in Call, caps \in Grants, ok \in PersistOutcomes :
        PairAdd(c, caps, ok) /\ dev[c] = d

\* Nothing but a new pairing of the key takes a tombstone away that is in
\* memory and in the file: not the writes for other devices, not a write that
\* fails, not the one of Touch, not a restart.
LEMMA TombstoneStays ==
    ASSUME TypeOK, CallInv, [Next]_vars, NEW d \in Device, Tombstone(d), ~PairsAgain(d)
    PROVE  Tombstone(d)'
<1> USE DEF Tombstone, registry
<1>1. CASE \E e \in Device, caps \in Grants, ok \in PersistOutcomes : SetCapabilities(e, caps, ok)
  <2>1. devices'[d].revoked
    BY <1>1, Entries DEF SetCapabilities
  <2> QED
    BY <1>1, <2>1 DEF SetCapabilities, Persist
<1>2. CASE \E c \in Call, e \in Device, ok \in PersistOutcomes : Revoke(c, e, ok)
  <2>1. devices'[d].revoked
    BY <1>2, Entries DEF Revoke
  <2> QED
    BY <1>2, <2>1 DEF Revoke, Persist
<1>3. ASSUME NEW c \in Call, NEW caps \in Grants, NEW ok \in PersistOutcomes, PairAdd(c, caps, ok)
      PROVE  Tombstone(d)'
  <2>1. dev[c] \in Device /\ dev[c] # d
    BY <1>3 DEF PairsAgain, PairAdd, At, CallInv
  <2>2. devices'[d] = devices[d]
    BY <1>3, <2>1 DEF PairAdd, TypeOK
  <2> QED
    BY <1>3, <2>2 DEF PairAdd, Persist
<1>4. CASE \E c \in Call, ok \in PersistOutcomes : Touch(c, ok)
  BY <1>4 DEF Touch
<1>5. CASE Restart
  BY <1>5 DEF Restart
<1>6. CASE UNCHANGED registry
  BY <1>6
<1> QED
  BY <1>1, <1>2, <1>3, <1>4, <1>5, <1>6, WritesRegistry

\* While d is revoked no call of it passes Authenticate's or authorize's check
\* (both read the live registry), and what had passed when its tokens or its
\* streams were dropped is in raced until it returns.
LEMMA DropsStay ==
    ASSUME TypeOK, CallInv, [Next]_vars, NEW d \in Device, Tombstone(d)
    PROVE  /\ TokensDropped(d) => TokensDropped(d)'
           /\ StreamsDropped(d, "WatchStatus") => StreamsDropped(d, "WatchStatus")'
           /\ StreamsDropped(d, "WatchPane") => StreamsDropped(d, "WatchPane")'
<1> DEFINE Goal == /\ TokensDropped(d) => TokensDropped(d)'
                   /\ StreamsDropped(d, "WatchStatus") => StreamsDropped(d, "WatchStatus")'
                   /\ StreamsDropped(d, "WatchPane") => StreamsDropped(d, "WatchPane")'
<1> USE Surface DEF TypeOK, CallInv, TokensDropped, StreamsDropped, At, Submissions,
                    registry, credentials, streams, calls, history
<1>1. CASE UNCHANGED <<sessions, gone, calls, raced>>
  BY <1>1
<1>2. ASSUME NEW t \in Token, ResolveLapsed(t) PROVE Goal
  BY <1>2 DEF ResolveLapsed
<1>3. ASSUME Restart PROVE Goal
  BY <1>3 DEF Restart
<1>4. ASSUME NEW c \in Call, NEW e \in Device, ChallengeGet(c, e) PROVE Goal
  BY <1>4 DEF ChallengeGet, Begin
<1>5. ASSUME NEW c \in Call, NEW e \in Device, NEW x \in Secret, PairRedeem(c, e, x) PROVE Goal
  BY <1>5 DEF PairRedeem, Begin
<1>6. ASSUME NEW c \in Call, NEW e \in Device, NEW n \in Nonce, AuthGet(c, e, n) PROVE Goal
  <2>1. e # d
    BY <1>6 DEF AuthGet, Live, Tombstone
  <2> QED
    BY <1>6, <2>1 DEF AuthGet, Begin
<1>7. ASSUME NEW c \in Call, NEW e \in Device, NEW ok \in PersistOutcomes, Revoke(c, e, ok)
      PROVE  Goal
  BY <1>7 DEF Revoke, Begin
<1>8. ASSUME NEW c \in Call, NEW t \in Token, NEW what \in Requests, Resolve(c, what, t)
      PROVE  Goal
  BY <1>8 DEF Resolve, Begin
<1>9. ASSUME NEW c \in Call, NEW caps \in Grants, NEW ok \in PersistOutcomes, PairAdd(c, caps, ok)
      PROVE  Goal
  BY <1>9 DEF PairAdd, Goto, Return
<1>10. ASSUME NEW c \in Call, PairRefused(c) PROVE Goal
  BY <1>10 DEF PairRefused, Return
<1>11. ASSUME NEW c \in Call, DropTokens(c) PROVE Goal
  BY <1>11 DEF DropTokens, Goto
<1>12. ASSUME NEW c \in Call, DropStatus(c) PROVE Goal
  BY <1>12 DEF DropStatus, DropStreams, Goto
<1>13. ASSUME NEW c \in Call, DropPanes(c) PROVE Goal
  BY <1>13 DEF DropPanes, DropStreams, Return
<1>14. ASSUME NEW c \in Call, ChallengeFails(c) PROVE Goal
  BY <1>14 DEF ChallengeFails, Return
<1>15. ASSUME NEW c \in Call, NEW n \in Nonce, ChallengeMint(c, n) PROVE Goal
  BY <1>15 DEF ChallengeMint, Return
<1>16. ASSUME NEW c \in Call, AuthConsume(c) PROVE Goal
  BY <1>16 DEF AuthConsume, Goto, Return
<1>17. ASSUME NEW c \in Call, AuthRefused(c) PROVE Goal
  BY <1>17 DEF AuthRefused, Return
<1>18. ASSUME NEW c \in Call, NEW t \in Token, AuthMint(c, t) PROVE Goal
  BY <1>18 DEF AuthMint, Goto
<1>19. ASSUME NEW c \in Call, NEW ok \in PersistOutcomes, Touch(c, ok) PROVE Goal
  BY <1>19 DEF Touch, Return
<1>20. ASSUME NEW c \in Call, Authorize(c) PROVE Goal
  <2>1. dev[c] = d => ~Allowed(c)
    BY DEF Allowed, Live, Tombstone
  <2> QED
    BY <1>20, <2>1 DEF Authorize, Goto, Return
<1>21. ASSUME NEW c \in Call, Subscribe(c) PROVE Goal
  BY <1>21 DEF Subscribe, Goto
<1>22. ASSUME NEW c \in Call, Execute(c) PROVE Goal
  BY <1>22 DEF Execute, Goto
<1>23. ASSUME NEW c \in Call, EndStream(c) PROVE Goal
  BY <1>23 DEF EndStream, Return
<1>24. \/ UNCHANGED <<sessions, gone, calls, raced>>
       \/ Restart
       \/ \E t \in Token : ResolveLapsed(t)
       \/ \E c \in Call : Start(c) \/ Continue(c) \/ EndStream(c)
  BY DEF Next, Host, vars, OpenWindow, CloseWindow, SetCapabilities, Lapse
<1> QED
  BY <1>1, <1>2, <1>3, <1>4, <1>5, <1>6, <1>7, <1>8, <1>9, <1>10, <1>11, <1>12, <1>13,
     <1>14, <1>15, <1>16, <1>17, <1>18, <1>19, <1>20, <1>21, <1>22, <1>23, <1>24
     DEF Start, Continue

\* RevokeDevice's drops, each in a critical section of its own, add up: a call
\* that stands has dropped what its pc says, and one that returned all of it.
LEMMA RevocationStep ==
    TypeOK /\ CallInv /\ RevocationInv /\ [Next]_vars => RevocationInv'
<1> SUFFICES ASSUME TypeOK, CallInv, RevocationInv, [Next]_vars PROVE RevocationInv'
  OBVIOUS
<1> DEFINE Phase == {"dropTokens", "dropStatus", "dropPanes"}
<1> DEFINE Moves(d, where) ==
             \/ Revoking(d, where)
             \/ /\ where = "dropTokens"
                /\ \E c \in Call, e \in Device : d = e /\ Revoke(c, e, TRUE)
             \/ \E c \in stands :
                  /\ dev[c] = d
                  /\ \/ where = "dropStatus" /\ DropTokens(c)
                     \/ where = "dropPanes" /\ pc[c] = "dropStatus" /\ DropStatus(c)
                     \/ where = "returned" /\ pc[c] = "dropPanes" /\ DropPanes(c)
<1> DEFINE Goal == /\ \A c \in stands' : pc'[c] \in Phase
                   /\ \A d \in Device, where \in Phase \cup {"returned"} :
                        Revoking(d, where)' => Moves(d, where)
<1>1. Goal
  <2> USE DEF TypeOK, CallInv, RevocationInv, Revoking, At, registry, credentials, streams, calls, history
  <2>1. CASE UNCHANGED <<stands, dead, calls>>
    BY <2>1
  <2>3. ASSUME Restart PROVE Goal
    BY <2>3 DEF Restart
  <2>4. ASSUME NEW c \in Call, UNCHANGED <<stands, dead>>, pc[c] \notin Phase,
               \A x \in Call \ {c} : pc'[x] = pc[x] /\ dev'[x] = dev[x]
        PROVE  Goal
    BY <2>4
  <2>5. ASSUME NEW c \in Call, NEW e \in Device, NEW ok \in PersistOutcomes, Revoke(c, e, ok)
        PROVE  Goal
    <3>1. CASE ok = FALSE
      BY <2>5, <3>1 DEF Revoke
    <3>2. CASE ok = TRUE
      <4>1. /\ stands' = stands \cup {c} /\ dead' = dead
            /\ pc[c] = "idle" /\ pc'[c] = "dropTokens" /\ dev'[c] = e
            /\ \A x \in Call \ {c} : pc'[x] = pc[x] /\ dev'[x] = dev[x]
        BY <2>5, <3>2 DEF Revoke, Begin
      <4>2. ASSUME NEW d \in Device, NEW where \in Phase \cup {"returned"}, Revoking(d, where)'
            PROVE  Revoking(d, where) \/ (where = "dropTokens" /\ d = e)
        BY <4>1, <4>2
      <4>3. Revoke(c, e, TRUE)
        BY <2>5, <3>2
      <4>4. \A x \in stands' : pc'[x] \in Phase
        BY <4>1
      <4> HIDE DEF Revoking
      <4>5. ASSUME NEW d \in Device, NEW where \in Phase \cup {"returned"}, Revoking(d, where)'
            PROVE  Moves(d, where)
        BY <4>2, <4>3, <4>5
      <4> QED
        BY <4>4, <4>5
    <3> QED
      BY <3>1, <3>2
  <2>6. ASSUME NEW c \in Call, NEW caps \in Grants, NEW ok \in PersistOutcomes, PairAdd(c, caps, ok)
        PROVE  Goal
    <3>1. /\ dead' \subseteq dead /\ stands' \subseteq stands /\ pc[c] = "adding"
          /\ \A x \in Call \ {c} : pc'[x] = pc[x] /\ dev'[x] = dev[x]
      BY <2>6 DEF PairAdd, Goto, Return
    <3> QED
      BY <3>1
  <2>7. ASSUME NEW c \in Call, DropTokens(c) PROVE Goal
    <3>1. /\ stands' = stands /\ dead' = dead /\ dev' = dev
          /\ pc' = [pc EXCEPT ![c] = "dropStatus"]
      BY <2>7 DEF DropTokens, Goto
    <3>2. ASSUME NEW d \in Device, NEW where \in Phase \cup {"returned"}, Revoking(d, where)'
          PROVE  \/ Revoking(d, where)
                 \/ c \in stands /\ dev[c] = d /\ where = "dropStatus"
      BY <3>1, <3>2
    <3>3. \A x \in stands' : pc'[x] \in Phase
      BY <3>1
    <3> HIDE DEF Revoking
    <3> QED
      BY <2>7, <3>2, <3>3
  <2>8. ASSUME NEW c \in Call, DropStatus(c) PROVE Goal
    <3>1. /\ stands' = stands /\ dead' = dead /\ dev' = dev /\ pc[c] = "dropStatus"
          /\ pc' = [pc EXCEPT ![c] = "dropPanes"]
      BY <2>8 DEF DropStatus, Goto
    <3>2. ASSUME NEW d \in Device, NEW where \in Phase \cup {"returned"}, Revoking(d, where)'
          PROVE  \/ Revoking(d, where)
                 \/ c \in stands /\ dev[c] = d /\ where = "dropPanes"
      BY <3>1, <3>2
    <3>3. \A x \in stands' : pc'[x] \in Phase
      BY <3>1
    <3> HIDE DEF Revoking
    <3> QED
      BY <2>8, <3>1, <3>2, <3>3
  <2>9. ASSUME NEW c \in Call, DropPanes(c) PROVE Goal
    BY <2>9 DEF DropPanes, Return
  <2>10. \/ UNCHANGED <<stands, dead, calls>> \/ Restart
         \/ \E c \in Call :
              \/ \E e \in Device, ok \in PersistOutcomes : Revoke(c, e, ok)
              \/ \E caps \in Grants, ok \in PersistOutcomes : PairAdd(c, caps, ok)
              \/ DropTokens(c) \/ DropStatus(c) \/ DropPanes(c)
              \/ /\ UNCHANGED <<stands, dead>>
                 /\ pc[c] \notin Phase
                 /\ \A x \in Call \ {c} : pc'[x] = pc[x] /\ dev'[x] = dev[x]
    <3>1. CASE Host
      BY <3>1 DEF Host, OpenWindow, CloseWindow, SetCapabilities, Lapse, ResolveLapsed
    <3>2. CASE UNCHANGED vars
      BY <3>2 DEF vars
    <3>3. ASSUME NEW c \in Call, Start(c) \/ Continue(c) \/ EndStream(c)
          PROVE  \/ \E e \in Device, ok \in PersistOutcomes : Revoke(c, e, ok)
                 \/ \E caps \in Grants, ok \in PersistOutcomes : PairAdd(c, caps, ok)
                 \/ DropTokens(c) \/ DropStatus(c) \/ DropPanes(c)
                 \/ /\ UNCHANGED <<stands, dead>>
                    /\ pc[c] \notin Phase
                    /\ \A x \in Call \ {c} : pc'[x] = pc[x] /\ dev'[x] = dev[x]
      <4>1. CASE EndStream(c)
        BY <4>1 DEF EndStream, Return
      <4>2. CASE Start(c)
        BY <4>2 DEF Start, ChallengeGet, PairRedeem, AuthGet, Resolve, Begin
      <4>3. CASE Continue(c)
        BY <4>3 DEF Continue, PairRefused, ChallengeFails, ChallengeMint, AuthConsume,
           AuthRefused, AuthMint, Touch, Authorize, Subscribe, Execute, Goto, Return
      <4> QED
        BY <3>3, <4>1, <4>2, <4>3
    <3> QED
      BY <3>1, <3>2, <3>3 DEF Next
  <2> QED
    BY <2>1, <2>3, <2>4, <2>5, <2>6, <2>7, <2>8, <2>9, <2>10
<1>2. ASSUME NEW d \in Device, NEW where \in Phase \cup {"returned"}, Revoking(d, where)'
      PROVE  Reached(d, where)'
  <2> USE DEF TypeOK, CallInv, registry, credentials, streams, calls, history
  <2>1. ~PairsAgain(d)
    <3> SUFFICES ASSUME NEW c \in Call, NEW caps \in Grants, NEW ok \in PersistOutcomes,
                        PairAdd(c, caps, ok), dev[c] = d
                 PROVE  FALSE
      BY DEF PairsAgain
    <3>1. /\ d \notin dead'
          /\ \A x \in stands' : x \in stands /\ dev[x] # d /\ dev'[x] \in {dev[x], NoValue}
      BY DEF PairAdd, Goto, Return
    <3> QED
      BY <1>2, <3>1 DEF Revoking
  <2>2. CASE Revoking(d, where)
    <3>1. Reached(d, where)
      BY <2>2 DEF RevocationInv
    <3> QED
      BY <2>1, <3>1, TombstoneStays, DropsStay DEF Reached
  <2>3. ASSUME where = "dropTokens", NEW c \in Call, NEW e \in Device, d = e, Revoke(c, e, TRUE)
        PROVE  Reached(d, where)'
    <3>1. devices'[d].revoked
      BY <2>3, Entries DEF Revoke
    <3> QED
      BY <2>3, <3>1 DEF Revoke, Persist, Reached, Tombstone
  <2>4. ASSUME NEW c \in stands, dev[c] = d, where = "dropStatus", DropTokens(c)
        PROVE  Reached(d, where)'
    <3>1. Tombstone(d)
      BY <2>4 DEF RevocationInv, Revoking, Reached
    <3>2. Tombstone(d)'
      BY <2>1, <3>1, TombstoneStays
    <3>3. TokensDropped(d)'
      BY <2>4 DEF DropTokens, Past, Goto, TokensDropped, Submissions
    <3> QED
      BY <2>4, <3>2, <3>3 DEF Reached
  <2>5. ASSUME NEW c \in stands, dev[c] = d, where = "dropPanes", pc[c] = "dropStatus",
               DropStatus(c)
        PROVE  Reached(d, where)'
    <3>1. Tombstone(d) /\ TokensDropped(d)
      BY <2>5 DEF RevocationInv, Revoking, Reached
    <3>2. Tombstone(d)' /\ TokensDropped(d)'
      BY <2>1, <3>1, TombstoneStays, DropsStay
    <3>3. StreamsDropped(d, "WatchStatus")'
      BY <2>5 DEF DropStatus, DropStreams, Past, Goto, StreamsDropped
    <3> QED
      BY <2>5, <3>2, <3>3 DEF Reached
  <2>6. ASSUME NEW c \in stands, dev[c] = d, where = "returned", pc[c] = "dropPanes",
               DropPanes(c)
        PROVE  Reached(d, where)'
    <3>1. Tombstone(d) /\ TokensDropped(d) /\ StreamsDropped(d, "WatchStatus")
      BY <2>6 DEF RevocationInv, Revoking, Reached
    <3>2. Tombstone(d)' /\ TokensDropped(d)' /\ StreamsDropped(d, "WatchStatus")'
      BY <2>1, <3>1, TombstoneStays, DropsStay
    <3>3. StreamsDropped(d, "WatchPane")'
      BY <2>6 DEF DropPanes, DropStreams, Past, Return, StreamsDropped
    <3> QED
      BY <2>6, <3>2, <3>3 DEF Reached
  <2>7. Moves(d, where)
    BY <1>1, <1>2
  <2> QED
    BY <2>2, <2>3, <2>4, <2>5, <2>6, <2>7
<1> QED
  BY <1>1, <1>2 DEF RevocationInv

\* The inductive invariant holds from the start of a host nobody is paired with.
THEOREM IInvHolds == Spec => []IInv
<1>1. Init => IInv
  BY Surface DEF Init, IInv, TypeOK, CallInv, CredentialInv, SingleUse, RevocationInv, Revoking,
     EnrolmentInv, Spent, RevocationIsDurable, Absent
<1>2. IInv /\ [Next]_vars => IInv'
  BY TypeStep, CredentialStep, EnrolmentStep, RevocationStep DEF IInv
<1> QED
  BY <1>1, <1>2, PTL DEF Spec

\* However the calls that present the same secret or challenge interleave, and
\* whatever restarts, Redeem accepts a pairing secret at most once and consume a
\* challenge at most once.
THEOREM AcceptedOnce == Spec => []SingleUse
<1>1. IInv => SingleUse
  BY DEF IInv
<1> QED
  BY <1>1, IInvHolds, PTL

\* A registration whose revocation was saved never comes back without its
\* tombstone, in memory or in the file: a device is back only by a fresh secret.
THEOREM RevocationLasts == Spec => []RevocationIsDurable
<1>1. IInv => RevocationIsDurable
  BY DEF IInv
<1> QED
  BY <1>1, IInvHolds, PTL

\* After RevokeDevice has returned, only calls and sessions that had passed
\* their check when it came to their table are left of the device.
THEOREM RevocationReachesAll == Spec => []RevocationIsComplete
<1>1. IInv => RevocationIsComplete
  <2> SUFFICES ASSUME IInv, NEW d \in dead
               PROVE  /\ \A c \in Call : dev[c] = d /\ c \notin gone /\
                                           pc[c] \in {"authorized", "watching"} => c \in raced
                      /\ \A t \in Token : sessions[t] = d => t \in raced
    BY DEF RevocationIsComplete
  <2>1. Reached(d, "returned")
    BY DEF IInv, TypeOK, RevocationInv, Revoking
  <2> QED
    BY <2>1, Surface DEF IInv, CallInv, Reached, TokensDropped, StreamsDropped, Submissions
<1> QED
  BY <1>1, IInvHolds, PTL
=============================================================================
