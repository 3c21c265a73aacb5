--------------------------- MODULE RegistryProofs ---------------------------
(***************************************************************************)
(* Proofs about Registry, for any set of devices and any vocabulary: the   *)
(* registry file is always whole and never behind what was acknowledged.   *)
(***************************************************************************)
EXTENDS Registry, TLAPS

USE RegistryConstants

\* What an operation writes over an entry is an entry: Add filters what is
\* asked to the known capabilities, the others change a field.
LEMMA Entries ==
    ASSUME NEW d \in Device, NEW asked \in SUBSET Vocabulary, TypeOK
    PROVE  /\ [revoked |-> FALSE, capabilities |-> asked \cap Capability] \in Entry
           /\ devices[d] \in Entry
           /\ devices[d] # Absent =>
                /\ [devices[d] EXCEPT !.capabilities = asked \cap Capability] \in Entry
                /\ [devices[d] EXCEPT !.revoked = TRUE] \in Entry
BY DEF TypeOK, Entry, Registration

\* Every operation of the registry starts with a change of one entry.
LEMMA OperationIsChange ==
    ASSUME NEW d \in Device, TypeOK, Operation(d)
    PROVE  \E entry \in Entry : Change(d, entry) /\ Makes(devices[d], entry)
<1>1. CASE Revoke(d)
  BY <1>1, Entries DEF Revoke, Makes
<1>2. CASE Touch(d)
  BY <1>2, Entries DEF Touch, Makes
<1>3. ASSUME NEW asked \in SUBSET Vocabulary, Add(d, asked)
      PROVE  \E entry \in Entry : Change(d, entry) /\ Makes(devices[d], entry)
  <2> DEFINE entry == [revoked |-> FALSE, capabilities |-> asked \cap Capability]
  <2>1. entry \in Registration /\ ~entry.revoked /\ entry.capabilities # {}
    BY <1>3 DEF Add, Registration
  <2> QED
    BY <1>3, <2>1, Entries DEF Add, Makes
<1>4. ASSUME NEW asked \in SUBSET Vocabulary, SetCapabilities(d, asked)
      PROVE  \E entry \in Entry : Change(d, entry) /\ Makes(devices[d], entry)
  <2> DEFINE granted == asked \cap Capability
             entry == [devices[d] EXCEPT !.capabilities = granted]
  <2>1. granted \in SUBSET Capability
    OBVIOUS
  <2>2. devices[d] # Absent /\ Change(d, entry) /\ entry \in Entry
    BY <1>4, Entries DEF SetCapabilities
  <2>3. Makes(devices[d], entry)
    <3> HIDE DEF granted
    <3> QED
      BY <2>1, <2>2 DEF Makes
  <2> HIDE DEF entry
  <2> QED
    BY <2>2, <2>3
<1> QED
  BY <1>1, <1>2, <1>3, <1>4 DEF Operation

\* While an operation is on its way to disk, memory holds what it made.
LEMMA OperationStep == IInv /\ [Next]_vars => OperationInv'
<1> SUFFICES ASSUME IInv, [Next]_vars PROVE OperationInv'
  OBVIOUS
<1>1. OperationInv
  BY DEF IInv
<1>2. OperationInv' <=> (Pending' => Makes(was', devices'[subject']))
  BY DEF OperationInv
<1>3. ASSUME NEW d \in Device, Operation(d) PROVE OperationInv'
  <2>1. PICK entry \in Entry : Change(d, entry) /\ Makes(devices[d], entry)
    BY <1>3, OperationIsChange DEF IInv
  <2>2. was' = devices[d] /\ subject' = d /\ devices'[d] = entry
    BY <2>1 DEF Change, IInv, TypeOK
  <2> QED
    BY <1>2, <2>1, <2>2
<1>4. CASE UNCHANGED <<devices, subject, was>> /\ (Pending' => Pending)
  BY <1>1, <1>2, <1>4 DEF OperationInv
<1>5. CASE WriteBegin \/ WriteEnd \/ Rename \/ PersistFails \/ Acknowledge
  BY <1>4, <1>5 DEF WriteBegin, WriteEnd, Rename, PersistFails, Acknowledge, Persisting,
     Pending
<1>6. CASE Crash \/ Open
  <2>1. ~Pending'
    BY <1>6 DEF Crash, Open, Pending, IInv, PersistInv
  <2> QED
    BY <1>2, <2>1
<1>7. CASE UNCHANGED vars
  BY <1>4, <1>7 DEF vars, Pending
<1> QED
  BY <1>3, <1>5, <1>6, <1>7 DEF Next

\* Every operation, every step of persistLocked, its failure, a crash and a
\* restart preserve the inductive invariant.
LEMMA IInvStep == IInv /\ [Next]_vars => IInv'
<1> SUFFICES ASSUME IInv, [Next]_vars PROVE IInv'
  OBVIOUS
<1>0. OperationInv'
  BY OperationStep
<1> USE DEF IInv, TypeOK, FileIsWhole, FileKeepsPromises, MemoryKeepsPromises, PersistInv,
            Pending
<1>1. ASSUME NEW d \in Device, Operation(d) PROVE IInv'
  <2>1. PICK entry \in Entry : Change(d, entry) /\ Makes(devices[d], entry)
    BY <1>1, OperationIsChange
  <2>2. \A e \in Device : since[e] \subseteq since'[e]
    BY <2>1 DEF Change
  <2>3. \A e \in Device : devices'[e] \in since'[e]
    BY <2>1 DEF Change
  <2> QED
    BY <1>0, <2>1, <2>2, <2>3 DEF Change
<1>2. CASE WriteBegin
  BY <1>0, <1>2 DEF WriteBegin, Persisting
<1>3. CASE WriteEnd
  BY <1>0, <1>3 DEF WriteEnd, Persisting
<1>4. CASE Rename
  <2>1. file' = devices
    BY <1>4 DEF Rename, Persisting
  <2> QED
    BY <1>0, <1>4, <2>1 DEF Rename, Persisting
<1>5. CASE PersistFails
  BY <1>0, <1>5 DEF PersistFails
<1>6. CASE Acknowledge
  BY <1>0, <1>6 DEF Acknowledge, Persisting
<1>7. CASE Crash
  BY <1>0, <1>7 DEF Crash, Empty, Entry
<1>8. CASE Open
  BY <1>0, <1>8 DEF Open
<1>9. CASE UNCHANGED vars
  BY <1>0, <1>9 DEF vars
<1> QED
  BY <1>1, <1>2, <1>3, <1>4, <1>5, <1>6, <1>7, <1>8, <1>9 DEF Next

\* The inductive invariant holds from the start of an empty registry.
THEOREM IInvHolds == Spec => []IInv
<1>1. Init => IInv
  BY DEF Init, IInv, TypeOK, FileIsWhole, FileKeepsPromises, MemoryKeepsPromises,
     PersistInv, OperationInv, Pending, Empty, Entry
<1> QED
  BY <1>1, IInvStep, PTL DEF Spec

\* At every moment the registry file is a whole registry and holds, for every
\* device, what was acknowledged last or something newer: persistLocked's write
\* and rename make acknowledged pairings and revocations survive every crash.
THEOREM Durability == Spec => [](FileIsWhole /\ FileKeepsPromises)
<1>1. IInv => FileIsWhole /\ FileKeepsPromises
  BY DEF IInv
<1> QED
  BY <1>1, IInvHolds, PTL

\* No crash between the write and the rename of persistLocked, or within the
\* write, leaves a file that Open would have to refuse.
THEOREM NeverTorn == Spec => []FileIsWhole
<1>1. IInv => FileIsWhole
  BY DEF IInv
<1> QED
  BY <1>1, IInvHolds, PTL

\* What the running registry answers from is what it was told last, also when
\* persistLocked failed, and it is what the file holds but for the devices whose
\* operation returned an error.
THEOREM MemoryIsNeverBehind == Spec => []MemoryKeepsPromises
<1>1. IInv => MemoryKeepsPromises
  BY DEF IInv
<1> QED
  BY <1>1, IInvHolds, PTL

\* Rename, and a failure of persistLocked, is the moment at which the operation
\* happens; every other step of it goes unseen.
LEMMA StepSimulation == IInv /\ [Next]_vars => [Abs!AbsNext]_(Abs!absVars)
<1> SUFFICES ASSUME IInv, [Next]_vars
             PROVE  Abs!AbsNext \/ UNCHANGED Abs!absVars
  OBVIOUS
<1>0. TypeOK /\ PersistInv /\ OperationInv
  BY DEF IInv
<1>1. ASSUME Pending, ~Pending', up, UNCHANGED <<up, devices>>, file' \in {file, devices}
      PROVE  Abs!AbsNext
  <2>1. PICK d \in Device : d = subject
    BY <1>0 DEF TypeOK
  <2>2. PICK old \in Entry : old = was
    BY <1>0 DEF TypeOK
  <2>3. PICK entry \in Entry : entry = devices[d]
    BY <1>0 DEF TypeOK
  <2>4. Makes(old, entry)
    BY <1>0, <1>1, <2>1, <2>2, <2>3 DEF OperationInv
  <2>5. Seen = [devices EXCEPT ![d] = old] /\ Seen' = devices /\ Seen[d] = old
    BY <1>0, <1>1, <2>1, <2>2 DEF Seen, TypeOK, PersistInv, Pending
  <2>6. devices = [Seen EXCEPT ![d] = entry]
    BY <1>0, <2>3, <2>5 DEF TypeOK
  <2> HIDE DEF Seen
  <2>7. Abs!AbsChange(d, entry)
    BY <1>1, <2>5, <2>6 DEF Abs!AbsChange
  <2>8. CASE entry \in Registration /\ ~entry.revoked /\ entry.capabilities # {}
    <3>1. PICK granted \in SUBSET Capability : granted = entry.capabilities
      BY <2>8 DEF Registration
    <3>2. entry = [revoked |-> FALSE, capabilities |-> granted]
      BY <2>8, <3>1 DEF Registration
    <3>3. Abs!AbsAdd(d, granted)
      BY <2>7, <2>8, <3>1, <3>2 DEF Abs!AbsAdd
    <3> QED
      BY <3>3 DEF Abs!AbsNext
  <2>9. CASE old # Absent /\ entry = old
    <3>1. Abs!AbsTouch(d)
      BY <2>5, <2>7, <2>9 DEF Abs!AbsTouch
    <3> QED
      BY <3>1 DEF Abs!AbsNext
  <2>10. CASE old # Absent /\ entry = [old EXCEPT !.revoked = TRUE]
    <3>1. Abs!AbsRevoke(d)
      BY <2>5, <2>7, <2>10 DEF Abs!AbsRevoke
    <3> QED
      BY <3>1 DEF Abs!AbsNext
  <2>11. ASSUME NEW granted \in SUBSET Capability,
                old # Absent, entry = [old EXCEPT !.capabilities = granted]
         PROVE  Abs!AbsNext
    <3>1. Abs!AbsSetCapabilities(d, granted)
      BY <2>5, <2>7, <2>11 DEF Abs!AbsSetCapabilities
    <3> QED
      BY <3>1 DEF Abs!AbsNext
  <2> QED
    BY <2>4, <2>8, <2>9, <2>10, <2>11 DEF Makes
<1>2. ASSUME UNCHANGED <<file, Seen>> PROVE UNCHANGED Abs!absVars
  BY <1>2 DEF Abs!absVars
<1>3. ASSUME NEW d \in Device, Operation(d) PROVE UNCHANGED <<file, Seen>>
  <2>1. PICK entry \in Entry : Change(d, entry)
    BY <1>0, <1>3, OperationIsChange
  <2>2. Seen = devices /\ Pending' /\ up'
    BY <2>1 DEF Change, Seen, Pending
  <2>3. Seen' = [devices' EXCEPT ![d] = devices[d]]
    BY <2>1, <2>2 DEF Change, Seen
  <2>4. devices' = [devices EXCEPT ![d] = entry]
    BY <2>1 DEF Change
  <2>5. Seen' = devices
    BY <1>0, <2>3, <2>4 DEF TypeOK
  <2> QED
    BY <2>1, <2>2, <2>5 DEF Change
<1>4. CASE WriteBegin \/ WriteEnd \/ Acknowledge
  BY <1>2, <1>4 DEF WriteBegin, WriteEnd, Acknowledge, Persisting, Seen, Pending
<1>5. CASE Rename
  BY <1>0, <1>1, <1>5 DEF Rename, Persisting, Pending, PersistInv
<1>6. CASE PersistFails
  BY <1>1, <1>6 DEF PersistFails, Pending
<1>7. CASE Crash
  <2>1. Seen' = file /\ file' = file
    BY <1>7 DEF Crash, Seen
  <2>2. Abs!AbsRestart
    BY <2>1 DEF Abs!AbsRestart
  <2> QED
    BY <2>2 DEF Abs!AbsNext
<1>8. CASE Open
  <2>1. Seen = file /\ Seen' = file /\ file' = file
    BY <1>0, <1>8 DEF Open, Seen, Pending, PersistInv
  <2> QED
    BY <1>2, <2>1
<1>9. CASE UNCHANGED vars
  BY <1>2, <1>9 DEF vars, Seen, Pending
<1> QED
  BY <1>2, <1>3, <1>4, <1>5, <1>6, <1>7, <1>8, <1>9 DEF Next

\* The registry with its lock, its temporary file and its rename implements one
\* whose operations are atomic, for every set of devices and of capabilities.
THEOREM Refinement == Spec => ImplementsAtomicRegistry
<1>1. Init => Abs!AbsInit
  BY DEF Init, Abs!AbsInit, Seen, Pending, Empty
<1> QED
  BY <1>1, IInvHolds, StepSimulation, PTL
  DEF Spec, ImplementsAtomicRegistry, Abs!AbsSpec
=============================================================================
