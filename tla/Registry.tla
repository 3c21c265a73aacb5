------------------------------ MODULE Registry ------------------------------
(***************************************************************************)
(* The device registry, registry/registry.go: a map in memory, saved whole *)
(* after every change by persistLocked, which writes a temporary file and  *)
(* renames it over the registry.  The process may crash between any two    *)
(* steps and Open the file again; the machine itself stays up (nothing is  *)
(* fsynced, so a power cut is outside this model).                         *)
(*                                                                         *)
(* Registry.mu is held across a whole operation, the persist included:     *)
(* phase is "free" or says how far the holder has come.  The readers Get,  *)
(* List and Allowed change nothing.  Names and times are left out.         *)
(***************************************************************************)
EXTENDS FiniteSets

CONSTANTS
    Device,         \* device ids
    Vocabulary,     \* capability names a surface may ask for
    Capability,     \* the known ones (KnownCapability)
    Absent,         \* no registration
    Torn            \* a file that was not written to its end

Registration == [revoked : BOOLEAN, capabilities : SUBSET Capability]
Entry == Registration \cup {Absent}

ASSUME RegistryConstants ==
    /\ Capability \subseteq Vocabulary
    /\ Absent \notin Registration
    /\ Torn \notin [Device -> Entry]

VARIABLES
    up,             \* the process runs
    devices,        \* Registry.devices
    file,           \* the registry file; a missing one holds no device
    tmp,            \* the temporary file
    phase,          \* how far the operation in progress has come
    subject,        \* the device it is about
    was,            \* history: the entry of that device before it
    since,          \* history, since[d]: the entry of d that was acknowledged
                    \*   last, and all it has had since then
    told,           \* history, told[d]: the entry the last operation on d asked
                    \*   this process for, else the one it was opened with
    unsaved         \* history: the devices of the operations that failed to save
                    \*   since the file was last replaced

vars == <<up, devices, file, tmp, phase, subject, was, since, told, unsaved>>

Empty == [d \in Device |-> Absent]

Init ==
    /\ up = TRUE
    /\ devices = Empty
    /\ file = Empty
    /\ tmp = Torn
    /\ phase = "free"
    /\ subject \in Device
    /\ was = Absent
    /\ since = [d \in Device |-> {Absent}]
    /\ told = Empty
    /\ unsaved = {}

-----------------------------------------------------------------------------
(* Operations: the change in memory comes first *)

Change(d, entry) ==
    /\ up
    /\ phase = "free"
    /\ devices' = [devices EXCEPT ![d] = entry]
    /\ since' = [since EXCEPT ![d] = @ \cup {entry}]
    /\ told' = [told EXCEPT ![d] = entry]
    /\ phase' = "changed"
    /\ subject' = d
    /\ was' = devices[d]
    /\ UNCHANGED <<up, file, tmp, unsaved>>

\* Add replaces whatever is registered, a tombstone too; a device that asks for
\* nothing known is refused before anything is touched.
Add(d, asked) ==
    /\ asked \cap Capability # {}
    /\ Change(d, [revoked |-> FALSE, capabilities |-> asked \cap Capability])

\* SetCapabilities may leave a device with nothing.
SetCapabilities(d, asked) ==
    /\ devices[d] # Absent
    /\ Change(d, [devices[d] EXCEPT !.capabilities = asked \cap Capability])

Revoke(d) ==
    /\ devices[d] # Absent
    /\ Change(d, [devices[d] EXCEPT !.revoked = TRUE])

\* LastSeenAt is not part of an entry; the write is the same.
Touch(d) ==
    /\ devices[d] # Absent
    /\ Change(d, devices[d])

-----------------------------------------------------------------------------
(* persistLocked: os.WriteFile creates or truncates, then fills; os.Rename *)

Persisting(from, to) ==
    /\ up
    /\ phase = from
    /\ phase' = to
    /\ UNCHANGED <<up, devices, subject, was, told>>

\* Mutant: the registry itself is written, without a temporary file.
WriteInPlace ==
    /\ Persisting("changed", "writing")
    /\ file' = Torn
    /\ UNCHANGED <<tmp, since, unsaved>>

WriteBegin ==
    /\ Persisting("changed", "writing")
    /\ tmp' = Torn
    /\ UNCHANGED <<file, since, unsaved>>

WriteEnd ==
    /\ Persisting("writing", "written")
    /\ tmp' = devices
    /\ UNCHANGED <<file, since, unsaved>>

Rename ==
    /\ Persisting("written", "renamed")
    /\ file' = tmp
    /\ unsaved' = {}
    /\ UNCHANGED <<tmp, since>>

\* Mutant: a write that failed is acknowledged.
PersistFailsSilently ==
    /\ up
    /\ phase \in {"changed", "writing", "written"}
    /\ phase' = "free"
    /\ since' = [since EXCEPT ![subject] = {devices[subject]}]
    /\ UNCHANGED <<up, devices, file, tmp, subject, was, told, unsaved>>

\* Mutant: an operation that cannot be saved is undone.
PersistFailsRollsBack ==
    /\ up
    /\ phase \in {"changed", "writing", "written"}
    /\ phase' = "free"
    /\ devices' = [devices EXCEPT ![subject] = was]
    /\ unsaved' = unsaved \cup {subject}
    /\ UNCHANGED <<up, file, tmp, subject, was, since, told>>

\* Any of the calls may fail; the operation returns the error (or, for Touch,
\* ignores it) and the change in memory stays.
PersistFails ==
    /\ up
    /\ phase \in {"changed", "writing", "written"}
    /\ phase' = "free"
    /\ unsaved' = unsaved \cup {subject}
    /\ UNCHANGED <<up, devices, file, tmp, subject, was, since, told>>

\* The operation returns nil: its device's entry is a promise from here on.
Acknowledge ==
    /\ Persisting("renamed", "free")
    /\ since' = [since EXCEPT ![subject] = {devices[subject]}]
    /\ UNCHANGED <<file, tmp, unsaved>>

-----------------------------------------------------------------------------
Crash ==
    /\ up
    /\ up' = FALSE
    /\ devices' = Empty
    /\ phase' = "free"
    /\ told' = Empty
    /\ unsaved' = {}
    /\ UNCHANGED <<file, tmp, subject, was, since>>

\* Open refuses a file that does not parse.
Open ==
    /\ ~up
    /\ file # Torn
    /\ up' = TRUE
    /\ devices' = file
    /\ told' = file
    /\ UNCHANGED <<file, tmp, phase, subject, was, since, unsaved>>

(* Operators marked "Mutant" are not part of the specification: each shows  *)
(* that a property depends on the definition that follows it.              *)

Operation(d) ==
    \/ Revoke(d)
    \/ Touch(d)
    \/ \E asked \in SUBSET Vocabulary : Add(d, asked) \/ SetCapabilities(d, asked)

Next ==
    \/ \E d \in Device : Operation(d)
    \/ WriteBegin \/ WriteEnd \/ Rename \/ PersistFails \/ Acknowledge
    \/ Crash \/ Open

Spec == Init /\ [][Next]_vars

-----------------------------------------------------------------------------
(* Properties *)

TypeOK ==
    /\ up \in BOOLEAN
    /\ devices \in [Device -> Entry]
    /\ file \in [Device -> Entry] \cup {Torn}
    /\ tmp \in [Device -> Entry] \cup {Torn}
    /\ phase \in {"free", "changed", "writing", "written", "renamed"}
    /\ subject \in Device
    /\ was \in Entry
    /\ since \in [Device -> SUBSET Entry]
    /\ told \in [Device -> Entry]
    /\ unsaved \subseteq Device

\* The file is a whole registry at every moment a crash can choose, so Open
\* never has to refuse it (Open: a file that does not parse "would un-pair
\* every device").
FileIsWhole == file # Torn

\* The file holds, for every device, the entry acknowledged last or one it was
\* given after that: no crash and no failed write brings back an older one, so
\* a revocation that returned nil stays ("a restart must not resurrect a stolen
\* phone", registry_test.go).
FileKeepsPromises == FileIsWhole => \A d \in Device : file[d] \in since[d]

\* A running process answers from what the last operation on a device asked
\* for, also when persistLocked failed: a Revoke that returned an error holds
\* until the restart.  And between operations memory and file differ only on a
\* device whose caller was given that error and after whom nobody saved: saving
\* any device saves all of them.
MemoryKeepsPromises ==
    up => \A d \in Device :
            /\ devices[d] = told[d]
            /\ phase = "free" /\ devices[d] # file[d] => d \in unsaved

-----------------------------------------------------------------------------
(* The refinement *)

Pending == phase \in {"changed", "writing", "written"}

\* An operation happens when the rename puts it on disk, or when persistLocked
\* gives up.  Until then nobody sees it: Get, List and Allowed take the lock.
\* While no process runs, what will be seen is the file.
Seen ==
    IF ~up THEN file
    ELSE IF Pending THEN [devices EXCEPT ![subject] = was]
    ELSE devices

Abs == INSTANCE AtomicRegistry WITH memory <- Seen, saved <- file

\* Every operation of the registry, its write and rename included, is atomic
\* for its callers and for the next process, wherever it fails or is cut off:
\* what Open finds is all of what was in memory at one moment, and an
\* operation that returned an error has happened in memory alone.
ImplementsAtomicRegistry == Abs!AbsSpec

-----------------------------------------------------------------------------
\* The inductive invariant of RegistryProofs: what the temporary file holds
\* when it is about to replace the registry, and what memory holds and the file
\* lacks at every step of an operation.
PersistInv ==
    /\ phase # "free" => up
    /\ phase = "written" => tmp = devices
    /\ phase = "renamed" => file = devices
    /\ up => \A d \in Device : devices[d] \in since[d]
    /\ up => \A d \in Device :
               devices[d] # file[d] => d \in unsaved \/ (Pending /\ d = subject)

\* What one of the operations may make of an entry.
Makes(old, entry) ==
    \/ entry \in Registration /\ ~entry.revoked /\ entry.capabilities # {}
    \/ /\ old # Absent
       /\ \/ entry = old
          \/ entry = [old EXCEPT !.revoked = TRUE]
          \/ \E granted \in SUBSET Capability : entry = [old EXCEPT !.capabilities = granted]

\* While an operation is on its way to disk, memory holds what it made.
OperationInv == Pending => Makes(was, devices[subject])

IInv == TypeOK /\ FileIsWhole /\ FileKeepsPromises /\ MemoryKeepsPromises /\ PersistInv
        /\ OperationInv
=============================================================================
