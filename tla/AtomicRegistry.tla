--------------------------- MODULE AtomicRegistry ---------------------------
(***************************************************************************)
(* What the device registry promises those who call it: every operation    *)
(* happens at one moment, in memory and, when it succeeds, on disk with    *)
(* all that memory holds; one that fails to save has happened in memory    *)
(* only; a process that dies loses its memory and the next one starts from *)
(* the disk.                                                               *)
(*                                                                         *)
(* The module knows nothing of temporary files, renames or the lock;       *)
(* Registry, which takes an operation step by step, is shown to implement  *)
(* it.                                                                     *)
(***************************************************************************)

CONSTANTS Device, Capability, Absent

VARIABLES
    memory,         \* what a call is answered from
    saved           \* what the next process will start from

absVars == <<memory, saved>>

AbsInit ==
    /\ memory = [d \in Device |-> Absent]
    /\ saved = memory

\* In memory and on disk, or in memory alone.
AbsChange(d, entry) ==
    /\ memory' = [memory EXCEPT ![d] = entry]
    /\ saved' \in {memory', saved}

AbsAdd(d, granted) ==
    /\ granted # {}
    /\ AbsChange(d, [revoked |-> FALSE, capabilities |-> granted])

AbsSetCapabilities(d, granted) ==
    memory[d] # Absent /\ AbsChange(d, [memory[d] EXCEPT !.capabilities = granted])

AbsRevoke(d) ==
    memory[d] # Absent /\ AbsChange(d, [memory[d] EXCEPT !.revoked = TRUE])

AbsTouch(d) == memory[d] # Absent /\ AbsChange(d, memory[d])

AbsRestart ==
    /\ memory' = saved
    /\ UNCHANGED saved

AbsNext ==
    \/ \E d \in Device : \/ AbsRevoke(d) \/ AbsTouch(d)
                         \/ \E granted \in SUBSET Capability :
                              AbsAdd(d, granted) \/ AbsSetCapabilities(d, granted)
    \/ AbsRestart

AbsSpec == AbsInit /\ [][AbsNext]_absVars
=============================================================================
