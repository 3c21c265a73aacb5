----------------------------- MODULE LatestWins -----------------------------
(***************************************************************************)
(* What a fan-out hub of rook-host promises its watchers (link/hub.go,     *)
(* header comment): "latest wins, no history".  The hub numbers snapshots; *)
(* a watching surface is shown an increasing subsequence of the numbers,   *)
(* never one that is not published yet, and, once the hub has cut the      *)
(* stream off, never one published after the cut.                          *)
(*                                                                         *)
(* The module knows nothing of locks, buffers or goroutines.  StatusHub    *)
(* and every session of PaneHub are shown to implement it.                 *)
(***************************************************************************)
EXTENDS Integers

CONSTANT Stream          \* the watchers

VARIABLES
    seq,                 \* number of the newest snapshot
    watch,               \* watch[s]: "off", "on" or "cut"
    shown,               \* shown[s]: newest number shown to s, -1 for none
    limit                \* limit[s]: where the stream of s was cut, -1 if not

absVars == <<seq, watch, shown, limit>>

AbsInit ==
    /\ seq = 0
    /\ watch = [s \in Stream |-> "off"]
    /\ shown = [s \in Stream |-> -1]
    /\ limit = [s \in Stream |-> -1]

AbsPublish ==
    /\ seq' = seq + 1
    /\ UNCHANGED <<watch, shown, limit>>

AbsOpen(s) ==
    /\ watch[s] = "off"
    /\ watch' = [watch EXCEPT ![s] = "on"]
    /\ UNCHANGED <<seq, shown, limit>>

\* Numbers may be skipped, never repeated or reversed.
AbsShow(s) ==
    /\ watch[s] # "off"
    /\ \E n \in 0..seq :
         /\ shown[s] < n
         /\ watch[s] = "cut" => n <= limit[s]
         /\ shown' = [shown EXCEPT ![s] = n]
    /\ UNCHANGED <<seq, watch, limit>>

\* One call cuts all the streams D of a device.
AbsCut(D) ==
    /\ \A s \in D : watch[s] = "on"
    /\ watch' = [s \in Stream |-> IF s \in D THEN "cut" ELSE watch[s]]
    /\ limit' = [s \in Stream |-> IF s \in D THEN seq ELSE limit[s]]
    /\ UNCHANGED <<seq, shown>>

AbsEnd(s) ==
    /\ watch[s] # "off"
    /\ watch' = [watch EXCEPT ![s] = "off"]
    /\ shown' = [shown EXCEPT ![s] = -1]
    /\ limit' = [limit EXCEPT ![s] = -1]
    /\ UNCHANGED seq

AbsNext ==
    \/ AbsPublish
    \/ \E s \in Stream : AbsOpen(s) \/ AbsShow(s) \/ AbsEnd(s)
    \/ \E D \in SUBSET Stream : AbsCut(D)

AbsSpec == AbsInit /\ [][AbsNext]_absVars
=============================================================================
