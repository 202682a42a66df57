---------------------------- MODULE CanaryLedger ----------------------------
(***************************************************************************)
(* What the availability probe promises to the analysis of its series:     *)
(* sequence numbers are issued one by one, at most Window of them are      *)
(* unsettled at any time, and each is settled (recorded) at most once.     *)
(* Nothing is promised about the order of settling, nor that a number is   *)
(* settled at all.                                                         *)
(***************************************************************************)
EXTENDS Integers, FiniteSets

CONSTANT Window

VARIABLES issued, settled

ledger == <<issued, settled>>

Unsettled == (1 .. issued) \ settled

Init == issued = 0 /\ settled = {}

Issue ==
  /\ Cardinality(Unsettled) < Window
  /\ issued' = issued + 1
  /\ UNCHANGED settled

Settle(n) ==
  /\ n \in Unsettled
  /\ settled' = settled \cup {n}
  /\ UNCHANGED issued

Next == Issue \/ \E n \in 1 .. issued : Settle(n)

Spec == Init /\ [][Next]_ledger
=============================================================================
