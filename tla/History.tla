------------------------------ MODULE History ------------------------------
(***************************************************************************)
(* What a log kept on flash promises: the abstract specification that the  *)
(* block log of log_db.c implements.                                       *)
(*                                                                         *)
(* The log holds records, numbered in the order they were written.  A      *)
(* record is added behind all others, and records are given up from the    *)
(* oldest on to make room; a power failure at any point changes nothing.   *)
(* Only wiping the log may take records in another order.                  *)
(***************************************************************************)
EXTENDS Naturals

CONSTANT Keep   \* TRUE: the newest record is never given up

VARIABLES records,  \* the numbers of the records held
          wiping    \* the log is being formatted

vars == <<records, wiping>>

Init == records = {} /\ wiping = FALSE

Write == /\ ~wiping
         /\ \E r \in records' \ records : /\ \A old \in records : old < r
                                          /\ records' = records \cup {r}
         /\ UNCHANGED wiping

GiveUp == /\ ~wiping
          /\ records' \subseteq records
          /\ \A old \in records \ records', kept \in records' : old < kept
          /\ Keep => records' # {}
          /\ UNCHANGED wiping

Wipe == /\ wiping
        /\ records' \subseteq records
        /\ UNCHANGED wiping

StartWipe == ~wiping /\ wiping' = TRUE /\ UNCHANGED records
StopWipe  == wiping /\ wiping' = FALSE /\ UNCHANGED records

Next == Write \/ GiveUp \/ Wipe \/ StartWipe \/ StopWipe

Spec == Init /\ [][Next]_vars
====
