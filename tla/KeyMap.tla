------------------------------- MODULE KeyMap -------------------------------
(***************************************************************************)
(* What a hash table promises: a finite map from keys to values.  While an *)
(* insertion is asked for, the map may take its key and value, once or not *)
(* at all (it may fail); a removal takes its key out; a lookup answers     *)
(* with the key's value; and nothing else changes the map.                 *)
(***************************************************************************)
CONSTANTS Keys, Values, None

VARIABLES map,     \* the value of each key, None where there is none
          request, \* the call under way: what is asked, of which key, with which value
          answer   \* what the last lookup returned, None for "not found"

vars == <<map, request, answer>>

Asked(what) == request[1] = what
Idle        == <<"none", None, None>>

Init == map = [k \in Keys |-> None] /\ request = Idle /\ answer = None

Call == /\ request = Idle
        /\ \E k \in Keys :
             \/ \E v \in Values : request' = <<"insert", k, v>>
             \/ \E what \in {"lookup", "remove"} : request' = <<what, k, None>>
        /\ UNCHANGED <<map, answer>>

Insert == /\ Asked("insert")
          /\ map' = [map EXCEPT ![request[2]] = request[3]]
          /\ request' \in {request, Idle}
          /\ UNCHANGED answer

InsertReturns == Asked("insert") /\ request' = Idle /\ UNCHANGED <<map, answer>>

Remove == /\ Asked("remove")
          /\ map' = [map EXCEPT ![request[2]] = None]
          /\ request' = Idle
          /\ UNCHANGED answer

Lookup == /\ Asked("lookup")
          /\ answer' = map[request[2]]
          /\ request' = Idle
          /\ UNCHANGED map

Next == Call \/ Insert \/ InsertReturns \/ Remove \/ Lookup

Spec == Init /\ [][Next]_vars
=============================================================================
