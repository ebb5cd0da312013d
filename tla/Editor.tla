------------------------------- MODULE Editor -------------------------------
(***************************************************************************)
(* What editing a line promises: a text and a place in it.  Keys type or      *)
(* erase next to the place, move it, cut text next to it, or put another text *)
(* in its stead; nothing else in the text ever changes.                      *)
(***************************************************************************)
EXTENDS Integers, Sequences

CONSTANTS Chars, Texts

VARIABLES before, after

vars == <<before, after>>

Init == before = <<>> /\ after = <<>>

Front(s) == SubSeq(s, 1, Len(s) - 1)

Type == \E ch \in Chars : before' = Append(before, ch) /\ UNCHANGED after

Erase == before # <<>> /\ before' = Front(before) /\ UNCHANGED after

Delete == after # <<>> /\ after' = Tail(after) /\ UNCHANGED before

\* To another place in the same text.
Move ==
    LET text == before \o after IN
    \E n \in 0 .. Len(text) :
        before' = SubSeq(text, 1, n) /\ after' = SubSeq(text, n + 1, Len(text))

Cut ==
    \/ \E n \in 0 .. Len(before) : before' = SubSeq(before, 1, n) /\ UNCHANGED after
    \/ \E n \in 0 .. Len(after) : after' = SubSeq(after, n + 1, Len(after)) /\ UNCHANGED before

\* The whole text at once: the kill-line key does it from any place but the first.
CutAll == before' = <<>> /\ after' = <<>>

Recall == before' \in Texts /\ after' = <<>>

Next == Type \/ Erase \/ Delete \/ Move \/ Cut \/ CutAll \/ Recall

Spec == Init /\ [][Next]_vars

=============================================================================
