----------------------------- MODULE Transcript -----------------------------
(* What the store promises of a turn's messages: they are written by whole  *)
(* steps (an assistant message and the results of all its tool calls, in    *)
(* order, or the answer that ends the turn) and never change. Whoever reads *)
(* the conversation, at any moment, finds one that a provider accepts.      *)
EXTENDS Naturals, Sequences

VARIABLE told   \* the turn's messages in the store, in order: [k |-> kind, n |-> tool calls]

\* Every assistant message is followed by its results, every result follows
\* its call, and nothing comes after the answer.
Whole(s) ==
    /\ \A i \in DOMAIN s :
        /\ s[i].k = "calls" => /\ i + s[i].n <= Len(s)
                               /\ \A j \in 1 .. s[i].n : s[i + j].k = "result"
        /\ s[i].k = "result" => \E j \in 1 .. i - 1 : s[j].k = "calls" /\ i - j <= s[j].n
        /\ s[i].k = "answer" => i = Len(s)

Init == told = <<>>

Write ==
    /\ Len(told') > Len(told)
    /\ SubSeq(told', 1, Len(told)) = told
    /\ Whole(SubSeq(told', Len(told) + 1, Len(told')))

Spec == Init /\ [][Write]_told
=============================================================================
