----------------------------- MODULE CheckState -----------------------------
(* One call of a pure rule: what is asked, of which input, and the answer. *)
EXTENDS Integers, Sequences, SequencesExt, FiniteSets

CONSTANT None       \* nothing asked yet
VARIABLE call

topic  == call[1]
input  == call[2]
output == call[3]

NothingAsked == call = <<None, None, None>>
Ask(name, inputs, Answer(_)) ==
    /\ NothingAsked
    /\ \E i \in inputs : call' = <<name, i, Answer(i)>>
=============================================================================
