------------------------------ MODULE MCStrSplit ------------------------------
(* Values for the constants of StrSplit. *)
EXTENDS StrSplit, TLC

\* One buffer for each thread, as in the controller and the CLI.
MCOwn == [t \in Threads |-> t]

\* The shortest and the longest text that reaches the controller: Get_Dev_*
\* with an id, PropertyChanged with an id, a field and a value.
MCCommands == {<<"a", ".", "b">>, <<"a", ".", "b", ".", "c", ".", "d">>}

\* With them, texts with an element missing at the front, in the middle and at
\* the end; scanf("%s") reads no empty word.
MCTexts == MCCommands \cup {<<".", "a">>, <<"a", ".", ".", "b">>, <<"a", ".", "b", ".">>}

\* The threads do the same, each with its buffer.
MCSymmetry == Permutations(Threads)

=============================================================================
