---------------------------- MODULE MCMessageQueue ----------------------------
(* Values for the constants of MessageQueue. *)
EXTENDS MessageQueue

\* Packets of one, two and three bytes, which no mix-up of bytes leaves alike.
MCTexts == {<<1>>, <<2, 1>>, <<1, 2, 2>>}

=============================================================================
