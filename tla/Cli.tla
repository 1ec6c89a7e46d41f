--------------------------------- MODULE Cli ---------------------------------
(***************************************************************************)
(* The command line interface: a loop that reads a line, checks its number *)
(* of tokens and publishes it to the controller, and a callback that       *)
(* prints what arrives on ui_topic.  The loop does not wait for an answer. *)
(***************************************************************************)
EXTENDS HomeBus

CONSTANTS
  Lines,      \* the lines a user types: the command, its tokens, what they say
  MaxPending  \* BOUND: commands a user types without having seen a reply

\* Get_Dev_* must have two tokens, Set_Dev_* three; --help and every other line
\* only print something.
WellFormed(l) == \/ l.command = "Get_Dev" /\ l.tokens = 2
                 \/ l.command = "Set_Dev" /\ l.tokens = 3

ASSUME LinesAssumption ==
  /\ Lines \subseteq [command : {"Get_Dev", "Set_Dev", "--help", "other"},
                      tokens : Nat, mes : Commands \cup {NoMessage}]
  /\ \A l \in Lines : WellFormed(l) => l.mes \in Commands
ASSUME PendingAssumption == MaxPending \in Nat

VARIABLES
  pending    \* HISTORY: the commands published and not yet answered

CliTypeOK == pending \in Seq(Commands)

CliInit == pending = <<>>

\* One turn of the command loop whose line is published.
Command(l) ==
  /\ WellFormed(l) /\ Len(pending) < MaxPending
  /\ Publish(Cli, ControlerTopic, l.mes) /\ UNCHANGED up
  /\ pending' = IF error'[Cli] = "none" THEN Append(pending, l.mes) ELSE pending

\* publish_callback prints the reply.
Display ==
  /\ Arrived(Cli)
  /\ inbox' = [inbox EXCEPT ![Cli] = Tail(@)]
  /\ pending' = IF pending = <<>> THEN pending ELSE Tail(pending)
  /\ UNCHANGED <<outbox, error, up, subscribed, delivering>>

=============================================================================
