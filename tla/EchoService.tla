---------------------------- MODULE EchoService -----------------------------
(***************************************************************************)
(* What a connection promises to a client that sends messages: answers     *)
(* come in the order of the messages, each message is answered once at     *)
(* most, and only messages that were sent are answered.  Messages may stay *)
(* unanswered; once the client knows that the connection is closed, no     *)
(* more answers come.                                                      *)
(*                                                                         *)
(* AgentLink.tla shows that the code implements this specification.        *)
(***************************************************************************)
EXTENDS Naturals

VARIABLES
  sent,             \* how many messages were sent: message n is the n-th
  last,             \* the message answered last, 0 if none was
  over              \* the client knows that the connection is closed

echoVars == <<sent, last, over>>

Init == sent = 0 /\ last = 0 /\ over = FALSE

\* Sending is possible at any time: nothing tells that it is of no use.
Ask ==
  /\ sent' = sent + 1
  /\ UNCHANGED <<last, over>>

\* Message n is answered; those before it that are not answered yet never are.
Answer(n) ==
  /\ ~over
  /\ last < n /\ n <= sent
  /\ last' = n
  /\ UNCHANGED <<sent, over>>

End ==
  /\ over' = TRUE
  /\ UNCHANGED <<sent, last>>

Next == Ask \/ (\E n \in 1 .. sent : Answer(n)) \/ End

Spec == Init /\ [][Next]_echoVars
=============================================================================
