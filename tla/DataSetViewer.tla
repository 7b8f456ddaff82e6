--------------------------- MODULE DataSetViewer ---------------------------
(***************************************************************************)
(* What Subscriber::run promises its user: every datagram that arrives is  *)
(* shown completely, once and in the order of arrival; after a stop at     *)
(* most the one datagram already being waited for is still shown.  How the *)
(* subscriber gets there (buffer, decoder, loops) is Subscriber.           *)
(***************************************************************************)
EXTENDS Sequences

CONSTANTS Content,      \* what may arrive
          Shows         \* Shows[c]: the lines that content c puts on the screen

VARIABLES inbox,        \* what has arrived and is not yet shown
          screen,       \* the lines shown
          status        \* "off", "on", "stopping" (one more), "last" (no more)

vars == <<inbox, screen, status>>

Init == inbox = <<>> /\ screen = <<>> /\ status = "off"

Arrive == \E c \in Content : inbox' = Append(inbox, c) /\ UNCHANGED <<screen, status>>

Start == status = "off" /\ status' = "on" /\ UNCHANGED <<inbox, screen>>

Show == /\ status \in {"on", "stopping"}
        /\ inbox # <<>>
        /\ screen' = screen \o Shows[Head(inbox)]
        /\ inbox' = Tail(inbox)
        /\ status' = IF status = "on" THEN "on" ELSE "last"

\* A stop, and the end of the wait during which it came.
Stop == /\ status \in {"on", "stopping"}
        /\ status' \in {"stopping", "last"}
        /\ UNCHANGED <<inbox, screen>>

End == status # "off" /\ status' = "off" /\ UNCHANGED <<inbox, screen>>

\* Closing the channel drops what is left.
Discard == status = "off" /\ inbox' = <<>> /\ UNCHANGED <<screen, status>>

Next == Arrive \/ Start \/ Show \/ Stop \/ End \/ Discard

Spec == Init /\ [][Next]_vars
=============================================================================
