--------------------------- MODULE MCMessagePath ---------------------------
(***************************************************************************)
(* Instances of MessagePath: the messages of MessageShapes, every length   *)
(* of the send buffer and every size of the receive buffer.                *)
(***************************************************************************)
EXTENDS MessagePath, MessageShapes

\* Footers below and at the size a byte counter cannot reach.
Footed(n) == [Base EXCEPT !.on = @ \cup {"security", "footer"},
                          !.val["footerSize"] = n, !.footer = [i \in 1..n |-> i % 256]]

MCMessages == TimedAlive \cup Toggled \cup Secured \cup Timed \cup Shapes
              \cup {Footed(255), Footed(256)}

MCNoShortfall   == {0}
MCAllShortfalls == 0..60
MCFullReceive   == {512}
MCAllReceives   == (1..150) \cup {512}
=============================================================================
