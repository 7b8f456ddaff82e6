-------------------------- MODULE DatagramService --------------------------
(***************************************************************************)
(* What the message path promises the two ends of a PubSub connection: a   *)
(* published message is handed over once, unaltered, or not at all.  How   *)
(* the message travels (encoding, buffer sizes, truncation) is MessagePath.*)
(***************************************************************************)
CONSTANTS Content,      \* what a subscriber can be handed
          NoContent     \* nothing

VARIABLES pending,      \* the content under way, or NoContent
          delivered     \* the content last handed over, or NoContent

vars == <<pending, delivered>>

Init == pending = NoContent /\ delivered = NoContent

Publish == /\ pending = NoContent
           /\ pending' \in Content
           /\ delivered' = NoContent

Deliver == /\ pending # NoContent
           /\ delivered' = pending
           /\ pending' = NoContent

Drop == /\ pending # NoContent
        /\ pending' = NoContent
        /\ UNCHANGED delivered

Forget == delivered' = NoContent /\ UNCHANGED pending

Next == Publish \/ Deliver \/ Drop \/ Forget

Spec == Init /\ [][Next]_vars
=============================================================================
