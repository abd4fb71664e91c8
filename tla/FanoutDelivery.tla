--------------------------- MODULE FanoutDelivery ---------------------------
(* Fanout keeps the promise of Delivery: a tweet is open from CreateTweet on    *)
(* while it waits for Enqueue, waits in the channel or is a worker's job.       *)
EXTENDS Fanout

VARIABLE overlap    \* history: see Delivery

Open == {t \in DOMAIN author : InHand(t)}

Promise == INSTANCE Delivery WITH open <- Open

DeliveryInit == Init /\ overlap = <<>>
DeliveryNext ==
  /\ FanoutNext
  /\ overlap' = IF author' = author THEN overlap ELSE Append(overlap, Open)

DeliverySpec == DeliveryInit /\ [][DeliveryNext]_<<vars, overlap>> /\ Fairness

(* Each step of the API, of a worker and of Redis is one that Delivery allows.  *)
KeepsPromise == Promise!Spec

(* The list of a home timeline is newest first, but for tweets whose fan-outs   *)
(* overlapped, in whatever order handlers enqueue and workers push.             *)
InOrder == Promise!InOrder
=============================================================================
