-------------------------- MODULE MCDeliveryQueue ---------------------------
(* An instance of DeliveryQueue for TLC.                                   *)
EXTENDS DeliveryQueue

(* The first two deliveries are of one channel, the third is of another.   *)
TwoChannels == [d \in Delivery |-> IF d = 3 THEN "webhook" ELSE "sms"]
Delays == <<1, 2, 2, 2>>
=============================================================================
