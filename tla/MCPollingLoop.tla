--------------------------- MODULE MCPollingLoop ---------------------------
(* Instances of PollingLoop for TLC. *)
EXTENDS PollingLoop

CONSTANTS h1, h2, h3, elsewhere

ThreeHosts == <<h1, h2, h3>>
TwoHosts == <<h1, h2>>

Faithful == [d \in Dest |-> d]

(* One destination is reported with another spelling than it was given,    *)
(* such as a link-local IPv6 address without its scope, or port 5432 for   *)
(* an empty entry of the port list.                                        *)
RespelledFirst == [d \in Dest |-> IF d = h1 THEN elsewhere ELSE d]
=============================================================================
