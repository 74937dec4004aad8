---------------------------- MODULE MCZoneExchange ----------------------------
(* ZoneExchange with lists that share a packet and one that needs two.       *)
EXTENDS ZoneExchange
ShortAndLong == <<<<1>>, <<1, 2>>, <<4, 2, 3, 1>>>>
Three == <<1, 2, 3>>
\* The long list reaches the sender in two Extended Replies, the others whole.
ByPages == <<{{1}}, {{1, 2}}, {{4, 2}, {3, 1}}>>
B(l, p, v, r) == [k \in {"Lose", "Repeat", "Remove", "Restart"} |->
    CASE k = "Lose" -> l [] k = "Repeat" -> p [] k = "Remove" -> v [] k = "Restart" -> r]
Trouble == B(1, 1, 1, 1)
=============================================================================
