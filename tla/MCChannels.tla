----------------------------- MODULE MCChannels -----------------------------
(* Values of the constants of Channels.  The unit of time is five seconds: a *)
(* client timeout of 2, a context of 3, an interval of 2.                    *)
EXTENDS Channels

CONSTANTS slack, webhook, r1

TwoTypes == {slack, webhook}
OneRequest == {r1}
\* One receiver accepts at once or within five seconds, the other may hang.
SlowWebhook == [c \in Type |-> IF c = webhook THEN 3 ELSE 1]
AnyFault == {"db", "exit"}
=============================================================================
