------------------------------ MODULE Mailbox ------------------------------
(* What a notification channel promises its receiver: a mailbox for a single *)
(* event.  Posting an event puts it into the mailboxes of channels that are  *)
(* on, and finds all of them empty; from its mailbox the receiver takes the  *)
(* event, or the event is lost.  A channel that goes off keeps what is in    *)
(* its mailbox and gets no more.                                             *)
EXTENDS Integers, Sequences

CONSTANT Channel

VARIABLES
    posted,  \* the number of events posted
    on,      \* the channels that are on
    box,     \* the event in the mailbox of a channel, 0 if none
    heard    \* what its receiver took, in order

mailVars == <<posted, on, box, heard>>

Init ==
    /\ posted = 0
    /\ on = {}
    /\ box = [c \in Channel |-> 0]
    /\ heard = [c \in Channel |-> <<>>]

Switch ==
    /\ on' \in SUBSET Channel
    /\ UNCHANGED <<posted, box, heard>>

Post(S) ==
    /\ S \subseteq on
    /\ \A c \in Channel : box[c] = 0
    /\ posted' = posted + 1
    /\ box' = [c \in Channel |-> IF c \in S THEN posted + 1 ELSE 0]
    /\ UNCHANGED <<on, heard>>

Take(c) ==
    /\ box[c] # 0
    /\ heard' = [heard EXCEPT ![c] = Append(@, box[c])]
    /\ box' = [box EXCEPT ![c] = 0]
    /\ UNCHANGED <<posted, on>>

Lose(S) ==
    /\ box' = [c \in Channel |-> IF c \in S THEN 0 ELSE box[c]]
    /\ UNCHANGED <<posted, on, heard>>

Next ==
    \/ Switch
    \/ \E S \in SUBSET Channel : Post(S) \/ Lose(S)
    \/ \E c \in Channel : Take(c)

Spec == Init /\ [][Next]_mailVars
=============================================================================
