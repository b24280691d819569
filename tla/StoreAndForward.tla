--------------------------- MODULE StoreAndForward ---------------------------
(***************************************************************************)
(* What the server promises about direct messages, whatever connections,   *)
(* sessions and tokens it takes to keep it: a message is accepted only     *)
(* between friends; it is stored until it has been handed to its           *)
(* recipient; and when a recipient's messages are taken from the store,    *)
(* all of that user's messages are handed over, in one step.               *)
(*                                                                         *)
(* It says nothing of how often a message is handed over, nor of what      *)
(* becomes of it on the way: the server promises neither.                  *)
(***************************************************************************)
EXTENDS Naturals, Sequences

CONSTANT User                       \* whoever may write and be written to

VARIABLES
    friends,                        \* set of pairs {a, b} of friends
    mail,                           \* the accepted messages, [from, to], by number
    stored,                         \* numbers of the messages kept for delivery
    handedOver                      \* numbers of the messages handed to their recipient

vars == <<friends, mail, stored, handedOver>>

Init ==
    /\ friends \subseteq SUBSET User
    /\ mail = << >>
    /\ stored = {}
    /\ handedOver = {}

Befriend(a, b) ==
    /\ friends' = friends \cup {{a, b}}
    /\ UNCHANGED <<mail, stored, handedOver>>

\* A message is stored in any case, and handed over at once or not.
Accept(a, b) ==
    /\ {a, b} \in friends
    /\ mail' = Append(mail, [from |-> a, to |-> b])
    /\ stored' = stored \cup {Len(mail) + 1}
    /\ handedOver' \in {handedOver, handedOver \cup {Len(mail) + 1}}
    /\ UNCHANGED friends

StoredFor(u) == {i \in stored : mail[i].to = u}

HandOver(u) ==
    /\ stored' = stored \ StoredFor(u)
    /\ handedOver' = handedOver \cup StoredFor(u)
    /\ UNCHANGED <<friends, mail>>

Next ==
    \/ \E a, b \in User : Befriend(a, b) \/ Accept(a, b)
    \/ \E u \in User : HandOver(u)

Spec == Init /\ [][Next]_vars
=============================================================================
