----------------------------- MODULE MCClientApp -----------------------------
(***************************************************************************)
(* What the server knows of the client before it is started, for model     *)
(* checking ClientApp.                                                     *)
(***************************************************************************)
EXTENDS ClientApp

\* A token saved by an earlier login, which may have expired meanwhile.
OneToken == <<"alice">>

\* A message that waits for the owner of that token.
OneMessage == <<[user |-> "alice", peer |-> "bob", incoming |-> TRUE]>>

(***************************************************************************)
(* The client and the server share only the two queues, so their steps     *)
(* commute, and of the interleavings that differ only in that it is enough *)
(* to check one.                                                           *)
(***************************************************************************)

\* The server takes a packet before the client goes on.  The connection may be lost
\* and the process may end with the packet in flight.
ServerFirst ==
    \/ ~ connected \/ sent = << >>
    \/ Len(sent') < Len(sent)
    \/ events' # events \/ old_logins' # old_logins

\* What happens at the server happens just before it takes a packet, or when the
\* client has nothing left to take.
WorldLate ==
    /\ events' # events \/ old_logins' # old_logins
    /\ UNCHANGED <<appVars, connected>> /\ Len(received') >= Len(received)
    => sent # << >> \/ received = << >>

Reduced == ServerFirst /\ WorldLate
=============================================================================
