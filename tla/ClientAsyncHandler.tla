------------------------- MODULE ClientAsyncHandler -------------------------
(***************************************************************************)
(* The client's end of its connection: include/client_async_handler.hpp    *)
(* and the callbacks that client/network_bridge.hpp installs, between the  *)
(* two threads of client/main.cpp, on a connection that is first in first  *)
(* out in both directions.                                                 *)
(*                                                                         *)
(* The Qt thread sends: send_request pushes the type into pending_requests *)
(* under the lock and posts the packet after it, two steps between which   *)
(* the io_context thread may run.  That thread takes the packets that      *)
(* arrive one by one; a RESULT does not say what it answers, and is        *)
(* decoded as the answer to the request at the front of pending_requests.  *)
(* Callbacks only queue a signal for the Qt thread.                        *)
(*                                                                         *)
(* The deque `messages` of the handler is read by nobody.                  *)
(***************************************************************************)
EXTENDS Protocol, Naturals, Sequences

CONSTANTS
    Request,    \* for each RequestType the values of such packets
    Answer,     \* for each RequestType the values of the answers
    Push        \* for each PushType the values of such packets

VARIABLES
    call,               \* the packet that the Qt thread is sending
    registered,         \* it is in pending_requests already
    pending_requests,   \* types of the requests without an answer, oldest first
    connected,          \* the socket is open
    sent,               \* posted by send_packet, not yet handled by the server
    received,           \* sent by the server, not yet handled
    signals,            \* events that invokeMethod has queued for the Qt thread
    asked,              \* history: types of all the requests registered
    answered, handled   \* history: how many of them are answered, and the answer handled

vars == <<call, registered, pending_requests, connected, sent, received, signals,
          asked, answered, handled>>

NoCall == [type |-> "none", values |-> << >>]

Init ==
    /\ call = NoCall /\ registered = FALSE /\ pending_requests = << >>
    /\ connected = TRUE /\ sent = << >> /\ received = << >> /\ signals = << >>
    /\ asked = << >> /\ answered = 0 /\ handled = 0

-----------------------------------------------------------------------------
\* The Qt thread begins to send a packet.
Invoke ==
    /\ call = NoCall
    /\ \E type \in RequestType : \E vs \in Request[type] :
          call' = [type |-> type, values |-> vs]
    /\ UNCHANGED <<registered, pending_requests, connected, sent, received, signals,
                   asked, answered, handled>>

\* A wrong client: every packet is sent with send_request, LOGOUT too.
RegistersAll(type) == type # NoCall.type

\* Whether a packet is sent with send_request: LOGOUT, which is not answered, is not.
Registers(type) == type \notin {NoCall.type, "LOGOUT"}

\* Whether the server answers a packet.
Answers(type) == type # "LOGOUT"

\* send_request, first half: the type enters pending_requests under the lock.
register_request ==
    /\ Registers(call.type) /\ ~ registered
    /\ pending_requests' = Append(pending_requests, call.type)
    /\ asked' = Append(asked, call.type)
    /\ registered' = TRUE
    /\ UNCHANGED <<call, connected, sent, received, signals, answered, handled>>

\* send_request, second half, or send_packet alone: the packet is posted.  On a
\* closed socket it goes nowhere.  Its number, like that of a packet from the server,
\* is history: it counts the requests up to it.
send_packet ==
    /\ call # NoCall
    /\ Registers(call.type) => registered
    /\ sent' = IF connected
               THEN Append(sent, [type |-> call.type, values |-> call.values, no |-> Len(asked)])
               ELSE sent
    /\ call' = NoCall
    /\ registered' = FALSE
    /\ UNCHANGED <<pending_requests, connected, received, signals, asked, answered, handled>>

\* The io_context thread handles the next packet.  A RESULT without a pending request
\* is dropped, and so is one without a callback.
handle_packet ==
    LET packet == Head(received)
        original == IF pending_requests = << >> THEN "" ELSE Head(pending_requests)
        name == Callback(packet.type, original)
    IN  /\ received # << >>
        /\ received' = Tail(received)
        /\ IF packet.type = "RESULT"
           THEN /\ pending_requests' = IF pending_requests = << >> THEN << >>
                                       ELSE Tail(pending_requests)
                /\ handled' = handled + 1
           ELSE UNCHANGED <<pending_requests, handled>>
        /\ signals' = IF name = NoCallback THEN signals
                      ELSE Append(signals, [name |-> name, values |-> packet.values])
        /\ UNCHANGED <<call, registered, connected, sent, asked, answered>>

\* The Qt thread takes a signal.
TakeSignal ==
    /\ call = NoCall /\ signals # << >>
    /\ signals' = Tail(signals)
    /\ UNCHANGED <<call, registered, pending_requests, connected, sent, received,
                   asked, answered, handled>>

-----------------------------------------------------------------------------
\* The server handles the next packet: a RESULT for each but LOGOUT.
Serve ==
    /\ connected /\ sent # << >>
    /\ sent' = Tail(sent)
    /\ IF Answers(Head(sent).type)
       THEN /\ \E vs \in Answer[Head(sent).type] :
                  received' = Append(received, [type |-> "RESULT", to |-> Head(sent).type,
                                                values |-> vs, no |-> answered + 1])
            /\ answered' = answered + 1
       ELSE UNCHANGED <<received, answered>>
    /\ UNCHANGED <<call, registered, pending_requests, connected, signals, asked, handled>>

\* The server sends a packet because of another client.
ServerPush ==
    /\ connected
    /\ \E type \in PushType : \E vs \in Push[type] :
          received' = Append(received, [type |-> type, to |-> "", values |-> vs, no |-> answered])
    /\ UNCHANGED <<call, registered, pending_requests, connected, sent, signals,
                   asked, answered, handled>>

\* The connection is lost; some of what the server had sent may have arrived.
Disconnect ==
    /\ connected
    /\ connected' = FALSE
    /\ sent' = << >>
    /\ \E n \in 0..Len(received) : received' = SubSeq(received, 1, n)
    /\ UNCHANGED <<call, registered, pending_requests, signals, asked, answered, handled>>

Next ==
    \/ Invoke \/ register_request \/ send_packet \/ handle_packet \/ TakeSignal
    \/ Serve \/ ServerPush \/ Disconnect

Spec == Init /\ [][Next]_vars

-----------------------------------------------------------------------------
\* The RESULT that is handled next meets its own request at the front of
\* pending_requests, whichever thread came first, whatever was pushed or logged out in
\* between: no answer is decoded as the answer to another request.
AnswersPaired ==
    received # << >> /\ Head(received).type = "RESULT" =>
        /\ pending_requests # << >>
        /\ Head(pending_requests) = Head(received).to
=============================================================================
