----------------------------- MODULE Connection -----------------------------
(***************************************************************************)
(* A client and the server on one connection: ClientAsyncHandler over      *)
(* NetworkSession and the binary format.  Requests travel byte by byte;    *)
(* the packets of the server, written by the same code, travel whole.      *)
(***************************************************************************)
EXTENDS NetworkSession, Protocol

CONSTANTS
    Request, Answer, Push,      \* as in ClientAsyncHandler
    MaxRequests, MaxPushes      \* bounds of the model

VARIABLES
    call, registered, pending_requests, connected, sent, received, signals,
    asked, answered, handled,   \* as in ClientAsyncHandler; a packet received has a body too
    made, pushed                \* how many requests and pushes there were

\* The packets without their bodies.
Strip(packet) ==
    [type |-> packet.type, to |-> packet.to, values |-> packet.values, no |-> packet.no]
Unwrap(queue) == [i \in DOMAIN queue |-> Strip(queue[i])]

Handler == INSTANCE ClientAsyncHandler WITH received <- Unwrap(received)

clientVars == <<call, registered, pending_requests, signals, asked, handled>>
serverVars == <<received, answered>>
vars == <<netVars, clientVars, serverVars, connected, sent, made, pushed>>

\* The struct in the body of a request, of the answer to it and of a push.
RequestStruct ==
    [REGISTER |-> "AuthRequest", LOGIN |-> "AuthRequest", TOKEN_VERIFY |-> "TokenVerifyRequest",
     LOGOUT |-> "LogoutRequest", MESSAGE |-> "ChatSendRequest", FRIEND_REQUEST |-> "FriendRequest",
     FRIEND_ACCEPT |-> "FriendRequest", FRIEND_REJECT |-> "FriendRequest",
     FRIEND_LIST |-> "FriendListRequest", DIRECT_MESSAGE |-> "DirectMessageRequest",
     MESSAGE_HISTORY |-> "HistoryRequest", CHAT_LIST |-> "ChatListRequest"]

ResponseStruct ==
    [REGISTER |-> "AuthResponse", LOGIN |-> "AuthResponse", TOKEN_VERIFY |-> "TokenVerifyResponse",
     MESSAGE |-> "ChatResponse", FRIEND_REQUEST |-> "FriendResponse",
     FRIEND_ACCEPT |-> "FriendResponse", FRIEND_REJECT |-> "FriendResponse",
     FRIEND_LIST |-> "FriendListResponse", DIRECT_MESSAGE |-> "DirectMessageResponse",
     MESSAGE_HISTORY |-> "HistoryResponse", CHAT_LIST |-> "ChatListResponse"]

PushStruct == [MESSAGE |-> "ChatIncoming", DIRECT_MESSAGE |-> "DirectMessageIncoming"]

\* What is sent can be expressed: a text or a list is shorter than 4 GB.  The pushes about
\* friends have an empty body.
ASSUME ConnectionAssumption ==
    /\ \A type \in RequestType : \A vs \in Request[type] : Expressible(RequestStruct[type], vs)
    /\ \A type \in RequestType \ {"LOGOUT"} : \A vs \in Answer[type] :
           Expressible(ResponseStruct[type], vs)
    /\ \A type \in DOMAIN PushStruct : \A vs \in Push[type] : Expressible(PushStruct[type], vs)
    /\ \A type \in PushType \ DOMAIN PushStruct : Push[type] \subseteq {<< >>}

Code(type) == CHOOSE i \in DOMAIN PacketTypes : PacketTypes[i] = type

Init ==
    /\ received = << >>
    /\ Handler!Init
    /\ NetInit
    /\ made = 0 /\ pushed = 0

-----------------------------------------------------------------------------
Invoke ==
    /\ made < MaxRequests /\ made' = made + 1
    /\ UNCHANGED <<netVars, received, pushed>>
    /\ Handler!Invoke

register_request ==
    /\ UNCHANGED <<netVars, received, made, pushed>>
    /\ Handler!register_request

\* send_packet of the client: the struct is serialized and the packet posted.
Send ==
    /\ call # Handler!NoCall
    /\ IF connected
       THEN send_packet(Code(call.type), serialize(RequestStruct[call.type], call.values))
       ELSE UNCHANGED netVars
    /\ UNCHANGED <<received, made, pushed>>
    /\ Handler!send_packet

TakeSignal ==
    /\ UNCHANGED <<netVars, received, made, pushed>>
    /\ Handler!TakeSignal

\* The io_context threads at both ends, between packets.
Transport ==
    /\ connected
    /\ \/ Posted
       \/ \E n \in 1..(8 + 8 * Radix) : do_write(n)
       \/ Written
       \/ read_header
    /\ UNCHANGED <<clientVars, serverVars, connected, sent, made, pushed>>

\* The server has read a packet: it handles what it can decode, and posts the RESULT.
Serve ==
    LET type == PacketTypes[header.type]
        values == deserialize(RequestStruct[type], Body, 0).values
        asSent == sent # << >> /\ Head(sent).type = type /\ Head(sent).values = values
    IN  /\ connected
        /\ BodyRead
        /\ sent' = IF asSent THEN Tail(sent) ELSE sent
        /\ IF Handler!Answers(type)
           THEN /\ \E vs \in Answer[type] :
                     received' = Append(received,
                         [type |-> "RESULT", to |-> type, values |-> vs, no |-> answered + 1,
                          body |-> serialize(ResponseStruct[type], vs)])
                /\ answered' = answered + 1
           ELSE UNCHANGED serverVars
        /\ UNCHANGED <<clientVars, connected, made, pushed>>

ServerPush ==
    /\ connected
    /\ pushed < MaxPushes /\ pushed' = pushed + 1
    /\ \E type \in PushType : \E vs \in Push[type] :
          received' = Append(received,
              [type |-> type, to |-> "", values |-> vs, no |-> answered,
               body |-> IF type \in DOMAIN PushStruct THEN serialize(PushStruct[type], vs)
                        ELSE << >>])
    /\ UNCHANGED <<netVars, clientVars, answered, connected, sent, made>>

\* The client has read a packet.  What it hands to a callback is what it decodes, a
\* RESULT as the answer to the request at the front.
handle_packet ==
    LET packet == Head(received)
        original == IF pending_requests = << >> THEN "" ELSE Head(pending_requests)
        name == Callback(packet.type, original)
        struct == IF packet.type = "RESULT" THEN ResponseStruct[original] ELSE PushStruct[packet.type]
        values == IF name = "friendNewRequest" THEN << >> ELSE deserialize(struct, packet.body, 0).values
    IN  /\ received # << >>
        /\ received' = Tail(received)
        /\ IF packet.type = "RESULT"
           THEN /\ pending_requests' = IF pending_requests = << >> THEN << >>
                                       ELSE Tail(pending_requests)
                /\ handled' = handled + 1
           ELSE UNCHANGED <<pending_requests, handled>>
        /\ signals' = IF name = NoCallback THEN signals
                      ELSE Append(signals, [name |-> name, values |-> values])
        /\ UNCHANGED <<netVars, call, registered, asked, answered, connected, sent, made, pushed>>

Disconnect ==
    /\ connected
    /\ connected' = FALSE
    /\ Close
    /\ sent' = << >>
    /\ \E n \in 0..Len(received) : received' = SubSeq(received, 1, n)
    /\ UNCHANGED <<clientVars, answered, made, pushed>>

Next ==
    \/ Invoke \/ register_request \/ Send \/ TakeSignal \/ handle_packet
    \/ Transport \/ Serve \/ ServerPush \/ Disconnect

Spec == Init /\ [][Next]_vars

\* The Qt thread finishes its calls, both io_context threads run what is ready, and TCP
\* carries what it has taken; nobody has to make a request.  The steps that take a body
\* from the wire are those of Serve, and those that take a packet those of handle_packet.
FairSpec ==
    /\ Spec
    /\ WF_vars(register_request) /\ WF_vars(Send)
    /\ WF_vars(Transport)
    /\ WF_netVars(connected /\ BodyRead)
    /\ WF_received(received # << >> /\ received' = Tail(received))

-----------------------------------------------------------------------------
(***************************************************************************)
(* Properties.                                                             *)
(***************************************************************************)

\* The bytes, the queues and the two threads implement ClientAsyncHandler's first in
\* first out connection: every packet is handled once, in order and with the values it
\* was sent with, and a RESULT given to the callback of its own request.
ImplementsHandler == Handler!Spec

\* A RESULT meets its own request at the front of pending_requests.
AnswersPaired == Handler!AnswersPaired

\* A body that is cut short anywhere is refused, never decoded as something that was not
\* sent: for every packet of the model, so it is only evaluated before the first request.
TruncationRefused ==
    made = 0 =>
        /\ \A type \in RequestType : \A vs \in Request[type] :
               PrefixesRefused(RequestStruct[type], vs)
        /\ \A type \in RequestType \ {"LOGOUT"} : \A vs \in Answer[type] :
               PrefixesRefused(ResponseStruct[type], vs)
        /\ \A type \in DOMAIN PushStruct : \A vs \in Push[type] :
               PrefixesRefused(PushStruct[type], vs)

\* A request that is registered is answered and the answer handled, unless the
\* connection is lost: whatever pieces TCP makes of it and however often the queue was
\* empty before.
RequestsAnswered ==
    \A n \in 1..MaxRequests : (Len(asked) >= n) ~> (handled >= n \/ ~ connected)
=============================================================================
