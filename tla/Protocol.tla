------------------------------ MODULE Protocol ------------------------------
(***************************************************************************)
(* The packet types of include/protocol.hpp that the graphical client      *)
(* sends and receives, and the callback that ClientAsyncHandler has, and   *)
(* NetworkBridge installs, for each of them.                               *)
(***************************************************************************)

\* enum class PacketType: the number of a type is its place.
PacketTypes ==
    <<"REGISTER", "LOGIN", "UPLOAD", "DOWNLOAD", "MESSAGE", "RESULT", "FRIEND_REQUEST",
      "FRIEND_ACCEPT", "FRIEND_REJECT", "FRIEND_LIST", "DIRECT_MESSAGE", "CHAT_LIST",
      "MESSAGE_HISTORY", "TOKEN_VERIFY", "LOGOUT", "FRIEND_NEW_REQUEST",
      "FRIEND_REQUEST_ACCEPTED", "FRIEND_REQUEST_REJECTED">>

\* The callback for the answer to a request.
AnswerSignal ==
    [TOKEN_VERIFY |-> "tokenVerify", REGISTER |-> "authResult", LOGIN |-> "authResult",
     FRIEND_REQUEST |-> "friendRequestResult", FRIEND_ACCEPT |-> "friendRequestResult",
     FRIEND_REJECT |-> "friendRequestResult", FRIEND_LIST |-> "friendListReceived",
     MESSAGE_HISTORY |-> "historyReceived", CHAT_LIST |-> "chatListReceived"]

\* The callback for a packet that the server sends on its own.
PushSignal ==
    [MESSAGE |-> "chatMessageReceived", DIRECT_MESSAGE |-> "directMessageReceived",
     FRIEND_NEW_REQUEST |-> "friendNewRequest", FRIEND_REQUEST_ACCEPTED |-> "friendNewRequest",
     FRIEND_REQUEST_REJECTED |-> "friendNewRequest"]

RequestType == DOMAIN AnswerSignal \cup {"LOGOUT", "MESSAGE", "DIRECT_MESSAGE"}
PushType == DOMAIN PushSignal

NoCallback == "none"

\* What a packet from the server is given to; `to` is the type of the request that a
\* RESULT answers.
Callback(type, to) ==
    IF type # "RESULT" THEN PushSignal[type]
    ELSE IF to \in DOMAIN AnswerSignal THEN AnswerSignal[to] ELSE NoCallback
=============================================================================
