---------------------------- MODULE MCConnection ----------------------------
(***************************************************************************)
(* Packets for model checking Connection: one for every struct that the    *)
(* graphical client sends or receives.  The types without values have the  *)
(* struct of another one.                                                  *)
(***************************************************************************)
EXTENDS Connection

a == <<1>>
b == <<2, 3>>

SomeRequests ==
    [REGISTER |-> {}, LOGIN |-> {<<a, b>>}, TOKEN_VERIFY |-> {<<b>>}, LOGOUT |-> {<<a>>},
     MESSAGE |-> {<<a, << >>>>}, FRIEND_REQUEST |-> {<<a, b>>}, FRIEND_ACCEPT |-> {},
     FRIEND_REJECT |-> {}, FRIEND_LIST |-> {<< << >> >>}, DIRECT_MESSAGE |-> {<<a, << >>, b>>},
     MESSAGE_HISTORY |-> {<<a, b>>}, CHAT_LIST |-> {<<a>>}]

SomeAnswers ==
    [REGISTER |-> {<< << >>, 0>>}, LOGIN |-> {<<b, 1>>}, TOKEN_VERIFY |-> {<<200>>},
     MESSAGE |-> {<<1>>}, FRIEND_REQUEST |-> {<<1>>}, FRIEND_ACCEPT |-> {}, FRIEND_REJECT |-> {},
     FRIEND_LIST |-> {<< <<a, b>>, << >>, 1>>}, DIRECT_MESSAGE |-> {<<255>>},
     MESSAGE_HISTORY |-> {<< << <<a, b, 7>>, <<b, << >>, -1>> >>, 1>>},
     CHAT_LIST |-> {<< << >>, 2>>}]

SomePushes ==
    [MESSAGE |-> {<<a, b>>}, DIRECT_MESSAGE |-> {<<b, a, -300>>}, FRIEND_NEW_REQUEST |-> {<< >>},
     FRIEND_REQUEST_ACCEPTED |-> {}, FRIEND_REQUEST_REJECTED |-> {}]
=============================================================================
