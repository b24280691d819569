--------------------------- MODULE NetworkSession ---------------------------
(***************************************************************************)
(* One direction of a connection, byte by byte: the send_packet, the       *)
(* write_queue and do_write of the sender's include/network_session.hpp,   *)
(* and the read_header and parse_header_and_read_body of the receiver's.   *)
(*                                                                         *)
(* send_packet may be called by any thread; the function it posts and the  *)
(* completion handlers are run by the io_context thread one at a time.     *)
(* TCP takes the bytes of a write in pieces of any size and delivers them  *)
(* in order.                                                               *)
(***************************************************************************)
EXTENDS Codec

VARIABLES
    posted,         \* packets of posted functions that have not run
    write_queue,    \* packets, the first one being written
    writing,        \* an async_write is under way
    done,           \* how many bytes of the first packet are written
    wire,           \* bytes written and not yet read
    header          \* what read_header has read, while the body is awaited

netVars == <<posted, write_queue, writing, done, wire, header>>

NoHeader == << >>

NetInit ==
    /\ posted = << >> /\ write_queue = << >> /\ writing = FALSE /\ done = 0
    /\ wire = << >> /\ header = NoHeader

\* The type, the length of the body and the body.
full_packet(type, body) == pack_ui32(type) \o pack_ui32(Len(body)) \o body

send_packet(type, body) ==
    /\ posted' = Append(posted, full_packet(type, body))
    /\ UNCHANGED <<write_queue, writing, done, wire, header>>

\* A wrong posted function: write_in_progress is looked at after the push.
StartsAfterPush(queue) == Append(queue, Head(posted)) = << >>

\* Whether the posted function has to call do_write.
StartsWrite(queue) == queue = << >>

\* The posted function: it starts a write if none is in progress.
Posted ==
    /\ posted # << >>
    /\ posted' = Tail(posted)
    /\ write_queue' = Append(write_queue, Head(posted))
    /\ writing' = (writing \/ StartsWrite(write_queue))
    /\ UNCHANGED <<done, wire, header>>

\* async_write hands n more bytes to TCP.
do_write(n) ==
    /\ writing
    /\ done + n <= Len(Head(write_queue))
    /\ wire' = wire \o SubSeq(Head(write_queue), done + 1, done + n)
    /\ done' = done + n
    /\ UNCHANGED <<posted, write_queue, writing, header>>

\* The completion handler of async_write: do_write again while the queue is not empty.
Written ==
    /\ writing
    /\ done = Len(Head(write_queue))
    /\ write_queue' = Tail(write_queue)
    /\ writing' = (Tail(write_queue) # << >>)
    /\ done' = 0
    /\ UNCHANGED <<posted, wire, header>>

\* async_read of 8 bytes, and parse_header.
read_header ==
    /\ header = NoHeader /\ Len(wire) >= 8
    /\ header' = [type |-> Number(SubSeq(wire, 1, 4)), length |-> Number(SubSeq(wire, 5, 8))]
    /\ wire' = SubSeq(wire, 9, Len(wire))
    /\ UNCHANGED <<posted, write_queue, writing, done>>

\* async_read of the body, which may be empty, is complete.
BodyRead ==
    /\ header # NoHeader /\ Len(wire) >= header.length
    /\ header' = NoHeader
    /\ wire' = SubSeq(wire, header.length + 1, Len(wire))
    /\ UNCHANGED <<posted, write_queue, writing, done>>

Body == SubSeq(wire, 1, header.length)

\* A read or a write has failed and the socket is closed.  The packet whose write failed
\* stays at the front, so that packets queued later are not written either.
Close ==
    /\ writing' = FALSE
    /\ wire' = << >>
    /\ header' = NoHeader
    /\ UNCHANGED <<posted, write_queue, done>>
=============================================================================
