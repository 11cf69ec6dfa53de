---------------------------- MODULE StreamSocket ----------------------------
(***************************************************************************)
(* StreamSocket (system/net/socket.cpp, socket.inl): connecting, and the   *)
(* calls that receive or send all of a buffer or a line, over a connection *)
(* that delivers the peer's stream in pieces, ends, is reset, times out    *)
(* and is interrupted.  One thread makes the calls; a call is a record     *)
(* with the place it has come to, and every system call is a step.         *)
(***************************************************************************)
EXTENDS Integers, Sequences, FiniteSetsExt

CONSTANTS
  Streams,      \* what the peer may send before it closes the connection
  Sizes,        \* sizes of the callers' buffers
  PeekSizes,    \* max_peek_size of ReceiveLine
  Unlimited,    \* max_size of a ReceiveLine into a string: more than any stream has
  MaxSend       \* bound on the bytes that are sent

ASSUME StreamAssumption ==
  /\ \A s \in Streams: s \in Seq(STRING) /\ Len(s) < Unlimited
  /\ Sizes \subseteq Nat \ {0} /\ PeekSizes \subseteq Nat \ {0}
  /\ Unlimited \in Nat \ {0} /\ MaxSend \in Nat

VARIABLES
  blocking,     \* the mode of the handle
  link,         \* the connection: "none", "pending", "up" or "failed"
  stream,       \* the peer's stream: all of it, what is still to arrive...
  coming,
  inbox,        \* ...and what has arrived and was not read
  peer,         \* "open", "closed", or "reset" until the error was reported
  wrote,        \* the number of bytes sent
  taken,        \* history: the bytes that were read
  call,         \* the call that is made
  returned      \* the last call with its results

socket_vars == <<blocking, link, stream, coming, inbox, peer, wrote, taken, call, returned>>

Idle      == [op |-> "none"]
Untimed   == {"receive", "receive_all", "receive_line"}

Start(op, size, extra) ==
  /\ returned' = Idle
  /\ call' = [op |-> op, pc |-> "begin", size |-> size, got |-> <<>>, need |-> 0, extra |-> extra,
              mark |-> Len(taken), mode |-> blocking, restart |-> TRUE]

Return(ok, got) ==
  /\ call' = Idle
  /\ returned' = [op |-> call.op, ok |-> ok, data |-> got, size |-> call.size,
                  mark |-> call.mark, mode |-> call.mode, link |-> link]

-----------------------------------------------------------------------------
(* The kernel and the peer *)

Establish == /\ link = "pending" /\ link' = "up"
             /\ UNCHANGED <<blocking, stream, coming, inbox, peer, wrote, taken, call, returned>>
Refuse    == /\ link = "pending" /\ link' = "failed"
             /\ UNCHANGED <<blocking, stream, coming, inbox, peer, wrote, taken, call, returned>>
Arrive    == /\ link = "up" /\ peer = "open" /\ coming # <<>>
             /\ inbox' = Append(inbox, Head(coming)) /\ coming' = Tail(coming)
             /\ UNCHANGED <<blocking, link, stream, peer, wrote, taken, call, returned>>
PeerClose == /\ link = "up" /\ peer = "open" /\ coming = <<>> /\ peer' = "closed"
             /\ UNCHANGED <<blocking, link, stream, coming, inbox, wrote, taken, call, returned>>
PeerReset == /\ link = "up" /\ peer = "open"
             /\ peer' = "reset" /\ inbox' = <<>> /\ coming' = <<>>
             /\ UNCHANGED <<blocking, link, stream, wrote, taken, call, returned>>

\* A byte among those of a sequence, and a sequence that another one begins with.
Contains(s, e) == \E k \in 1..Len(s): s[k] = e
IsPrefix(s, t) == Len(s) <= Len(t) /\ SubSeq(s, 1, Len(s)) = SubSeq(t, 1, Len(s))

\* What recv() gives for a buffer of the size: the bytes at hand, 0 at the end of
\* the stream, or an error, which is reported once.  It is not enabled while it
\* blocks.  A signal lets a call with MSG_WAITALL return what is at hand, so all
\* calls may.
RecvData(size)  == SubSeq(inbox, 1, Min({size, Len(inbox)}))
RecvEnd         == inbox = <<>> /\ peer = "closed" /\ UNCHANGED peer
RecvReset       == inbox = <<>> /\ peer = "reset" /\ peer' = "closed"
RecvWouldBlock  == inbox = <<>> /\ peer = "open" /\ ~blocking /\ UNCHANGED peer
RecvInterrupted == inbox = <<>> /\ peer = "open" /\ ~call.restart /\ UNCHANGED peer
RecvFails == RecvEnd \/ RecvReset \/ RecvWouldBlock \/ RecvInterrupted
Take(data) == /\ taken' = taken \o data
              /\ inbox' = SubSeq(inbox, Len(data) + 1, Len(inbox))

-----------------------------------------------------------------------------
(* Connect *)

\* connect(): an unread error of an earlier attempt is reported first.
Connectable == link = "none"
ConnectFails == /\ link' = (IF link = "failed" THEN "none" ELSE link)

Connect ==                     \* without a timeout
  /\ call.op = "connect" /\ call.pc = "begin"
  /\ \/ /\ Connectable /\ link' = "pending"
        /\ \/ ~blocking /\ Return(TRUE, <<>>)
           \/ blocking /\ call' = [call EXCEPT !.pc = "connecting"] /\ UNCHANGED returned
     \/ ~Connectable /\ ConnectFails /\ Return(FALSE, <<>>)
  /\ UNCHANGED <<blocking, stream, coming, inbox, peer, wrote, taken>>

ConnectBlocked ==              \* an interrupted one counts as made
  /\ call.op = "connect" /\ call.pc = "connecting"
  /\ \/ link = "up" /\ Return(TRUE, <<>>) /\ UNCHANGED link
     \/ link = "failed" /\ Return(FALSE, <<>>) /\ link' = "none"
     \/ link = "pending" /\ ~call.restart /\ Return(TRUE, <<>>) /\ UNCHANGED link
  /\ UNCHANGED <<blocking, stream, coming, inbox, peer, wrote, taken>>

\* Faulty: the handle stays in the mode without blocking if the attempt fails.
TimedConnectDoneKeepsMode(ok) == blocking' = (IF ok THEN call.mode ELSE blocking) /\ Return(ok, <<>>)
TimedConnectDone(ok) == blocking' = call.mode /\ Return(ok, <<>>)

TimedConnect ==
  /\ call.op = "timed_connect" /\ call.pc = "begin"
  /\ \/ /\ Connectable /\ link' = "pending" /\ blocking' = FALSE
        /\ call' = [call EXCEPT !.pc = "wait"] /\ UNCHANGED returned
     \/ ~Connectable /\ ConnectFails /\ TimedConnectDone(FALSE)
  /\ UNCHANGED <<stream, coming, inbox, peer, wrote, taken>>

\* WaitWriteable, and SO_ERROR, the reading of which clears it.
TimedConnectWait ==
  /\ call.op = "timed_connect" /\ call.pc = "wait"
  /\ \/ link = "up" /\ TimedConnectDone(TRUE) /\ UNCHANGED link
     \/ link = "failed" /\ TimedConnectDone(FALSE) /\ link' = "none"
     \/ link = "pending" /\ TimedConnectDone(FALSE) /\ UNCHANGED link      \* timed out
  /\ UNCHANGED <<stream, coming, inbox, peer, wrote, taken>>

-----------------------------------------------------------------------------
(* Receive, ReceiveAll and ReceiveLine *)

\* The end of the stream counts as a failure: received_size > 0 is returned.
Receive ==
  /\ call.op = "receive"
  /\ \/ /\ inbox # <<>>
        /\ Take(RecvData(call.size)) /\ Return(TRUE, RecvData(call.size)) /\ UNCHANGED peer
     \/ RecvFails /\ Return(FALSE, <<>>) /\ UNCHANGED <<inbox, taken>>
  /\ UNCHANGED <<blocking, link, stream, coming, wrote>>

\* Faulty: a receive that failed is tried again.
ReceiveAllRetries ==
  /\ call.op = "receive_all"
  /\ \/ /\ inbox # <<>> /\ UNCHANGED peer
        /\ \E data \in {RecvData(call.size - Len(call.got))}:
             /\ Take(data)
             /\ IF Len(call.got \o data) = call.size THEN Return(TRUE, call.got \o data)
                ELSE call' = [call EXCEPT !.got = @ \o data] /\ UNCHANGED returned
     \/ RecvFails /\ UNCHANGED <<inbox, taken, call, returned>>
  /\ UNCHANGED <<blocking, link, stream, coming, wrote>>

ReceiveAll ==
  /\ call.op = "receive_all"
  /\ \/ /\ inbox # <<>> /\ UNCHANGED peer
        /\ \E data \in {RecvData(call.size - Len(call.got))}:
             /\ Take(data)
             /\ IF Len(call.got \o data) = call.size THEN Return(TRUE, call.got \o data)
                ELSE call' = [call EXCEPT !.got = @ \o data] /\ UNCHANGED returned
     \/ RecvFails /\ Return(FALSE, call.got) /\ UNCHANGED <<inbox, taken>>
  /\ UNCHANGED <<blocking, link, stream, coming, wrote>>

\* With a timeout each round waits first.  A Receive that fails is tried again.
TimedReceiveAll ==
  /\ call.op = "timed_receive_all"
  /\ \/ /\ call.pc = "begin"
        /\ \/ /\ inbox # <<>> \/ peer # "open"
              /\ call' = [call EXCEPT !.pc = "recv"] /\ UNCHANGED returned
           \/ inbox = <<>> /\ peer = "open" /\ Return(FALSE, call.got)
        /\ UNCHANGED <<inbox, taken, peer>>
     \/ /\ call.pc = "recv" /\ inbox # <<>> /\ UNCHANGED peer
        /\ \E data \in {RecvData(call.size - Len(call.got))}:
             /\ Take(data)
             /\ IF Len(call.got \o data) = call.size THEN Return(TRUE, call.got \o data)
                ELSE call' = [call EXCEPT !.got = @ \o data, !.pc = "begin"] /\ UNCHANGED returned
     \/ /\ call.pc = "recv" /\ (RecvEnd \/ RecvReset)
        /\ call' = [call EXCEPT !.pc = "begin"] /\ UNCHANGED <<inbox, taken, returned>>
  /\ UNCHANGED <<blocking, link, stream, coming, wrote>>

\* Bytes are peeked at until a line ends among them; those peeked at, up to the
\* end of the line, are then received.
PeekLine ==
  /\ call.op = "receive_line" /\ call.pc = "begin"
  /\ \/ Len(call.got) = call.size /\ Return(FALSE, call.got) /\ UNCHANGED peer
     \/ /\ Len(call.got) < call.size /\ inbox # <<>> /\ UNCHANGED peer
        /\ \E seen \in {RecvData(Min({call.extra, call.size - Len(call.got)}))}:
             call' = [call EXCEPT !.pc = IF Contains(seen, "lf") THEN "rest" ELSE "piece",
                                  !.need = IF Contains(seen, "lf") THEN Min({k \in 1..Len(seen): seen[k] = "lf"})
                                           ELSE Len(seen)]
        /\ UNCHANGED returned
     \/ Len(call.got) < call.size /\ RecvFails /\ Return(FALSE, call.got)
  /\ UNCHANGED <<blocking, link, stream, coming, inbox, wrote, taken>>

\* Faulty: what was peeked at without an end of line is not received.
ReceiveLineUnread ==
  /\ call.op = "receive_line" /\ call.pc \in {"piece", "rest"}
  /\ \/ /\ inbox # <<>> /\ UNCHANGED peer
        /\ \E data \in {RecvData(call.need)}: \E all \in {call.got \o data}:
             IF call.pc = "rest" THEN Take(data) /\ Return(TRUE, all)
             ELSE call' = [call EXCEPT !.got = all, !.pc = "begin"] /\ UNCHANGED <<inbox, taken, returned>>
     \/ RecvFails /\ Return(FALSE, call.got) /\ UNCHANGED <<inbox, taken>>
  /\ UNCHANGED <<blocking, link, stream, coming, wrote>>

\* The ReceiveAll inside: the bytes are there, unless the connection was reset.
ReceiveLine ==
  /\ call.op = "receive_line" /\ call.pc \in {"piece", "rest"}
  /\ \/ /\ inbox # <<>> /\ UNCHANGED peer
        /\ \E data \in {RecvData(call.need)}: \E all \in {call.got \o data}:
             /\ Take(data)
             /\ IF call.pc = "rest" THEN Return(TRUE, all)
                ELSE call' = [call EXCEPT !.got = all, !.pc = "begin"] /\ UNCHANGED returned
     \/ RecvReset /\ Return(FALSE, call.got) /\ UNCHANGED <<inbox, taken>>
  /\ UNCHANGED <<blocking, link, stream, coming, wrote>>

-----------------------------------------------------------------------------
(* SendAll *)

\* The kernel takes some of the bytes; with a timeout each round waits first.
SendFails == \/ peer = "reset" /\ peer' = "closed"
             \/ (~blocking \/ call.op = "timed_send_all") /\ UNCHANGED peer

SendAll ==
  /\ call.op \in {"send_all", "timed_send_all"}
  /\ \/ /\ peer # "reset" /\ UNCHANGED peer
        /\ \E n \in 1..call.size - call.extra:
             /\ wrote' = wrote + n
             /\ IF call.extra + n = call.size THEN Return(TRUE, <<call.extra + n>>)
                ELSE call' = [call EXCEPT !.extra = @ + n] /\ UNCHANGED returned
     \/ SendFails /\ Return(FALSE, <<call.extra>>) /\ UNCHANGED wrote
  /\ UNCHANGED <<blocking, link, stream, coming, inbox, taken>>

-----------------------------------------------------------------------------
Begin ==
  /\ call.op = "none"
  /\ \/ link # "up" /\ \E op \in {"connect", "timed_connect"}: Start(op, 0, 0)
     \/ link = "up" /\ \E op \in {"receive", "receive_all", "timed_receive_all"}, size \in Sizes: Start(op, size, 0)
     \/ link = "up" /\ \E size \in Sizes \cup {Unlimited}, peek \in PeekSizes: Start("receive_line", size, peek)
     \/ link = "up" /\ \E op \in {"send_all", "timed_send_all"}, size \in 1..MaxSend - wrote: Start(op, size, 0)
  /\ UNCHANGED <<blocking, link, stream, coming, inbox, peer, wrote, taken>>

\* A call whose caller does not ask for interrupted system calls to be restarted.
NoRestart ==
  /\ call.op \in Untimed \cup {"connect"} /\ call.restart /\ call.pc = "begin" /\ call' = [call EXCEPT !.restart = FALSE]
  /\ UNCHANGED <<blocking, link, stream, coming, inbox, peer, wrote, taken, returned>>

StreamSetBlocking ==
  /\ call.op = "none" /\ blocking' = ~blocking
  /\ UNCHANGED <<link, stream, coming, inbox, peer, wrote, taken, call, returned>>

Init ==
  /\ blocking = TRUE /\ link = "none" /\ peer = "open" /\ wrote = 0 /\ inbox = <<>> /\ taken = <<>>
  /\ stream \in Streams /\ coming = stream
  /\ call = Idle /\ returned = Idle

Kernel == Establish \/ Refuse \/ Arrive \/ PeerClose \/ PeerReset
Step   == \/ Connect \/ ConnectBlocked \/ TimedConnect \/ TimedConnectWait
          \/ Receive \/ ReceiveAll \/ TimedReceiveAll \/ PeekLine \/ ReceiveLine \/ SendAll
Next   == Kernel \/ Step \/ Begin \/ NoRestart \/ StreamSetBlocking

\* Threads run, the kernel comes to the end of connecting, and what was sent
\* arrives, to the end of the stream.
Spec == Init /\ [][Next]_socket_vars /\ WF_socket_vars(Step) /\ WF_socket_vars(Kernel)
-----------------------------------------------------------------------------
Since(mark) == SubSeq(taken, mark + 1, Len(taken))

\* Nothing of the peer's stream is lost, repeated or reordered between the pieces
\* that arrive, what is peeked at and what the calls hand over; a call's result
\* tells whether the buffer was filled, or the line came to its end; a failed call
\* hands over what it has read.
ReadsAreExact ==
  /\ IsPrefix(taken, stream)
  /\ peer = "open" => taken \o inbox \o coming = stream
  /\ call = Idle /\ returned.op \in {"receive_all", "timed_receive_all", "receive_line"} =>
       /\ returned.data = Since(returned.mark)
       /\ returned.op # "receive_line" => (returned.ok <=> Len(returned.data) = returned.size)
       /\ returned.op = "receive_line" =>
            /\ Len(returned.data) <= returned.size
            /\ returned.ok <=> Contains(returned.data, "lf")
            /\ \A k \in 1..Len(returned.data) - 1: returned.data[k] # "lf"

\* A Connect with a timeout leaves the handle in the mode it was in, however it
\* ends, and is true exactly if the connection was up at that time.
ConnectIsClean ==
  [][call.op = "timed_connect" /\ call' = Idle =>
       blocking' = call.mode /\ (returned'.ok <=> link = "up" /\ call.pc = "wait")]_socket_vars

\* Every call but a ReceiveAll with a timeout returns, with all it asked for or
\* after the stream's end.
CallReturns ==
  []<>(call.op \notin Untimed \cup {"connect", "timed_connect", "send_all", "timed_send_all"})
=============================================================================
