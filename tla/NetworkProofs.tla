---------------------------- MODULE NetworkProofs ----------------------------
(***************************************************************************)
(* The sockets, proved for any number of descriptors, objects, streams and *)
(* sizes: a descriptor that is open has one owner (Socket), and a read     *)
(* returns what the peer sent and what it was asked for (StreamSocket).    *)
(***************************************************************************)
EXTENDS Sockets, StreamSocket, WellFoundedInduction, SequenceTheorems, FiniteSetTheorems, TLAPS

\* The least of a set of naturals is in it.
LEMMA MinIsLeast ==
  ASSUME NEW S, S \subseteq Nat, S # {}
  PROVE Min(S) \in S /\ \A y \in S: Min(S) <= y
<1> DEFINE R == OpToRel(<, Nat)
<1>1. IsWellFoundedOn(R, Nat)
  BY NatLessThanWellFounded, Zenon
<1>2. \A x, y \in Nat: x < y => <<x, y>> \in R
  BY DEF OpToRel
<1> HIDE DEF R
<1>3. \E x \in S: \A y \in S: ~(<<y, x>> \in R)
  BY <1>1, WFMin, Zenon
<1>4. PICK x \in S: \A y \in S: ~(<<y, x>> \in R)
  BY <1>3
<1>5. \A y \in S: ~(y < x)
  BY <1>2, <1>4, Zenon
<1>6. \A y \in S: x <= y
  BY ONLY <1>5, S \subseteq Nat, x \in S
<1> QED
  BY <1>6, Zenon DEF Min

(***************************************************************************)
(* The handles of Socket: every open descriptor has one owner.  The        *)
(* invariant says it from the side of each descriptor: one that an object  *)
(* has is open with what was asked for, so that closing it is never a      *)
(* stray close; no two have the same, and one that is open is somebody's.  *)
(***************************************************************************)
\* A descriptor that is open, as the kernel keeps it.
SocketRecords == [serial: Nat \ {0}, cloexec: BOOLEAN, blocking: BOOLEAN, option: Nat]

HandleTypes ==
  /\ m_handle \in [Objects -> Fds \cup {Invalid, Unborn}]
  /\ open \in [Fds -> SocketRecords \cup {Closed}]
  /\ held \in [Fds -> SocketRecords \cup {Closed}]
  /\ asked \in [Objects -> SocketRecords \cup {Closed}]
  /\ serial \in Nat /\ stray = 0

\* What objects and callers have is open, and as they set it.
OwnersSee ==
  /\ \A o \in Objects: m_handle[o] \in Fds => open[m_handle[o]] = asked[o] /\ asked[o] # Closed
  /\ \A fd \in Fds: held[fd] # Closed => open[fd] = held[fd]

\* Nobody shares a descriptor, and none is open that nobody has.
OwnersApart ==
  /\ \A o, p \in Objects: m_handle[o] \in Fds /\ m_handle[o] = m_handle[p] => o = p
  /\ \A o \in Objects: m_handle[o] \in Fds => held[m_handle[o]] = Closed
  /\ \A fd \in Fds: open[fd] # Closed => held[fd] # Closed \/ \E o \in Objects: m_handle[o] = fd

HandleInv == HandleTypes /\ OwnersSee /\ OwnersApart

\* The numbers that mark an object without a descriptor are none.
LEMMA Marks == Fds \subseteq Nat /\ Invalid \notin Fds /\ Unborn \notin Fds /\ Invalid # Unborn
BY DescriptorAssumption DEF Fds, Invalid, Unborn

\* A new socket is one that is open.
LEMMA FreshIsOpen == serial \in Nat => Fresh \in SocketRecords
BY DEF Fresh, SocketRecords

\* A record of an open descriptor is not that of a closed one.
LEMMA OpenIsNotClosed == \A s \in SocketRecords: s # Closed
BY DEF SocketRecords, Closed

\* The lowest number of a set of descriptors is in it.
LEMMA LowestIsThere == ASSUME NEW S, S \subseteq Fds, S # {} PROVE Min(S) \in S
BY Marks, MinIsLeast, Zenon

\* Closing descriptors that are open is no stray close.
LEMMA ClosesOpen ==
  ASSUME NEW fds, \A fd \in fds \cap Fds: open[fd] # Closed
  PROVE Cardinality({fd \in fds \cap Fds: open[fd] = Closed}) = 0
<1>1. {fd \in fds \cap Fds: open[fd] = Closed} = {}
  OBVIOUS
<1> QED
  BY <1>1, FS_EmptySet

\* In the first state nothing is open and no object constructed.
LEMMA HandleInitInv == HandleInit => HandleInv
BY Marks DEF HandleInit, HandleInv, HandleTypes, OwnersSee, OwnersApart

\* What an object has can be closed: it is open.
LEMMA OwnIsOpen ==
  ASSUME HandleInv, NEW o \in Objects, NEW fds, fds = {m_handle[o]} \cap Fds
  PROVE /\ \A fd \in fds: open[fd] # Closed
        /\ Cardinality({fd \in fds \cap Fds: open[fd] = Closed}) = 0
        /\ Cardinality({fd \in fds: open[fd] = Closed}) = 0
<1>1. \A fd \in fds: open[fd] # Closed
  BY DEF HandleInv, OwnersSee
<1>2. {fd \in fds: open[fd] = Closed} = {} /\ {fd \in fds \cap Fds: open[fd] = Closed} = {}
  BY <1>1
<1> QED
  BY <1>1, <1>2, FS_EmptySet

\* Close, ~Socket, and a Create that fails: the object's descriptor is closed and
\* the object has none.
LEMMA CloseStep ==
  ASSUME HandleInv, NEW o \in Objects, NEW h \in {Invalid, Unborn},
         Closes({m_handle[o]} \cap Fds), Handle(o, h), Forget(o), UNCHANGED <<held, serial>>
  PROVE HandleInv'
<1>1. stray' = 0
  <2>1. Cardinality({fd \in ({m_handle[o]} \cap Fds) \cap Fds: open[fd] = Closed}) = 0
    BY OwnIsOpen, Zenon
  <2> QED
    BY <2>1 DEF Closes, HandleInv, HandleTypes
<1>2. open' = [fd \in Fds |-> IF fd = m_handle[o] THEN Closed ELSE open[fd]]
  BY DEF Closes
<1>3. /\ m_handle' = [m_handle EXCEPT ![o] = h] /\ asked' = [asked EXCEPT ![o] = Closed]
      /\ held' = held /\ serial' = serial
  BY DEF Handle, Forget
<1>4. HandleTypes'
  BY <1>1, <1>2, <1>3 DEF HandleInv, HandleTypes
<1>5. OwnersSee'
  BY <1>2, <1>3, Marks DEF HandleInv, HandleTypes, OwnersSee, OwnersApart
<1>6. OwnersApart'
  BY <1>2, <1>3, Marks DEF HandleInv, HandleTypes, OwnersSee, OwnersApart
<1> QED
  BY <1>4, <1>5, <1>6 DEF HandleInv

\* A new socket for an object, in place of what it had: the number is that of no
\* open descriptor, or the one that the object has just closed.
LEMMA NewStep ==
  ASSUME HandleInv, NEW o \in Objects, NEW fd \in Fds, open[fd] = Closed \/ fd = m_handle[o],
         open' = [f \in Fds |-> IF f = fd THEN Fresh ELSE IF f = m_handle[o] THEN Closed ELSE open[f]],
         Handle(o, fd), asked' = [asked EXCEPT ![o] = Fresh],
         serial' = serial + 1, stray' = 0, held' = held
  PROVE HandleInv'
<1>1. Fresh \in SocketRecords /\ Fresh # Closed
  BY FreshIsOpen, OpenIsNotClosed DEF HandleInv, HandleTypes
<1>2. m_handle' = [m_handle EXCEPT ![o] = fd]
  BY DEF Handle
<1>3. HandleTypes'
  BY <1>1, <1>2 DEF HandleInv, HandleTypes
<1>4. held[fd] = Closed /\ \A p \in Objects \ {o}: m_handle[p] # fd
  BY DEF HandleInv, HandleTypes, OwnersSee, OwnersApart
<1>5. OwnersSee'
  BY <1>1, <1>2, <1>4, Marks DEF HandleInv, HandleTypes, OwnersSee, OwnersApart
<1>6. OwnersApart'
  BY <1>1, <1>2, <1>4, Marks DEF HandleInv, HandleTypes, OwnersSee, OwnersApart
<1> QED
  BY <1>3, <1>5, <1>6 DEF HandleInv

\* Create, and the constructors that make a socket.
LEMMA MakesStep ==
  ASSUME HandleInv, NEW o \in Objects, NEW failed \in {Invalid, Unborn}, NEW fds, fds = {m_handle[o]} \cap Fds,
         Makes(o, fds, failed), UNCHANGED held
  PROVE HandleInv'
<1>1. CASE Closes(fds) /\ Handle(o, failed) /\ Forget(o) /\ UNCHANGED serial
  BY <1>1, CloseStep
<1>2. CASE ~(Closes(fds) /\ Handle(o, failed) /\ Forget(o) /\ UNCHANGED serial)
  <2> DEFINE free == Fds \ (Used \ fds)
  <2>1. PICK fd \in {Min(free)}:
          /\ open' = [f \in Fds |-> IF f = fd THEN Fresh ELSE IF f \in fds THEN Closed ELSE open[f]]
          /\ Handle(o, fd)
    BY <1>2 DEF Makes
  <2>2. /\ free # {} /\ asked' = [asked EXCEPT ![o] = Fresh] /\ serial' = serial + 1
        /\ stray' = stray + Cardinality({f \in fds: open[f] = Closed})
    BY <1>2 DEF Makes
  <2>3. fd \in free
    BY <2>1, <2>2, LowestIsThere
  <2>4. fd \in Fds /\ (open[fd] = Closed \/ fd = m_handle[o])
    BY <2>3 DEF Used
  <2>5. stray' = 0
    BY <2>2, OwnIsOpen DEF HandleInv, HandleTypes
  <2>6. open' = [f \in Fds |-> IF f = fd THEN Fresh ELSE IF f = m_handle[o] THEN Closed ELSE open[f]]
    BY <2>1
  <2> QED
    BY <2>1, <2>2, <2>4, <2>5, <2>6, NewStep, Zenon
<1> QED
  BY <1>1, <1>2

\* Accept: the kernel has made the new descriptor when the old one is closed.
LEMMA AcceptStep ==
  ASSUME HandleInv, NEW o \in Objects, NEW l \in Objects, Accept(l, o)
  PROVE HandleInv'
<1>1. Lowest \in Fds \ Used
  <2>1. Fds \ Used # {}
    BY DEF Accept, Used
  <2> QED
    BY <2>1, LowestIsThere DEF Lowest
<1>2. Lowest \in Fds /\ open[Lowest] = Closed
  BY <1>1 DEF Used
<1>3. stray' = 0
  <2>1. Cardinality({fd \in {m_handle[o]} \cap Fds: open[fd] = Closed}) = 0
    BY OwnIsOpen, Zenon
  <2> QED
    BY <2>1 DEF Accept, HandleInv, HandleTypes
<1> QED
  BY <1>2, <1>3, NewStep, Zenon DEF Accept

\* Attach: a descriptor of a caller, none, or the object's own again.
LEMMA AttachStep ==
  ASSUME HandleInv, NEW o \in Objects, NEW h \in Held \cup {Invalid, m_handle[o]}, Attach(o, h)
  PROVE HandleInv'
<1>1. CASE h = m_handle[o]
  <2>1. h \notin Held
    BY <1>1 DEF Held, HandleInv, OwnersApart
  <2> QED
    BY <1>1, <2>1 DEF Attach, HandleInv, HandleTypes, OwnersSee, OwnersApart, Fds, SocketRecords, Closed
<1>2. CASE h # m_handle[o] /\ h = Invalid
  <2>1. h \notin Held
    BY <1>2, Marks DEF Held
  <2> QED
    BY <1>2, <2>1, CloseStep DEF Attach
<1>3. CASE h # m_handle[o] /\ h \in Held
  <2>1. /\ h \in Fds /\ held[h] # Closed /\ open[h] = held[h]
        /\ \A p \in Objects: m_handle[p] # h
    BY <1>3 DEF Held, HandleInv, OwnersSee, OwnersApart
  <2>2. Closes({m_handle[o]} \cap Fds) /\ Handle(o, h)
    BY <1>3 DEF Attach
  <2>3. stray' = 0
    <3>1. Cardinality({fd \in ({m_handle[o]} \cap Fds) \cap Fds: open[fd] = Closed}) = 0
      BY OwnIsOpen, Zenon
    <3> QED
      BY <2>2, <3>1 DEF Closes, HandleInv, HandleTypes
  <2>4. /\ open' = [fd \in Fds |-> IF fd = m_handle[o] THEN Closed ELSE open[fd]]
        /\ m_handle' = [m_handle EXCEPT ![o] = h]
    BY <2>2 DEF Closes, Handle
  <2>5. /\ asked' = [asked EXCEPT ![o] = held[h]] /\ held' = [held EXCEPT ![h] = Closed]
        /\ serial' = serial
    BY <1>3 DEF Attach
  <2>6. HandleTypes'
    BY <2>1, <2>3, <2>4, <2>5 DEF HandleInv, HandleTypes
  <2>7. OwnersSee'
    BY <2>1, <2>4, <2>5, Marks DEF HandleInv, HandleTypes, OwnersSee, OwnersApart
  <2>8. OwnersApart'
    BY <2>1, <2>4, <2>5, Marks DEF HandleInv, HandleTypes, OwnersSee, OwnersApart
  <2> QED
    BY <2>6, <2>7, <2>8 DEF HandleInv
<1> QED
  BY <1>1, <1>2, <1>3

\* Detach: the caller has what the object had.
LEMMA DetachStep ==
  ASSUME HandleInv, NEW o \in Objects, Detach(o)
  PROVE HandleInv'
<1>1. /\ m_handle' = [m_handle EXCEPT ![o] = Invalid]
      /\ held' = [fd \in Fds |-> IF fd = m_handle[o] THEN asked[o] ELSE held[fd]]
      /\ asked' = [asked EXCEPT ![o] = Closed]
      /\ open' = open /\ serial' = serial /\ stray' = stray
  BY DEF Detach, Handle, Forget
<1>2. HandleTypes'
  BY <1>1 DEF HandleInv, HandleTypes
<1>3. OwnersSee'
  BY <1>1, Marks DEF HandleInv, HandleTypes, OwnersSee, OwnersApart
<1>4. OwnersApart'
  BY <1>1, Marks DEF HandleInv, HandleTypes, OwnersSee, OwnersApart
<1> QED
  BY <1>2, <1>3, <1>4 DEF HandleInv

\* What is set through an object is set on its descriptor.
LEMMA SetsStep ==
  ASSUME HandleInv, NEW o \in Objects, m_handle[o] \in Fds, NEW r \in SocketRecords,
         open' = [open EXCEPT ![m_handle[o]] = r], asked' = [asked EXCEPT ![o] = r],
         UNCHANGED <<m_handle, held, serial, stray>>
  PROVE HandleInv'
<1>1. r # Closed
  BY OpenIsNotClosed
<1>2. HandleTypes'
  BY DEF HandleInv, HandleTypes
<1>3. OwnersSee'
  BY <1>1 DEF HandleInv, HandleTypes, OwnersSee, OwnersApart
<1>4. OwnersApart'
  BY <1>1 DEF HandleInv, HandleTypes, OwnersSee, OwnersApart
<1> QED
  BY <1>2, <1>3, <1>4 DEF HandleInv

\* A caller closes the descriptor that it detached.
LEMMA CallerClosesStep ==
  ASSUME HandleInv, NEW fd \in Held, CallerCloses(fd)
  PROVE HandleInv'
<1>1. fd \in Fds /\ held[fd] # Closed /\ open[fd] # Closed /\ \A o \in Objects: m_handle[o] # fd
  BY DEF Held, HandleInv, OwnersSee, OwnersApart
<1>2. stray' = 0
  <2>1. Cardinality({f \in {fd} \cap Fds: open[f] = Closed}) = 0
    BY <1>1, ClosesOpen
  <2> QED
    BY <2>1 DEF CallerCloses, Closes, HandleInv, HandleTypes
<1>3. /\ open' = [f \in Fds |-> IF f = fd THEN Closed ELSE open[f]]
      /\ held' = [held EXCEPT ![fd] = Closed]
      /\ m_handle' = m_handle /\ asked' = asked /\ serial' = serial
  BY DEF CallerCloses, Closes
<1>4. HandleTypes'
  BY <1>2, <1>3, Zenon DEF HandleInv, HandleTypes
<1>5. OwnersSee'
  BY <1>1, <1>3 DEF HandleInv, HandleTypes, OwnersSee, OwnersApart
<1>6. OwnersApart'
  BY <1>1, <1>3 DEF HandleInv, HandleTypes, OwnersSee, OwnersApart
<1> QED
  BY <1>4, <1>5, <1>6 DEF HandleInv

\* Every step of objects and callers keeps the invariant.
LEMMA HandleNextInv == HandleInv /\ [HandleNext]_handle_vars => HandleInv'
<1> SUFFICES ASSUME HandleInv, [HandleNext]_handle_vars PROVE HandleInv'
  OBVIOUS
<1>1. CASE \E fd \in Held: CallerCloses(fd)
  BY <1>1, CallerClosesStep
<1>2. CASE UNCHANGED handle_vars
  BY <1>2 DEF handle_vars, HandleInv, HandleTypes, OwnersSee, OwnersApart
<1>3. ASSUME NEW o \in Objects, Construct(o) PROVE HandleInv'
  <2>1. CASE Makes(o, {}, Unborn)
    <3>1. {} = {m_handle[o]} \cap Fds
      BY <1>3, Marks DEF Construct
    <3> QED
      BY <1>3, <2>1, <3>1, MakesStep DEF Construct
  <2>2. CASE ~Makes(o, {}, Unborn)
    <3>1. /\ \/ m_handle' = [m_handle EXCEPT ![o] = Invalid] /\ serial' = serial
             \/ m_handle' = m_handle /\ serial' = serial + 1
          /\ m_handle[o] = Unborn
          /\ open' = open /\ asked' = asked /\ stray' = stray /\ held' = held
      BY <1>3, <2>2 DEF Construct, Handle
    <3> QED
      BY <3>1, Marks DEF HandleInv, HandleTypes, OwnersSee, OwnersApart
  <2> QED
    BY <2>1, <2>2
<1>4. ASSUME NEW o \in Objects, Create(o) PROVE HandleInv'
  BY <1>4, MakesStep DEF Create
<1>5. ASSUME NEW o \in Objects, Close(o) PROVE HandleInv'
  BY <1>5, CloseStep DEF Close
<1>6. ASSUME NEW o \in Objects, Destroy(o) PROVE HandleInv'
  BY <1>6, CloseStep DEF Destroy
<1>7. ASSUME NEW o \in Objects, NEW b \in BOOLEAN, SetCloexec(o, b) \/ SetBlocking(o, b) \/ SetOption(o, 1)
      PROVE HandleInv'
  <2>1. m_handle[o] \in Fds /\ asked[o] \in SocketRecords /\ open[m_handle[o]] = asked[o]
    BY <1>7 DEF SetCloexec, SetBlocking, SetOption, Sets, IsValid, HandleInv, HandleTypes, OwnersSee
  <2>2. UNCHANGED <<m_handle, held, serial, stray>>
    BY <1>7 DEF SetCloexec, SetBlocking, SetOption, Sets
  <2>3. PICK r \in {[asked[o] EXCEPT !.cloexec = b], [asked[o] EXCEPT !.blocking = b], [asked[o] EXCEPT !.option = 1]}:
          open' = [open EXCEPT ![m_handle[o]] = r] /\ asked' = [asked EXCEPT ![o] = r]
    BY <1>7, <2>1 DEF SetCloexec, SetBlocking, SetOption, Sets
  <2>4. r \in SocketRecords
    BY <2>1 DEF SocketRecords
  <2> QED
    BY <2>1, <2>2, <2>3, <2>4, SetsStep, Zenon
<1>8. ASSUME NEW o \in Objects, SetOption(o, 1) PROVE HandleInv'
  BY <1>7, <1>8, Zenon
<1> QED
  BY <1>1, <1>2, <1>3, <1>4, <1>5, <1>6, <1>7, <1>8, DetachStep, AttachStep, AcceptStep DEF HandleNext

\* The invariant is the accounting of the descriptors.
LEMMA HandleInvAccounts == HandleInv => HandlesAccounted
<1> SUFFICES ASSUME HandleInv PROVE HandlesAccounted
  OBVIOUS
<1>1. stray = 0
  BY DEF HandleInv, HandleTypes
<1>2. Used = Held \cup UNION {Owned(o): o \in Objects}
  <2>1. ASSUME NEW fd \in Used PROVE fd \in Held \cup UNION {Owned(o): o \in Objects}
    BY <2>1 DEF Used, Held, Owned, HandleInv, OwnersApart
  <2>2. ASSUME NEW fd \in Held PROVE fd \in Used
    BY <2>2 DEF Used, Held, HandleInv, OwnersSee
  <2>3. ASSUME NEW o \in Objects, NEW fd \in Owned(o) PROVE fd \in Used
    BY <2>3 DEF Used, Owned, HandleInv, OwnersSee
  <2> QED
    BY <2>1, <2>2, <2>3
<1>3. ASSUME NEW o \in Objects
      PROVE /\ Owned(o) \cap Held = {}
            /\ \A p \in Objects \ {o}: Owned(o) \cap Owned(p) = {}
            /\ IsValid(o) => open[m_handle[o]] = asked[o]
  BY DEF Owned, Held, IsValid, HandleInv, OwnersSee, OwnersApart
<1>4. \A fd \in Held: open[fd] = held[fd]
  BY DEF Held, HandleInv, OwnersSee
<1> QED
  BY <1>1, <1>2, <1>3, <1>4 DEF HandlesAccounted

\* However objects are constructed, attached to and detached from descriptors,
\* accept, fail and are destroyed, every open descriptor is owned by one object or
\* one caller and is as its owner set it, and none is closed twice: for any
\* number of objects, descriptors and sockets.
THEOREM HandlesAccountedCorrect == HandleSpec => []HandlesAccounted
BY HandleInitInv, HandleNextInv, HandleInvAccounts, PTL DEF HandleSpec
-----------------------------------------------------------------------------
(***************************************************************************)
(* The reads of StreamSocket.  The peer's stream is always what was read,  *)
(* what is at hand and what is to come, cut off where the connection was   *)
(* reset.  A call has what was read since it began; a ReceiveLine that has *)
(* peeked knows of the bytes at hand how many it will take.                *)
(***************************************************************************)
Bytes == STRING
AllOps == {"connect", "timed_connect", "receive", "receive_all", "timed_receive_all", "receive_line",
           "send_all", "timed_send_all"}
Reads == {"receive_all", "timed_receive_all", "receive_line"}
CallRecords == [op: AllOps, pc: {"begin", "connecting", "wait", "recv", "piece", "rest"}, size: Nat,
                got: Seq(Bytes), need: Nat, extra: Nat, mark: Nat, mode: BOOLEAN, restart: BOOLEAN]

StreamTypes ==
  /\ stream \in Seq(Bytes) /\ coming \in Seq(Bytes) /\ inbox \in Seq(Bytes) /\ taken \in Seq(Bytes)
  /\ peer \in {"open", "closed", "reset"} /\ wrote \in Nat /\ blocking \in BOOLEAN
  /\ call = Idle \/ call \in CallRecords

\* All that was read and can be read is a beginning of the peer's stream.
Whole == (taken \o inbox) \o coming
Flow  == IsPrefix(Whole, stream) /\ (peer = "open" => Whole = stream)

\* A ReceiveLine that peeked: so many bytes are at hand, no end of line but the last.
Peeked ==
  /\ call.need \in 1..Len(inbox) /\ Len(call.got) + call.need <= call.size
  /\ \A i \in 1..call.need - 1: inbox[i] # "lf"
  /\ inbox[call.need] = "lf" <=> call.pc = "rest"

Reading ==
  /\ call.mark <= Len(taken)
  /\ call.op \in Reads => call.got = Since(call.mark)
  /\ call.op \in {"receive", "receive_all", "timed_receive_all"} => Len(call.got) < call.size
  /\ call.op = "receive_line" =>
       /\ Len(call.got) <= call.size /\ call.extra > 0
       /\ \A i \in 1..Len(call.got): call.got[i] # "lf"
       /\ call.pc \in {"piece", "rest"} => Peeked \/ (inbox = <<>> /\ peer # "open")

\* What a read may return.
RightResult(op, ok, data, size) ==
  /\ op # "receive_line" => (ok <=> Len(data) = size)
  /\ op = "receive_line" =>
       /\ Len(data) <= size
       /\ ok <=> \E i \in 1..Len(data): data[i] = "lf"
       /\ \A i \in 1..Len(data) - 1: data[i] # "lf"

Delivered ==
  call = Idle /\ returned.op \in Reads =>
    /\ returned.data \in Seq(Bytes) /\ returned.data = Since(returned.mark)
    /\ RightResult(returned.op, returned.ok, returned.data, returned.size)

StreamInv == StreamTypes /\ Flow /\ (call # Idle => Reading) /\ Delivered

\* A call is under way or there is none.
LEMMA CallOrIdle ==
  ASSUME StreamTypes, call.op # "none"
  PROVE call \in CallRecords /\ call # Idle
BY DEF StreamTypes, Idle

\* The lesser of two sizes.
LEMMA MinOfTwo ==
  ASSUME NEW a \in Nat, NEW b \in Nat
  PROVE Min({a, b}) \in Nat /\ Min({a, b}) \in {a, b} /\ Min({a, b}) <= a /\ Min({a, b}) <= b
<1>1. Min({a, b}) \in {a, b} /\ \A y \in {a, b}: Min({a, b}) <= y
  BY MinIsLeast
<1> QED
  BY <1>1

\* What recv() gives is the beginning of what is at hand, not longer than asked
\* for, and not empty if something is at hand.
LEMMA RecvDataIs ==
  ASSUME inbox \in Seq(Bytes), NEW n \in Nat
  PROVE /\ RecvData(n) \in Seq(Bytes) /\ Len(RecvData(n)) <= n /\ Len(RecvData(n)) <= Len(inbox)
        /\ RecvData(n) = SubSeq(inbox, 1, Len(RecvData(n)))
        /\ \A i \in 1..Len(RecvData(n)): RecvData(n)[i] = inbox[i]
        /\ n > 0 /\ inbox # <<>> => Len(RecvData(n)) > 0
        /\ n <= Len(inbox) => Len(RecvData(n)) = n
<1> DEFINE k == Min({n, Len(inbox)})
<1>1. k \in 0..Len(inbox) /\ k <= n /\ (n <= Len(inbox) => k = n) /\ (n > 0 /\ inbox # <<>> => k > 0)
  <2>1. Len(inbox) \in Nat /\ (inbox # <<>> => Len(inbox) > 0)
    OBVIOUS
  <2>2. k \in {n, Len(inbox)} /\ k <= n /\ k <= Len(inbox)
    BY <2>1, MinOfTwo
  <2> QED
    BY <2>1, <2>2
<1>2. RecvData(n) = SubSeq(inbox, 1, k)
  BY DEF RecvData
<1> HIDE DEF k
<1>3. /\ SubSeq(inbox, 1, k) \in Seq(Bytes) /\ Len(SubSeq(inbox, 1, k)) = k
      /\ \A i \in 1..k: SubSeq(inbox, 1, k)[i] = inbox[i]
  BY <1>1
<1> QED
  BY <1>1, <1>2, <1>3

-----------------------------------------------------------------------------
\* A beginning of a sequence and what is behind it are the sequence.
LEMMA Pieces ==
  ASSUME NEW s \in Seq(Bytes), NEW n \in 0..Len(s)
  PROVE /\ SubSeq(s, 1, n) \in Seq(Bytes) /\ SubSeq(s, n + 1, Len(s)) \in Seq(Bytes)
        /\ SubSeq(s, 1, n) \o SubSeq(s, n + 1, Len(s)) = s
<1>1. SubSeq(s, 1, n) \o SubSeq(s, n + 1, Len(s)) = SubSeq(s, 1, Len(s))
  <2>1. 1 \in 1..Len(s) + 1 /\ n \in 1 - 1..Len(s) /\ Len(s) \in n..Len(s)
    OBVIOUS
  <2> QED
    BY <2>1, ConcatAdjacentSubSeq, Zenon
<1>2. SubSeq(s, 1, Len(s)) = s
  BY SubSeqFull
<1>3. SubSeq(s, 1, n) \in Seq(Bytes)
  OBVIOUS
<1>4. SubSeq(s, n + 1, Len(s)) \in Seq(Bytes)
  <2>1. \A i \in n + 1..Len(s): s[i] \in Bytes
    OBVIOUS
  <2>2. n + 1 \in Int /\ Len(s) \in Int
    OBVIOUS
  <2> QED
    BY <2>1, <2>2, SubSeqProperties, Zenon
<1> QED
  BY <1>1, <1>2, <1>3, <1>4, Zenon

\* Concatenation does not depend on the order in which it is done.
LEMMA Associates ==
  ASSUME NEW a \in Seq(Bytes), NEW b \in Seq(Bytes), NEW c \in Seq(Bytes)
  PROVE (a \o b) \o c = a \o (b \o c)
BY ConcatAssociative

\* The elements of a concatenation.
LEMMA ConcatParts ==
  \A a, b \in Seq(Bytes): /\ \A i \in 1..Len(a): (a \o b)[i] = a[i]
                          /\ \A i \in 1..Len(b): (a \o b)[Len(a) + i] = b[i]
OBVIOUS

\* What was read since a mark grows by what is read.
LEMMA SinceGrows ==
  ASSUME NEW t \in Seq(Bytes), NEW d \in Seq(Bytes), NEW mark \in 0..Len(t)
  PROVE SubSeq(t \o d, mark + 1, Len(t \o d)) = SubSeq(t, mark + 1, Len(t)) \o d
<1> DEFINE a == SubSeq(t \o d, mark + 1, Len(t \o d))
           b == SubSeq(t, mark + 1, Len(t))
           n == Len(t) + Len(d) - mark
<1>1. /\ t \o d \in Seq(Bytes) /\ Len(t \o d) = Len(t) + Len(d)
      /\ \A i \in 1..Len(t): (t \o d)[i] = t[i]
      /\ \A i \in 1..Len(d): (t \o d)[Len(t) + i] = d[i]
  OBVIOUS
<1>2. b \in Seq(Bytes) /\ Len(b) = Len(t) - mark /\ \A i \in 1..Len(t) - mark: b[i] = t[mark + i]
  OBVIOUS
<1>3. a \in Seq(Bytes) /\ Len(a) = n /\ \A i \in 1..n: a[i] = (t \o d)[mark + i]
  BY <1>1
<1> HIDE DEF a, b
<1>4. /\ b \o d \in Seq(Bytes) /\ Len(b \o d) = n
      /\ \A i \in 1..Len(b): (b \o d)[i] = b[i]
      /\ \A i \in 1..Len(d): (b \o d)[Len(b) + i] = d[i]
  <2>1. /\ b \o d \in Seq(Bytes) /\ Len(b \o d) = Len(b) + Len(d)
        /\ \A i \in 1..Len(b): (b \o d)[i] = b[i]
        /\ \A i \in 1..Len(d): (b \o d)[Len(b) + i] = d[i]
    <3>1. b \in Seq(Bytes)
      BY <1>2
    <3> QED
      BY ONLY <3>1, d \in Seq(Bytes)
  <2> QED
    BY <1>2, <2>1
<1>5. ASSUME NEW i \in 1..n PROVE a[i] = (b \o d)[i]
  <2>1. CASE i <= Len(b)
    <3>1. i \in 1..Len(b) /\ mark + i \in 1..Len(t)
      BY <1>2, <2>1
    <3> QED
      BY <1>1, <1>2, <1>3, <1>4, <3>1
  <2>2. CASE i > Len(b)
    <3> DEFINE j == i - Len(b)
    <3>1. j \in 1..Len(d) /\ mark + i = Len(t) + j /\ i = Len(b) + j
      BY <1>2, <2>2
    <3> HIDE DEF j, n
    <3>2. a[i] = (t \o d)[Len(t) + j]
      BY <1>3, <3>1, Zenon
    <3>3. (t \o d)[Len(t) + j] = d[j]
      BY <1>1, <3>1, Zenon
    <3>4. (b \o d)[Len(b) + j] = d[j]
      BY <1>4, <3>1, Zenon
    <3> QED
      BY <3>1, <3>2, <3>3, <3>4
  <2> QED
    BY <1>2, <2>1, <2>2
<1>6. a = b \o d
  BY <1>3, <1>4, <1>5, SeqEqual, Zenon
<1> QED
  BY <1>6, Zenon DEF a, b

\* A beginning of a beginning is a beginning.
LEMMA PrefixOfConcat ==
  ASSUME NEW a \in Seq(Bytes), NEW b \in Seq(Bytes), NEW s \in Seq(Bytes), IsPrefix(a \o b, s)
  PROVE IsPrefix(a, s)
<1>1. a \o b \in Seq(Bytes) /\ Len(a \o b) = Len(a) + Len(b) /\ \A i \in 1..Len(a): (a \o b)[i] = a[i]
  OBVIOUS
<1>2. Len(a \o b) <= Len(s) /\ SubSeq(a \o b, 1, Len(a \o b)) = SubSeq(s, 1, Len(a \o b))
  BY DEF IsPrefix
<1>3. Len(a) <= Len(s)
  BY <1>1, <1>2
<1>4. \A i \in 1..Len(a): s[i] = a[i]
  BY <1>1, <1>2
<1>5. /\ SubSeq(a, 1, Len(a)) \in Seq(Bytes) /\ SubSeq(s, 1, Len(a)) \in Seq(Bytes)
      /\ Len(SubSeq(a, 1, Len(a))) = Len(a) /\ Len(SubSeq(s, 1, Len(a))) = Len(a)
      /\ \A i \in 1..Len(a): SubSeq(a, 1, Len(a))[i] = a[i] /\ SubSeq(s, 1, Len(a))[i] = s[i]
  BY <1>3
<1>6. SubSeq(a, 1, Len(a)) = SubSeq(s, 1, Len(a))
  BY <1>4, <1>5, SeqEqual
<1> QED
  BY <1>3, <1>6 DEF IsPrefix

-----------------------------------------------------------------------------
\* Where nothing is read or arrives, the stream is as before.
LEMMA FlowSame ==
  ASSUME Flow, UNCHANGED <<stream, coming, inbox, taken>>, peer' = "open" => peer = "open"
  PROVE Flow'
BY DEF Flow, Whole

\* A recv() moves bytes from those at hand to those that were read.
LEMMA TakeFlow ==
  ASSUME StreamTypes, Flow, NEW n \in Nat, Take(RecvData(n)), UNCHANGED <<stream, coming, peer>>
  PROVE /\ taken' \in Seq(Bytes) /\ inbox' \in Seq(Bytes) /\ Flow'
        /\ taken' = taken \o RecvData(n)
<1> DEFINE d == RecvData(n)
<1>1. d \in Seq(Bytes) /\ Len(d) \in 0..Len(inbox) /\ d = SubSeq(inbox, 1, Len(d))
  BY RecvDataIs DEF StreamTypes
<1>2. taken' = taken \o d /\ inbox' = SubSeq(inbox, Len(d) + 1, Len(inbox))
  BY DEF Take
<1> HIDE DEF d
<1>3. taken \in Seq(Bytes) /\ inbox \in Seq(Bytes) /\ coming \in Seq(Bytes)
  BY DEF StreamTypes
<1>4. inbox' \in Seq(Bytes) /\ d \o inbox' = inbox
  BY <1>1, <1>2, <1>3, Pieces
<1>5. taken' \in Seq(Bytes)
  BY <1>1, <1>2, <1>3
<1>6. taken' \o inbox' = taken \o inbox
  <2>1. taken \in Seq(Bytes) /\ d \in Seq(Bytes) /\ inbox' \in Seq(Bytes)
    BY <1>1, <1>3, <1>4
  <2>2. (taken \o d) \o inbox' = taken \o (d \o inbox')
    BY ONLY <2>1, Associates
  <2> QED
    BY ONLY <1>2, <1>4, <2>2, Zenon
<1>7. Flow'
  BY <1>6 DEF Flow, Whole
<1> QED
  BY <1>2, <1>4, <1>5, <1>7 DEF d

\* What was read since a call began, after more was read.
LEMMA SinceTaken ==
  ASSUME taken \in Seq(Bytes), NEW d \in Seq(Bytes), taken' = taken \o d, NEW mark \in 0..Len(taken)
  PROVE /\ SubSeq(taken', mark + 1, Len(taken')) = Since(mark) \o d
        /\ mark <= Len(taken')
<1>1. SubSeq(taken \o d, mark + 1, Len(taken \o d)) = Since(mark) \o d
  BY SinceGrows, Zenon DEF Since
<1>2. Len(taken \o d) = Len(taken) + Len(d)
  OBVIOUS
<1> QED
  BY <1>1, <1>2

\* A byte that arrives is the next of the stream.
LEMMA ArriveFlow ==
  ASSUME StreamTypes, Flow, Arrive
  PROVE Flow' /\ inbox' \in Seq(Bytes) /\ coming' \in Seq(Bytes)
<1> DEFINE h == Head(coming)
<1>1. /\ taken \in Seq(Bytes) /\ inbox \in Seq(Bytes) /\ coming \in Seq(Bytes) /\ coming # <<>>
      /\ inbox' = Append(inbox, h) /\ coming' = Tail(coming)
      /\ taken' = taken /\ stream' = stream /\ peer' = peer
  BY DEF StreamTypes, Arrive
<1>2. h \in Bytes /\ Tail(coming) \in Seq(Bytes) /\ <<h>> \in Seq(Bytes)
  BY <1>1
<1>3. coming = <<h>> \o Tail(coming)
  BY <1>1
<1> HIDE DEF h
<1>4. inbox' = inbox \o <<h>>
  BY <1>1, <1>2, AppendIsConcat
<1>5. inbox' \in Seq(Bytes)
  BY <1>1, <1>2
<1>6. (taken \o inbox') \o coming' = (taken \o inbox) \o coming
  <2>1. taken \o inbox \in Seq(Bytes)
    BY <1>1
  <2>2. taken \o inbox' = (taken \o inbox) \o <<h>>
    <3>1. (taken \o inbox) \o <<h>> = taken \o (inbox \o <<h>>)
      BY ONLY <1>1, <1>2, Associates, Zenon
    <3> QED
      BY ONLY <1>4, <3>1
  <2>3. ((taken \o inbox) \o <<h>>) \o coming' = (taken \o inbox) \o (<<h>> \o coming')
    BY <1>1, <1>2, <2>1, Associates
  <2> QED
    BY ONLY <1>1, <1>3, <2>2, <2>3
<1> QED
  BY <1>1, <1>2, <1>5, <1>6, Zenon DEF Flow, Whole

\* A reset loses what was not read.
LEMMA ResetFlow ==
  ASSUME StreamTypes, Flow, PeerReset
  PROVE Flow'
<1>1. /\ taken \in Seq(Bytes) /\ inbox \in Seq(Bytes) /\ coming \in Seq(Bytes) /\ stream \in Seq(Bytes)
      /\ inbox' = <<>> /\ coming' = <<>> /\ taken' = taken /\ stream' = stream /\ peer' = "reset"
  BY DEF StreamTypes, PeerReset
<1>2. taken \o inbox \in Seq(Bytes)
  BY <1>1
<1>3. IsPrefix(taken \o inbox, stream)
  BY <1>1, <1>2, PrefixOfConcat, Zenon DEF Flow, Whole
<1>4. IsPrefix(taken, stream)
  BY <1>1, <1>3, PrefixOfConcat
<1>5. (taken \o <<>>) \o <<>> = taken
  BY <1>1
<1> QED
  BY <1>1, <1>4, <1>5 DEF Flow, Whole

\* A call that returns what was read since it began has delivered it.
LEMMA ReturnDelivers ==
  ASSUME StreamTypes, call.op # "none", NEW ok, NEW got, Return(ok, got),
         call.op \in Reads => /\ got \in Seq(Bytes) /\ got = SubSeq(taken', call.mark + 1, Len(taken'))
                             /\ RightResult(call.op, ok, got, call.size)
  PROVE call' = Idle /\ Delivered'
<1>1. /\ call' = Idle /\ returned'.op = call.op /\ returned'.ok = ok /\ returned'.data = got
      /\ returned'.size = call.size /\ returned'.mark = call.mark
  BY DEF Return
<1> QED
  BY <1>1 DEF Delivered, Since

-----------------------------------------------------------------------------
\* In the first state nothing was read, and all of the stream is to come.
LEMMA StreamInitInv == Init => StreamInv
<1> SUFFICES ASSUME Init PROVE StreamInv
  OBVIOUS
<1>1. stream \in Seq(Bytes)
  BY StreamAssumption DEF Init, Bytes
<1>2. StreamTypes
  BY <1>1 DEF Init, StreamTypes
<1>3. (<<>> \o <<>>) \o stream = stream /\ IsPrefix(stream, stream)
  BY <1>1 DEF IsPrefix
<1>4. Flow
  BY <1>3 DEF Init, Flow, Whole
<1> QED
  BY <1>2, <1>4 DEF Init, StreamInv, Delivered, Idle, Reads

\* The kernel and the peer: a call under way finds what it peeked at, unless the
\* connection was reset.
LEMMA KernelStep ==
  ASSUME StreamInv, Kernel
  PROVE StreamInv'
<1>1. CASE Establish \/ Refuse \/ PeerClose
  <2>1. /\ UNCHANGED <<stream, coming, inbox, taken, call, returned, wrote, blocking>>
        /\ peer' = peer \/ peer' = "closed"
    BY <1>1 DEF Establish, Refuse, PeerClose
  <2>2. Flow'
    BY <2>1, FlowSame DEF StreamInv
  <2> QED
    BY <2>1, <2>2 DEF StreamInv, StreamTypes, Reading, Peeked, Delivered, Since
<1>2. CASE Arrive
  <2>1. Flow' /\ inbox' \in Seq(Bytes) /\ coming' \in Seq(Bytes)
    BY <1>2, ArriveFlow DEF StreamInv
  <2>2. /\ UNCHANGED <<stream, taken, call, returned, wrote, blocking, peer>> /\ peer = "open"
        /\ inbox' = Append(inbox, Head(coming)) /\ coming # <<>>
    BY <1>2 DEF Arrive
  <2>3. StreamTypes'
    BY <2>1, <2>2 DEF StreamInv, StreamTypes
  <2>4. /\ inbox \in Seq(Bytes) /\ Len(inbox') = Len(inbox) + 1
        /\ \A i \in 1..Len(inbox): inbox'[i] = inbox[i]
    BY <2>2 DEF StreamInv, StreamTypes
  <2>5. ASSUME call \in CallRecords, Peeked PROVE Peeked'
    <3>1. call.need \in Nat
      BY <2>5 DEF CallRecords
    <3>2. call.need \in 1..Len(inbox) /\ call.need \in 1..Len(inbox') /\ \A i \in 1..call.need - 1: i \in 1..Len(inbox)
      BY <2>4, <2>5, <3>1 DEF Peeked
    <3> QED
      BY <2>2, <2>4, <2>5, <3>2 DEF Peeked
  <2>6. call # Idle => Reading'
    <3>1. call # Idle => call \in CallRecords /\ Reading
      BY DEF StreamInv, StreamTypes
    <3> QED
      BY <2>2, <2>5, <3>1 DEF Reading, Since
  <2> QED
    BY <2>1, <2>2, <2>3, <2>6 DEF StreamInv, Delivered, Since
<1>3. CASE PeerReset
  <2>1. Flow'
    BY <1>3, ResetFlow DEF StreamInv
  <2>2. /\ UNCHANGED <<stream, taken, call, returned, wrote, blocking>>
        /\ peer' = "reset" /\ inbox' = <<>> /\ coming' = <<>>
    BY <1>3 DEF PeerReset
  <2> QED
    BY <2>1, <2>2 DEF StreamInv, StreamTypes, Reading, Delivered, Since
<1> QED
  BY <1>1, <1>2, <1>3 DEF Kernel

\* Calls that do not read, from step to step: their mark stays.
LEMMA PlainStep ==
  ASSUME StreamInv, call \in CallRecords, call.op \in {"connect", "timed_connect", "send_all", "timed_send_all"},
         UNCHANGED <<stream, coming, inbox, taken>>, peer' = "open" => peer = "open",
         peer' \in {"open", "closed", "reset"}, wrote' \in Nat, blocking' \in BOOLEAN,
         \/ call' \in CallRecords /\ call'.op = call.op /\ call'.mark = call.mark
         \/ \E ok \in BOOLEAN, got \in {<<>>} \cup {<<n>>: n \in Nat}: Return(ok, got)
  PROVE StreamInv'
<1>1. Flow'
  BY FlowSame DEF StreamInv
<1>2. CASE call' \in CallRecords /\ call'.op = call.op /\ call'.mark = call.mark
  <2>1. StreamTypes' /\ call' # Idle
    BY <1>2 DEF StreamInv, StreamTypes, Idle, CallRecords
  <2>2. call # Idle
    BY DEF Idle
  <2>3. Reading'
    BY <1>2, <2>2 DEF StreamInv, Reading, Reads
  <2> QED
    BY <1>1, <2>1, <2>3 DEF StreamInv, Delivered
<1>3. ASSUME NEW ok \in BOOLEAN, NEW got \in {<<>>} \cup {<<n>>: n \in Nat}, Return(ok, got) PROVE StreamInv'
  <2>1. call.op # "none" /\ call.op \notin Reads
    BY DEF Reads
  <2>2. call' = Idle /\ Delivered'
    BY <1>3, <2>1, ReturnDelivers DEF StreamInv
  <2> QED
    BY <1>1, <2>2 DEF StreamInv, StreamTypes
<1> QED
  BY <1>2, <1>3

\* Connect, with and without a timeout.
LEMMA ConnectStep ==
  ASSUME StreamInv, Connect \/ ConnectBlocked \/ TimedConnect \/ TimedConnectWait
  PROVE StreamInv'
<1>1. call.op \in {"connect", "timed_connect"}
  BY Zenon DEF Connect, ConnectBlocked, TimedConnect, TimedConnectWait
<1>2. call \in CallRecords
  BY <1>1, CallOrIdle DEF StreamInv
<1>3. UNCHANGED <<stream, coming, inbox, taken, peer, wrote>>
  BY Zenon DEF Connect, ConnectBlocked, TimedConnect, TimedConnectWait
<1>4. blocking' \in BOOLEAN
  BY <1>2, Zenon DEF Connect, ConnectBlocked, TimedConnect, TimedConnectWait, TimedConnectDone, StreamInv, StreamTypes, CallRecords
<1>5. \/ call' = [call EXCEPT !.pc = "connecting"] \/ call' = [call EXCEPT !.pc = "wait"]
      \/ Return(TRUE, <<>>) \/ Return(FALSE, <<>>)
  BY Zenon DEF Connect, ConnectBlocked, TimedConnect, TimedConnectWait, TimedConnectDone
<1>6. \/ call' \in CallRecords /\ call'.op = call.op /\ call'.mark = call.mark
      \/ Return(TRUE, <<>>) \/ Return(FALSE, <<>>)
  BY <1>2, <1>5, Zenon DEF CallRecords
<1>7. peer \in {"open", "closed", "reset"} /\ wrote \in Nat
  BY DEF StreamInv, StreamTypes
<1> QED
  BY <1>1, <1>2, <1>3, <1>4, <1>6, <1>7, PlainStep, Zenon

\* SendAll.
LEMMA SendStep ==
  ASSUME StreamInv, SendAll
  PROVE StreamInv'
<1>1. call.op \in {"send_all", "timed_send_all"} /\ UNCHANGED <<blocking, stream, coming, inbox, taken>>
  BY DEF SendAll
<1>2. call \in CallRecords
  BY <1>1, CallOrIdle DEF StreamInv
<1>3. peer \in {"open", "closed", "reset"} /\ wrote \in Nat /\ blocking \in BOOLEAN
      /\ call.size \in Nat /\ call.extra \in Nat
  BY <1>2 DEF StreamInv, StreamTypes, CallRecords
<1>4. peer' \in {"open", "closed", "reset"} /\ (peer' = "open" => peer = "open")
  BY <1>3, Zenon DEF SendAll, SendFails
<1>5. CASE UNCHANGED wrote /\ Return(FALSE, <<call.extra>>)
  BY <1>1, <1>2, <1>3, <1>4, <1>5, PlainStep, Zenon
<1>6. CASE ~(UNCHANGED wrote /\ Return(FALSE, <<call.extra>>))
  <2>1. PICK n \in 1..call.size - call.extra:
          /\ wrote' = wrote + n
          /\ IF call.extra + n = call.size THEN Return(TRUE, <<call.extra + n>>)
             ELSE call' = [call EXCEPT !.extra = @ + n] /\ UNCHANGED returned
    BY <1>6, Zenon DEF SendAll
  <2>2. wrote' \in Nat /\ n \in Nat /\ call.extra + n \in Nat
    BY <1>3, <2>1
  <2>3. CASE Return(TRUE, <<call.extra + n>>)
    BY <1>1, <1>2, <1>3, <1>4, <2>2, <2>3, PlainStep, Zenon
  <2>4. CASE call' = [call EXCEPT !.extra = @ + n]
    <3>1. call' \in CallRecords /\ call'.op = call.op /\ call'.mark = call.mark
      BY <1>2, <2>2, <2>4 DEF CallRecords
    <3> QED
      BY <1>1, <1>2, <1>3, <1>4, <2>2, <3>1, PlainStep
  <2> QED
    BY <2>1, <2>3, <2>4, Zenon
<1> QED
  BY <1>5, <1>6, Zenon

\* A call begins: it has read nothing.
LEMMA BeginStep ==
  ASSUME StreamInv, Begin
  PROVE StreamInv'
<1>1. UNCHANGED <<stream, coming, inbox, taken, peer, wrote, blocking>>
  BY DEF Begin
<1>2. Flow'
  BY <1>1, FlowSame DEF StreamInv
<1>3. taken \in Seq(Bytes) /\ Len(taken) \in Nat /\ blocking \in BOOLEAN /\ wrote \in Nat
  BY DEF StreamInv, StreamTypes
<1>4. PICK op \in AllOps, size \in Nat, extra \in Nat:
        /\ Start(op, size, extra)
        /\ op \in {"receive", "receive_all", "timed_receive_all"} => size > 0
        /\ op = "receive_line" => extra > 0
  <2>1. CASE \E op \in {"connect", "timed_connect"}: Start(op, 0, 0)
    BY <2>1 DEF AllOps
  <2>2. CASE \E op \in {"receive", "receive_all", "timed_receive_all"}, size \in Sizes: Start(op, size, 0)
    BY <2>2, StreamAssumption DEF AllOps
  <2>3. CASE \E size \in Sizes \cup {Unlimited}, peek \in PeekSizes: Start("receive_line", size, peek)
    BY <2>3, StreamAssumption DEF AllOps
  <2>4. CASE \E op \in {"send_all", "timed_send_all"}, size \in 1..MaxSend - wrote: Start(op, size, 0)
    <3>1. 1..MaxSend - wrote \subseteq Nat
      BY <1>3, StreamAssumption
    <3> QED
      BY <2>4, <3>1 DEF AllOps
  <2> QED
    BY <2>1, <2>2, <2>3, <2>4 DEF Begin
<1>5. call' = [op |-> op, pc |-> "begin", size |-> size, got |-> <<>>, need |-> 0, extra |-> extra,
               mark |-> Len(taken), mode |-> blocking, restart |-> TRUE]
  BY <1>4 DEF Start
<1>6. call' \in CallRecords /\ call' # Idle
  BY <1>3, <1>5 DEF CallRecords, AllOps, Idle
<1>7. /\ call'.op = op /\ call'.size = size /\ call'.got = <<>> /\ call'.mark = Len(taken)
      /\ call'.extra = extra /\ call'.pc = "begin"
  BY <1>5
<1>8. SubSeq(taken, Len(taken) + 1, Len(taken)) = <<>>
  BY <1>3, SubSeqEmpty
<1>9. Reading'
  BY <1>1, <1>3, <1>4, <1>7, <1>8 DEF Reading, Since
<1>10. StreamTypes'
  BY <1>1, <1>6 DEF StreamInv, StreamTypes
<1> QED
  BY <1>2, <1>6, <1>9, <1>10 DEF StreamInv, Delivered

\* A call that is not to restart system calls, and SetBlocking between calls.
LEMMA ModeStep ==
  ASSUME StreamInv, NoRestart \/ StreamSetBlocking
  PROVE StreamInv'
<1>1. UNCHANGED <<stream, coming, inbox, taken, peer, wrote, returned>>
  BY DEF NoRestart, StreamSetBlocking
<1>2. Flow'
  BY <1>1, FlowSame DEF StreamInv
<1>3. CASE NoRestart
  <2>1. call \in CallRecords /\ call # Idle
    <3>1. call.op # "none"
      BY <1>3 DEF NoRestart, Untimed
    <3> QED
      BY <3>1, CallOrIdle DEF StreamInv
  <2>2. call' = [call EXCEPT !.restart = FALSE] /\ blocking' = blocking
    BY <1>3 DEF NoRestart
  <2>3. /\ call' \in CallRecords /\ call'.op = call.op /\ call'.mark = call.mark /\ call'.size = call.size
        /\ call'.got = call.got /\ call'.pc = call.pc /\ call'.need = call.need /\ call'.extra = call.extra
    BY <2>1, <2>2, Zenon DEF CallRecords
  <2>4. Reading'
    BY <1>1, <2>1, <2>3 DEF StreamInv, Reading, Peeked, Since
  <2>5. call' # Idle
    BY <2>3 DEF CallRecords, AllOps, Idle
  <2> QED
    BY <1>1, <1>2, <2>2, <2>3, <2>4, <2>5 DEF StreamInv, StreamTypes, Delivered
<1>4. CASE StreamSetBlocking
  <2>1. call' = call /\ blocking' = ~blocking
    BY <1>4 DEF StreamSetBlocking
  <2>2. StreamTypes'
    BY <1>1, <2>1 DEF StreamInv, StreamTypes
  <2> QED
    BY <1>1, <1>2, <2>1, <2>2 DEF StreamInv, Reading, Peeked, Delivered, Since
<1> QED
  BY <1>3, <1>4

-----------------------------------------------------------------------------
\* A read that fails hands over what it has.
LEMMA FailedRead ==
  ASSUME StreamInv, call \in CallRecords, call.op \in Reads \cup {"receive"},
         UNCHANGED <<stream, coming, inbox, taken, wrote, blocking>>,
         peer' \in {"open", "closed", "reset"}, peer' = "open" => peer = "open",
         NEW got, got = call.got \/ call.op = "receive", Return(FALSE, got)
  PROVE StreamInv'
<1>1. Flow'
  BY FlowSame DEF StreamInv
<1>2. call # Idle /\ call.op # "none"
  BY DEF Idle, Reads
<1>3. Reading /\ call.got \in Seq(Bytes)
  BY <1>2 DEF StreamInv, CallRecords
<1>4. call.op \in Reads => RightResult(call.op, FALSE, call.got, call.size)
  <2>1. call.size \in Nat /\ Len(call.got) \in Nat
    BY <1>3 DEF CallRecords
  <2> QED
    BY <1>3, <2>1 DEF Reading, RightResult, Reads
<1>5. call.op \in Reads => got \in Seq(Bytes) /\ got = SubSeq(taken', call.mark + 1, Len(taken'))
  BY <1>3 DEF Reading, Reads, Since
<1>6. call' = Idle /\ Delivered'
  <2>1. call.op \in Reads => got = call.got
    BY DEF Reads
  <2> QED
    BY <1>2, <1>4, <1>5, <2>1, ReturnDelivers, Zenon DEF StreamInv
<1> QED
  BY <1>1, <1>6 DEF StreamInv, StreamTypes

\* recv() fails in one of its ways, and the peer's state follows.
LEMMA RecvFailsPeer ==
  ASSUME StreamTypes, RecvFails \/ RecvReset \/ RecvEnd
  PROVE peer' \in {"open", "closed", "reset"} /\ (peer' = "open" => peer = "open")
BY DEF StreamTypes, RecvFails, RecvEnd, RecvReset, RecvWouldBlock, RecvInterrupted

\* A read that has received its last bytes hands them over with the others.
LEMMA LastRead ==
  ASSUME StreamInv, call \in CallRecords, call.op \in Reads \cup {"receive"}, NEW n \in Nat, Take(RecvData(n)),
         UNCHANGED <<stream, coming, peer, wrote, blocking>>, NEW got, Return(TRUE, got),
         call.op \in Reads => got = call.got \o RecvData(n) /\ RightResult(call.op, TRUE, got, call.size)
  PROVE StreamInv'
<1>1. taken' \in Seq(Bytes) /\ inbox' \in Seq(Bytes) /\ Flow' /\ taken' = taken \o RecvData(n)
  BY TakeFlow DEF StreamInv
<1>2. call # Idle /\ call.op # "none"
  BY DEF Idle, Reads
<1>3. /\ Reading /\ call.got \in Seq(Bytes) /\ taken \in Seq(Bytes) /\ call.mark \in 0..Len(taken)
      /\ RecvData(n) \in Seq(Bytes)
  <2>1. Reading /\ call.got \in Seq(Bytes) /\ taken \in Seq(Bytes) /\ call.mark \in Nat /\ inbox \in Seq(Bytes)
    BY <1>2 DEF StreamInv, CallRecords, StreamTypes
  <2>2. RecvData(n) \in Seq(Bytes)
    BY <2>1, RecvDataIs
  <2>3. call.mark <= Len(taken)
    BY <2>1 DEF Reading
  <2> QED
    BY ONLY <2>1, <2>2, <2>3
<1>4. SubSeq(taken', call.mark + 1, Len(taken')) = Since(call.mark) \o RecvData(n)
  BY <1>1, <1>3, SinceTaken, Zenon
<1>5. call.op \in Reads => got \in Seq(Bytes) /\ got = SubSeq(taken', call.mark + 1, Len(taken'))
  <2>1. call.op \in Reads => call.got = Since(call.mark)
    BY <1>3 DEF Reading
  <2>2. call.got \o RecvData(n) \in Seq(Bytes)
    BY <1>3
  <2> QED
    BY <1>4, <2>1, <2>2, Zenon
<1>6. call' = Idle /\ Delivered'
  BY <1>2, <1>5, ReturnDelivers, Zenon DEF StreamInv
<1> QED
  BY <1>1, <1>6 DEF StreamInv, StreamTypes

\* A read that has received some bytes and goes on has them.
LEMMA NextRead ==
  ASSUME StreamInv, call \in CallRecords, call.op \in Reads, NEW n \in Nat, Take(RecvData(n)),
         UNCHANGED <<stream, coming, peer, wrote, blocking>>, NEW pc \in {"begin", "recv", call.pc},
         call' = [call EXCEPT !.got = call.got \o RecvData(n), !.pc = pc],
         call.op # "receive_line" => Len(call.got \o RecvData(n)) < call.size,
         call.op = "receive_line" =>
           /\ Len(call.got \o RecvData(n)) <= call.size /\ pc = "begin"
           /\ \A i \in 1..Len(RecvData(n)): RecvData(n)[i] # "lf"
  PROVE StreamInv'
<1> DEFINE d == RecvData(n)
<1>1. taken' \in Seq(Bytes) /\ inbox' \in Seq(Bytes) /\ Flow' /\ taken' = taken \o d
  BY TakeFlow DEF StreamInv
<1>2. call # Idle
  BY DEF Idle, Reads
<1>3. Reading /\ call.got \in Seq(Bytes) /\ taken \in Seq(Bytes) /\ call.mark \in 0..Len(taken) /\ d \in Seq(Bytes)
  <2>1. Reading /\ call.got \in Seq(Bytes) /\ taken \in Seq(Bytes) /\ call.mark \in Nat /\ inbox \in Seq(Bytes)
    BY <1>2 DEF StreamInv, CallRecords, StreamTypes
  <2> QED
    BY <2>1, RecvDataIs DEF Reading
<1>4. SubSeq(taken', call.mark + 1, Len(taken')) = Since(call.mark) \o d /\ call.mark <= Len(taken')
  BY <1>1, <1>3, SinceTaken, Zenon
<1>5. call.got \o d \in Seq(Bytes)
  BY <1>3
<1>6. /\ call' \in CallRecords /\ call'.op = call.op /\ call'.mark = call.mark /\ call'.size = call.size
      /\ call'.got = call.got \o d /\ call'.pc = pc /\ call'.extra = call.extra
  BY <1>5, Zenon DEF CallRecords
<1>7. call' # Idle
  BY <1>6, Zenon DEF Idle, Reads
<1>8. call.op = "receive_line" => \A i \in 1..Len(call.got \o d): (call.got \o d)[i] # "lf"
  <2> HIDE DEF d
  <2>1. call.op = "receive_line" => /\ \A i \in 1..Len(call.got): call.got[i] # "lf"
                                    /\ \A i \in 1..Len(d): d[i] # "lf"
    BY <1>3 DEF Reading, d
  <2> QED
    BY ONLY <1>3, <2>1
<1> HIDE DEF d
<1>9. call.op \in Reads => call.got \o d = SubSeq(taken', call.mark + 1, Len(taken'))
  BY <1>3, <1>4, Zenon DEF Reading
<1>10. Reading'
  <2>1. call'.mark <= Len(taken') /\ call'.got = SubSeq(taken', call'.mark + 1, Len(taken'))
    BY <1>4, <1>6, <1>9, Zenon
  <2>2. call.op # "receive" /\ (call.op # "receive_line" => Len(call'.got) < call'.size)
    BY <1>6 DEF Reads, d
  <2>3. call.op = "receive_line" =>
          /\ Len(call'.got) <= call'.size /\ call'.extra > 0 /\ call'.pc = "begin"
          /\ \A i \in 1..Len(call'.got): call'.got[i] # "lf"
    BY <1>3, <1>6, <1>8 DEF Reading, d
  <2> QED
    BY <1>6, <2>1, <2>2, <2>3, Zenon DEF Reading, Since
<1> QED
  BY <1>1, <1>6, <1>7, <1>10 DEF StreamInv, StreamTypes, Delivered

\* Receive: what is at hand, once.
LEMMA ReceiveStep ==
  ASSUME StreamInv, Receive
  PROVE StreamInv'
<1>1. call.op = "receive" /\ UNCHANGED <<blocking, stream, coming, wrote>>
  BY DEF Receive
<1>2. call \in CallRecords /\ call.op \in Reads \cup {"receive"} /\ call.op \notin Reads /\ call.size \in Nat
  <2>1. call \in CallRecords
    BY <1>1, CallOrIdle DEF StreamInv
  <2> QED
    BY <1>1, <2>1 DEF CallRecords, Reads
<1>3. CASE Take(RecvData(call.size)) /\ Return(TRUE, RecvData(call.size)) /\ UNCHANGED peer
  BY <1>1, <1>2, <1>3, LastRead, Zenon
<1>4. CASE RecvFails /\ Return(FALSE, <<>>) /\ UNCHANGED <<inbox, taken>>
  <2>1. peer' \in {"open", "closed", "reset"} /\ (peer' = "open" => peer = "open")
    BY <1>4, RecvFailsPeer DEF StreamInv
  <2> QED
    BY <1>1, <1>2, <1>4, <2>1, FailedRead, Zenon
<1> QED
  BY <1>3, <1>4, Zenon DEF Receive

\* What ReceiveAll does with the bytes of a recv(), with and without a timeout.
LEMMA ReceivedStep ==
  ASSUME StreamInv, call \in CallRecords, call.op \in {"receive_all", "timed_receive_all"},
         UNCHANGED <<stream, coming, peer, wrote, blocking>>,
         NEW data, data = RecvData(call.size - Len(call.got)), Take(data), NEW pc \in {"begin", "recv", call.pc},
         IF Len(call.got \o data) = call.size THEN Return(TRUE, call.got \o data)
         ELSE call' = [call EXCEPT !.got = call.got \o data, !.pc = pc]
  PROVE StreamInv'
<1> DEFINE n == call.size - Len(call.got)
<1>1. call.op \in Reads /\ call.op # "receive_line"
  BY DEF Reads
<1>2. call # Idle
  BY DEF Idle
<1>3. Reading /\ call.got \in Seq(Bytes) /\ inbox \in Seq(Bytes) /\ call.size \in Nat
  BY <1>2 DEF StreamInv, StreamTypes, CallRecords
<1>4. Len(call.got) < call.size
  BY <1>3 DEF Reading
<1>5. n \in Nat
  BY <1>3, <1>4
<1>6. data \in Seq(Bytes) /\ Len(data) <= n
  BY <1>3, <1>5, RecvDataIs
<1>7. Len(call.got \o data) = Len(call.got) + Len(data) /\ Len(data) \in Nat /\ Len(call.got) \in Nat
  BY <1>3, <1>6
<1>8. Len(call.got \o data) <= call.size
  BY ONLY <1>3, <1>6, <1>7
<1>9. data = RecvData(n)
  OBVIOUS
<1> HIDE DEF n
<1>10. CASE Len(call.got \o data) = call.size
  <2>1. RightResult(call.op, TRUE, call.got \o data, call.size)
    BY <1>1, <1>10, Zenon DEF RightResult
  <2> QED
    BY <1>1, <1>5, <1>9, <1>10, <2>1, LastRead, Zenon
<1>11. CASE Len(call.got \o data) # call.size
  <2>1. Len(call.got \o data) < call.size
    BY ONLY <1>3, <1>7, <1>8, <1>11
  <2> QED
    BY <1>1, <1>5, <1>9, <1>11, <2>1, NextRead, Zenon
<1> QED
  BY <1>10, <1>11, Zenon

\* ReceiveAll.
LEMMA ReceiveAllStep ==
  ASSUME StreamInv, ReceiveAll
  PROVE StreamInv'
<1>1. call.op = "receive_all" /\ UNCHANGED <<blocking, stream, coming, wrote>>
  BY DEF ReceiveAll
<1>2. call \in CallRecords
  BY <1>1, CallOrIdle DEF StreamInv
<1>3. CASE inbox # <<>> /\ UNCHANGED peer
  <2> DEFINE data == RecvData(call.size - Len(call.got))
  <2>1. CASE RecvFails /\ Return(FALSE, call.got) /\ UNCHANGED <<inbox, taken>>
    BY <1>3, <2>1 DEF RecvFails, RecvEnd, RecvReset, RecvWouldBlock, RecvInterrupted
  <2>2. CASE /\ Take(data)
             /\ IF Len(call.got \o data) = call.size THEN Return(TRUE, call.got \o data)
                ELSE call' = [call EXCEPT !.got = @ \o data] /\ UNCHANGED returned
    <3>1. [call EXCEPT !.got = @ \o data] = [call EXCEPT !.got = call.got \o data, !.pc = call.pc]
      BY <1>2, Zenon DEF CallRecords
    <3>2. IF Len(call.got \o data) = call.size THEN Return(TRUE, call.got \o data)
          ELSE call' = [call EXCEPT !.got = call.got \o data, !.pc = call.pc]
      BY <2>2, <3>1, Zenon
    <3> QED
      BY <1>1, <1>2, <1>3, <2>2, <3>2, ReceivedStep, Zenon
  <2> QED
    BY <2>1, <2>2, Zenon DEF ReceiveAll
<1>4. CASE RecvFails /\ Return(FALSE, call.got) /\ UNCHANGED <<inbox, taken>>
  <2>1. peer' \in {"open", "closed", "reset"} /\ (peer' = "open" => peer = "open")
    BY <1>4, RecvFailsPeer DEF StreamInv
  <2> QED
    BY <1>1, <1>2, <1>4, <2>1, FailedRead, Zenon DEF Reads
<1> QED
  BY <1>3, <1>4, Zenon DEF ReceiveAll

\* A call that only comes to another place keeps what it has.
LEMMA WaitedRead ==
  ASSUME StreamInv, call \in CallRecords, call.op = "timed_receive_all", NEW pc \in {"begin", "recv"},
         call' = [call EXCEPT !.pc = pc], UNCHANGED <<stream, coming, inbox, taken, wrote, blocking>>,
         peer' \in {"open", "closed", "reset"}, peer' = "open" => peer = "open"
  PROVE StreamInv'
<1>1. Flow'
  BY FlowSame DEF StreamInv
<1>2. /\ call' \in CallRecords /\ call'.op = call.op /\ call'.mark = call.mark /\ call'.size = call.size
      /\ call'.got = call.got
  BY DEF CallRecords
<1>3. call # Idle /\ call' # Idle
  BY <1>2 DEF Idle
<1>4. Reading'
  BY <1>2, <1>3 DEF StreamInv, Reading, Since
<1> QED
  BY <1>1, <1>2, <1>3, <1>4 DEF StreamInv, StreamTypes, Delivered

\* ReceiveAll with a timeout.
LEMMA TimedReceiveAllStep ==
  ASSUME StreamInv, TimedReceiveAll
  PROVE StreamInv'
<1>1. call.op = "timed_receive_all" /\ UNCHANGED <<blocking, stream, coming, wrote>>
  BY DEF TimedReceiveAll
<1>2. call \in CallRecords /\ peer \in {"open", "closed", "reset"}
  BY <1>1, CallOrIdle DEF StreamInv, StreamTypes
<1>3. CASE call.pc = "begin"
  <2>1. UNCHANGED <<inbox, taken, peer>>
    BY <1>3 DEF TimedReceiveAll
  <2>2. CASE call' = [call EXCEPT !.pc = "recv"]
    BY <1>1, <1>2, <2>1, <2>2, WaitedRead
  <2>3. CASE Return(FALSE, call.got)
    BY <1>1, <1>2, <2>1, <2>3, FailedRead, Zenon DEF Reads
  <2> QED
    BY <1>3, <2>2, <2>3, Zenon DEF TimedReceiveAll
<1>4. CASE call.pc = "recv" /\ inbox # <<>> /\ UNCHANGED peer
  <2> DEFINE data == RecvData(call.size - Len(call.got))
  <2>1. CASE RecvEnd \/ RecvReset
    BY <1>4, <2>1 DEF RecvEnd, RecvReset
  <2>2. CASE /\ Take(data)
             /\ IF Len(call.got \o data) = call.size THEN Return(TRUE, call.got \o data)
                ELSE call' = [call EXCEPT !.got = @ \o data, !.pc = "begin"] /\ UNCHANGED returned
    <3>1. IF Len(call.got \o data) = call.size THEN Return(TRUE, call.got \o data)
          ELSE call' = [call EXCEPT !.got = call.got \o data, !.pc = "begin"]
      BY <2>2, Zenon
    <3> QED
      BY <1>1, <1>2, <1>4, <2>2, <3>1, ReceivedStep, Zenon
  <2> QED
    BY <1>4, <2>1, <2>2, Zenon DEF TimedReceiveAll
<1>5. CASE /\ RecvEnd \/ RecvReset
           /\ call' = [call EXCEPT !.pc = "begin"] /\ UNCHANGED <<inbox, taken, returned>>
  <2>1. peer' \in {"open", "closed", "reset"} /\ (peer' = "open" => peer = "open")
    BY <1>5, RecvFailsPeer DEF StreamInv
  <2> QED
    BY <1>1, <1>2, <1>5, <2>1, WaitedRead
<1> QED
  BY <1>3, <1>4, <1>5, Zenon DEF TimedReceiveAll

\* memchr: the place of the first end of line.
LEMMA FirstEndOfLine ==
  ASSUME NEW s \in Seq(Bytes), Contains(s, "lf"), NEW k, k = Min({n \in 1..Len(s): s[n] = "lf"})
  PROVE k \in 1..Len(s) /\ s[k] = "lf" /\ \A i \in 1..k - 1: s[i] # "lf"
<1> DEFINE I == {i \in 1..Len(s): s[i] = "lf"}
<1>1. I # {} /\ I \subseteq Nat
  BY DEF Contains
<1>2. k = Min(I)
  OBVIOUS
<1>3. k \in I /\ \A y \in I: k <= y
  BY <1>1, <1>2, MinIsLeast, Zenon
<1>4. k \in 1..Len(s) /\ s[k] = "lf"
  BY <1>3
<1>5. ASSUME NEW i \in 1..k - 1 PROVE s[i] # "lf"
  <2>1. i \in 1..Len(s) /\ ~(k <= i)
    BY <1>4
  <2> QED
    BY <1>3, <2>1
<1> QED
  BY <1>4, <1>5

\* ReceiveLine looks at what is at hand.
LEMMA PeekStep ==
  ASSUME StreamInv, PeekLine
  PROVE StreamInv'
<1>1. call.op = "receive_line" /\ UNCHANGED <<blocking, stream, coming, inbox, wrote, taken>>
  BY DEF PeekLine
<1>2. call \in CallRecords /\ call # Idle /\ peer \in {"open", "closed", "reset"}
  BY <1>1, CallOrIdle DEF StreamInv, StreamTypes
<1>3. CASE Return(FALSE, call.got) /\ (UNCHANGED peer \/ RecvFails)
  <2>1. peer' \in {"open", "closed", "reset"} /\ (peer' = "open" => peer = "open")
    BY <1>2, <1>3, RecvFailsPeer DEF StreamInv
  <2> QED
    BY <1>1, <1>2, <1>3, <2>1, FailedRead, Zenon DEF Reads
<1>4. CASE ~(Return(FALSE, call.got) /\ (UNCHANGED peer \/ RecvFails))
  <2> DEFINE m == Min({call.extra, call.size - Len(call.got)})
             seen == RecvData(m)
             found == Contains(seen, "lf")
             need == IF found THEN Min({k \in 1..Len(seen): seen[k] = "lf"}) ELSE Len(seen)
             pc == IF found THEN "rest" ELSE "piece"
  <2>1. /\ Len(call.got) < call.size /\ inbox # <<>> /\ UNCHANGED <<peer, returned>>
        /\ call' = [call EXCEPT !.pc = pc, !.need = need]
    BY <1>4, Zenon DEF PeekLine
  <2>2. /\ Reading /\ call.got \in Seq(Bytes) /\ inbox \in Seq(Bytes) /\ call.size \in Nat
        /\ call.extra \in Nat /\ Len(call.got) \in Nat
    BY <1>2 DEF StreamInv, StreamTypes, CallRecords
  <2>3. call.extra > 0
    BY <1>1, <2>2 DEF Reading
  <2>4. call.size - Len(call.got) \in Nat /\ call.size - Len(call.got) > 0
    BY ONLY <2>1, <2>2
  <2>5. m \in Nat /\ m > 0 /\ m <= call.size - Len(call.got)
    <3>1. m \in Nat /\ m \in {call.extra, call.size - Len(call.got)} /\ m <= call.size - Len(call.got)
      BY <2>2, <2>4, MinOfTwo
    <3> QED
      BY <2>3, <2>4, <3>1
  <2> HIDE DEF m
  <2>6. /\ seen \in Seq(Bytes) /\ Len(seen) <= m /\ Len(seen) <= Len(inbox) /\ Len(seen) > 0
        /\ \A i \in 1..Len(seen): seen[i] = inbox[i]
    BY <2>1, <2>2, <2>5, RecvDataIs
  <2> HIDE DEF seen
  <2>7. /\ need \in 1..Len(seen) /\ \A i \in 1..need - 1: seen[i] # "lf"
        /\ seen[need] = "lf" <=> pc = "rest"
    <3>1. CASE found
      BY <2>6, <3>1, FirstEndOfLine
    <3>2. CASE ~found
      <4>1. need = Len(seen) /\ Len(seen) \in 1..Len(seen) /\ pc = "piece"
        BY <2>6, <3>2
      <4>2. \A i \in 1..Len(seen): seen[i] # "lf"
        BY <3>2 DEF Contains
      <4>3. \A i \in 1..need - 1: i \in 1..Len(seen)
        BY <2>6, <4>1
      <4> QED
        BY <4>1, <4>2, <4>3
    <3> QED
      BY <3>1, <3>2
  <2>8. pc \in {"piece", "rest"} /\ need \in Nat
    BY <2>6, <2>7
  <2> HIDE DEF need, pc, found
  <2>9. /\ call' \in CallRecords /\ call'.op = call.op /\ call'.mark = call.mark /\ call'.size = call.size
        /\ call'.got = call.got /\ call'.pc = pc /\ call'.need = need /\ call'.extra = call.extra
    BY <1>2, <2>1, <2>8, Zenon DEF CallRecords
  <2>10. Peeked'
    <3>1. need \in 1..Len(inbox) /\ Len(call.got) + need <= call.size
      <4>1. Len(seen) \in Nat /\ Len(inbox) \in Nat
        BY <2>2, <2>6
      <4> QED
        BY ONLY <2>2, <2>5, <2>6, <2>7, <4>1
    <3>2. \A i \in 1..need - 1: inbox[i] # "lf"
      <4>1. \A i \in 1..need - 1: i \in 1..Len(seen)
        BY ONLY <2>6, <2>7
      <4> QED
        BY <2>6, <2>7, <4>1
    <3>3. inbox[need] = "lf" <=> pc = "rest"
      BY <2>6, <2>7
    <3> QED
      BY <1>1, <2>9, <3>1, <3>2, <3>3 DEF Peeked
  <2>11. Reading'
    BY <1>1, <2>2, <2>9, <2>10 DEF Reading, Since
  <2>12. call' # Idle
    BY <1>1, <2>9 DEF Idle
  <2>13. Flow'
    BY <1>1, <2>1, FlowSame DEF StreamInv
  <2> QED
    BY <1>1, <2>1, <2>9, <2>11, <2>12, <2>13 DEF StreamInv, StreamTypes, Delivered
<1> QED
  BY <1>3, <1>4, Zenon

\* ReceiveLine takes the bytes it peeked at: the line is complete, or goes on.
LEMMA ReceiveLineStep ==
  ASSUME StreamInv, ReceiveLine
  PROVE StreamInv'
<1>1. call.op = "receive_line" /\ call.pc \in {"piece", "rest"} /\ UNCHANGED <<blocking, stream, coming, wrote>>
  BY DEF ReceiveLine
<1>2. call \in CallRecords /\ call # Idle /\ call.op \in Reads
  BY <1>1, CallOrIdle DEF StreamInv, Reads
<1>3. CASE RecvReset /\ Return(FALSE, call.got) /\ UNCHANGED <<inbox, taken>>
  <2>1. peer' \in {"open", "closed", "reset"} /\ (peer' = "open" => peer = "open")
    BY <1>3, RecvFailsPeer DEF StreamInv
  <2> QED
    BY <1>1, <1>2, <1>3, <2>1, FailedRead, Zenon
<1>4. CASE ~(RecvReset /\ Return(FALSE, call.got) /\ UNCHANGED <<inbox, taken>>)
  <2> DEFINE data == RecvData(call.need)
             all == call.got \o data
  <2>1. /\ inbox # <<>> /\ UNCHANGED peer /\ Take(data)
        /\ IF call.pc = "rest" THEN Return(TRUE, all)
           ELSE call' = [call EXCEPT !.got = all, !.pc = "begin"] /\ UNCHANGED returned
    BY <1>4, Zenon DEF ReceiveLine
  <2>2. /\ Reading /\ call.got \in Seq(Bytes) /\ inbox \in Seq(Bytes) /\ call.size \in Nat
        /\ call.need \in Nat /\ Len(call.got) \in Nat /\ Len(inbox) \in Nat
    BY <1>2 DEF StreamInv, StreamTypes, CallRecords
  <2>3. Peeked /\ \A i \in 1..Len(call.got): call.got[i] # "lf"
    BY <1>1, <2>1, <2>2 DEF Reading
  <2>4. /\ call.need \in 1..Len(inbox) /\ Len(call.got) + call.need <= call.size
        /\ \A i \in 1..call.need - 1: inbox[i] # "lf"
        /\ inbox[call.need] = "lf" <=> call.pc = "rest"
    BY <2>3 DEF Peeked
  <2>5. data \in Seq(Bytes) /\ Len(data) = call.need /\ \A i \in 1..call.need: data[i] = inbox[i]
    <3>1. call.need <= Len(inbox)
      BY <2>4
    <3>2. /\ data \in Seq(Bytes) /\ (call.need <= Len(inbox) => Len(data) = call.need)
          /\ \A i \in 1..Len(data): data[i] = inbox[i]
      BY <2>2, RecvDataIs, Zenon
    <3> QED
      BY <3>1, <3>2
  <2> HIDE DEF data
  <2>6. all \in Seq(Bytes) /\ Len(all) = Len(call.got) + call.need
    <3>1. all \in Seq(Bytes) /\ Len(all) = Len(call.got) + Len(data)
      BY <2>2, <2>5, ConcatProperties, Zenon
    <3> QED
      BY <2>5, <3>1
  <2>7. /\ \A i \in 1..Len(call.got): all[i] = call.got[i]
        /\ \A i \in 1..call.need: all[Len(call.got) + i] = data[i]
    <3>1. \A i \in 1..Len(data): all[Len(call.got) + i] = data[i]
      BY <2>2, <2>5, ConcatParts, Zenon
    <3>2. \A i \in 1..Len(call.got): all[i] = call.got[i]
      BY <2>2, <2>5, ConcatParts, Zenon
    <3> HIDE DEF all
    <3> QED
      BY <2>5, <3>1, <3>2
  <2> HIDE DEF all
  <2>8. CASE call.pc = "rest"
    <3>1. \A i \in 1..Len(all) - 1: all[i] # "lf"
      <4> TAKE i \in 1..Len(all) - 1
      <4>1. CASE i <= Len(call.got)
        <5>1. i \in 1..Len(call.got)
          BY <2>2, <4>1
        <5> QED
          BY <2>3, <2>7, <5>1
      <4>2. CASE i > Len(call.got)
        <5> DEFINE j == i - Len(call.got)
        <5>1. j \in 1..call.need - 1 /\ j \in 1..call.need /\ i = Len(call.got) + j
          BY ONLY <2>2, <2>6, <4>2, i \in 1..Len(all) - 1
        <5> QED
          BY <2>4, <2>5, <2>7, <5>1, Zenon
      <4> QED
        BY <2>2, <4>1, <4>2
    <3>2. \E i \in 1..Len(all): all[i] = "lf"
      <4>1. Len(call.got) + call.need \in 1..Len(all) /\ call.need \in 1..call.need
        BY ONLY <2>2, <2>4, <2>6
      <4> QED
        BY <2>4, <2>5, <2>7, <2>8, <4>1
    <3>3. RightResult(call.op, TRUE, all, call.size)
      BY <1>1, <2>4, <2>6, <3>1, <3>2 DEF RightResult
    <3>4. Take(RecvData(call.need)) /\ Return(TRUE, all) /\ all = call.got \o RecvData(call.need)
      BY <2>1, <2>8, Zenon DEF data, all
    <3> QED
      BY <1>1, <1>2, <2>1, <2>2, <3>3, <3>4, LastRead, Zenon
  <2>9. CASE call.pc # "rest"
    <3>1. \A i \in 1..call.need: data[i] # "lf"
      <4> TAKE i \in 1..call.need
      <4>1. i = call.need \/ i \in 1..call.need - 1
        BY <2>2
      <4> QED
        BY <2>4, <2>5, <2>9, <4>1
    <3>2. /\ call' = [call EXCEPT !.got = call.got \o RecvData(call.need), !.pc = "begin"]
          /\ Take(RecvData(call.need)) /\ Len(call.got \o RecvData(call.need)) <= call.size
          /\ \A i \in 1..Len(RecvData(call.need)): RecvData(call.need)[i] # "lf"
      BY <2>1, <2>4, <2>5, <2>6, <2>9, <3>1 DEF data, all
    <3> QED
      BY <1>1, <1>2, <2>1, <2>2, <3>2, NextRead, Zenon
  <2> QED
    BY <2>8, <2>9
<1> QED
  BY <1>3, <1>4, Zenon

\* Every step keeps the invariant.
LEMMA StreamNextInv == StreamInv /\ [Next]_socket_vars => StreamInv'
<1> SUFFICES ASSUME StreamInv, [Next]_socket_vars PROVE StreamInv'
  OBVIOUS
<1>1. CASE UNCHANGED socket_vars
  BY <1>1 DEF socket_vars, StreamInv, StreamTypes, Flow, Whole, Reading, Peeked, Delivered, Since
<1>2. CASE Step
  BY <1>2, ConnectStep, ReceiveStep, ReceiveAllStep, TimedReceiveAllStep, PeekStep, ReceiveLineStep, SendStep DEF Step
<1> QED
  BY <1>1, <1>2, KernelStep, BeginStep, ModeStep DEF Next

\* The invariant says of the reads what they promise.
LEMMA StreamInvExact == StreamInv => ReadsAreExact
<1> SUFFICES ASSUME StreamInv PROVE ReadsAreExact
  OBVIOUS
<1>1. /\ taken \in Seq(Bytes) /\ inbox \in Seq(Bytes) /\ coming \in Seq(Bytes) /\ stream \in Seq(Bytes)
      /\ taken \o inbox \in Seq(Bytes)
  BY DEF StreamInv, StreamTypes
<1>2. IsPrefix(taken, stream)
  <2>1. IsPrefix(taken \o inbox, stream)
    BY <1>1, PrefixOfConcat, Zenon DEF StreamInv, Flow, Whole
  <2> QED
    BY <1>1, <2>1, PrefixOfConcat
<1>3. peer = "open" => taken \o inbox \o coming = stream
  BY DEF StreamInv, Flow, Whole
<1>4. ASSUME call = Idle, returned.op \in Reads
      PROVE /\ returned.data = Since(returned.mark)
            /\ returned.op # "receive_line" => (returned.ok <=> Len(returned.data) = returned.size)
            /\ returned.op = "receive_line" =>
                 /\ Len(returned.data) <= returned.size
                 /\ returned.ok <=> Contains(returned.data, "lf")
                 /\ \A k \in 1..Len(returned.data) - 1: returned.data[k] # "lf"
  <2> DEFINE d == returned.data
  <2>1. /\ d \in Seq(Bytes) /\ d = Since(returned.mark)
        /\ RightResult(returned.op, returned.ok, d, returned.size)
    BY <1>4 DEF StreamInv, Delivered
  <2> HIDE DEF d
  <2> QED
    BY <2>1 DEF RightResult, Contains, d
<1> QED
  BY <1>2, <1>3, <1>4 DEF ReadsAreExact, Reads

\* Whatever the sizes of the buffers and of what is peeked at, however the peer's
\* stream comes in pieces, ends or is reset, and wherever a call is interrupted:
\* nothing of the stream is lost, repeated or reordered, and the result of a
\* ReceiveAll or ReceiveLine tells whether the buffer or the line is complete.
THEOREM ReadsAreExactCorrect == Spec => []ReadsAreExact
BY StreamInitInv, StreamNextInv, StreamInvExact, PTL DEF Spec

\* The variables keep their types.
LEMMA StreamTypesCorrect == Spec => []StreamTypes
<1>1. StreamInv => StreamTypes
  BY DEF StreamInv
<1> QED
  BY <1>1, StreamInitInv, StreamNextInv, PTL DEF Spec

\* A Connect with a timeout gives the handle back its mode on every path, and is
\* true exactly if the connection was up when it looked.
THEOREM ConnectIsCleanCorrect == Spec => ConnectIsClean
<1>1. ASSUME StreamTypes, [Next]_socket_vars
      PROVE [call.op = "timed_connect" /\ call' = Idle =>
               blocking' = call.mode /\ (returned'.ok <=> link = "up" /\ call.pc = "wait")]_socket_vars
  <2> SUFFICES ASSUME Next, call.op = "timed_connect", call' = Idle
               PROVE blocking' = call.mode /\ (returned'.ok <=> link = "up" /\ call.pc = "wait")
    BY <1>1
  <2>1. call \in CallRecords /\ call # Idle
    BY <1>1, CallOrIdle
  <2>2. \A pc \in {"wait", "connecting"}: [call EXCEPT !.pc = pc] # Idle
    BY <2>1 DEF CallRecords, Idle
  <2>3. CASE TimedConnect
    BY <2>2, <2>3 DEF TimedConnect, TimedConnectDone, Return
  <2>4. CASE TimedConnectWait
    BY <2>4 DEF TimedConnectWait, TimedConnectDone, Return
  <2>5. CASE Kernel
    BY <2>1, <2>5 DEF Kernel, Establish, Refuse, Arrive, PeerClose, PeerReset
  <2> QED
    BY <2>1, <2>3, <2>4, <2>5 DEF Next, Step, Connect, ConnectBlocked, Receive, ReceiveAll, TimedReceiveAll,
       PeekLine, ReceiveLine, SendAll, Begin, NoRestart, StreamSetBlocking, Untimed
<1> QED
  BY <1>1, StreamTypesCorrect, PTL DEF Spec, ConnectIsClean
=============================================================================
