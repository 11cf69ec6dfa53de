------------------------------ MODULE Sockets -------------------------------
(***************************************************************************)
(* Descriptors of sockets, their addresses, and how names are resolved.    *)
(***************************************************************************)
EXTENDS Integers, FiniteSets, FiniteSetsExt, Sequences

(***************************************************************************)
(* The handles of Socket and its classes (system/net/socket.cpp,           *)
(* socket.inl): who closes which descriptor, and what was set on it.  The  *)
(* kernel gives out the lowest number that is free, so a number that was   *)
(* closed is soon another socket.                                          *)
(***************************************************************************)
CONSTANTS
  Objects,      \* of Socket's classes
  MaxFd,        \* bound on the descriptors: beyond it there are none (EMFILE)
  MaxOpened     \* bound on the sockets and connections that are made

ASSUME DescriptorAssumption == MaxFd \in Nat

VARIABLES
  m_handle,     \* of every object, or Invalid; Unborn for one that is not constructed
  open,         \* the descriptors of the process and what is set on each
  asked,        \* what was set through every object since it has its handle
  held,         \* the same of those that callers have, from Detach
  serial,       \* how many sockets were made
  stray         \* how often a number was closed that was not open

handle_vars == <<m_handle, open, asked, held, serial, stray>>

Invalid == -1
Unborn  == -2
Fds     == 0..MaxFd - 1
Closed  == [serial |-> 0]
Fresh   == [serial |-> serial + 1, cloexec |-> FALSE, blocking |-> TRUE, option |-> 0]

IsValid(o) == m_handle[o] \in Fds
Used       == {fd \in Fds: open[fd] # Closed}
Held       == {fd \in Fds: held[fd] # Closed}
Lowest     == Min(Fds \ Used)

\* closesocket: close, of a number that may be no descriptor.
Closes(fds) == /\ open' = [fd \in Fds |-> IF fd \in fds THEN Closed ELSE open[fd]]
               /\ stray' = stray + Cardinality({fd \in fds \cap Fds: open[fd] = Closed})

Handle(o, h) == m_handle' = [m_handle EXCEPT ![o] = h]
Forget(o)    == asked' = [asked EXCEPT ![o] = Closed]

\* socket() after the descriptors in fds are closed: a new one, or none.
Makes(o, fds, failed) ==
  \/ /\ serial < MaxOpened /\ Fds \ (Used \ fds) # {}
     /\ \E fd \in {Min(Fds \ (Used \ fds))}:
          /\ open' = [f \in Fds |-> IF f = fd THEN Fresh ELSE IF f \in fds THEN Closed ELSE open[f]]
          /\ Handle(o, fd)
     /\ asked' = [asked EXCEPT ![o] = Fresh]
     /\ serial' = serial + 1
     /\ stray' = stray + Cardinality({fd \in fds: open[fd] = Closed})
  \/ Closes(fds) /\ Handle(o, failed) /\ Forget(o) /\ UNCHANGED serial

\* The constructors that make a socket throw when there is none; that of a
\* ListenerSocket also when it cannot bind, and ~Socket closes what was made.
Construct(o) ==
  /\ m_handle[o] = Unborn
  /\ \/ Handle(o, Invalid) /\ UNCHANGED <<open, asked, serial, stray>>
     \/ Makes(o, {}, Unborn)
     \/ /\ serial < MaxOpened /\ Used # Fds          \* made, not bound and closed
        /\ serial' = serial + 1 /\ UNCHANGED <<m_handle, open, asked, stray>>
  /\ UNCHANGED held

Create(o) == /\ m_handle[o] # Unborn
             /\ Makes(o, {m_handle[o]} \cap Fds, Invalid)
             /\ UNCHANGED held

\* Faulty: the handle is kept.
CloseKeeps(o) ==
  /\ m_handle[o] # Unborn
  /\ Closes({m_handle[o]} \cap Fds)
  /\ UNCHANGED <<m_handle, held, asked, serial>>

Close(o) ==
  /\ m_handle[o] # Unborn
  /\ Closes({m_handle[o]} \cap Fds) /\ Handle(o, Invalid)
  /\ Forget(o) /\ UNCHANGED <<held, serial>>

Destroy(o) ==
  /\ m_handle[o] # Unborn
  /\ Closes({m_handle[o]} \cap Fds) /\ Handle(o, Unborn)
  /\ Forget(o) /\ UNCHANGED <<held, serial>>

\* The handle of this object, none, or one that the caller has.
Attach(o, handle) ==
  /\ m_handle[o] # Unborn
  /\ IF handle # m_handle[o]
       THEN Closes({m_handle[o]} \cap Fds) /\ Handle(o, handle)
       ELSE UNCHANGED <<m_handle, open, stray>>
  /\ IF handle \in Held
       THEN asked' = [asked EXCEPT ![o] = held[handle]] /\ held' = [held EXCEPT ![handle] = Closed]
       ELSE (IF handle = m_handle[o] THEN UNCHANGED asked ELSE Forget(o)) /\ UNCHANGED held
  /\ UNCHANGED serial

Detach(o) ==
  /\ m_handle[o] # Unborn
  /\ Handle(o, Invalid)
  /\ held' = [fd \in Fds |-> IF fd = m_handle[o] THEN asked[o] ELSE held[fd]]
  /\ Forget(o) /\ UNCHANGED <<open, serial, stray>>

\* accept makes the new descriptor before Attach closes the one the object has.
Accept(listener, o) ==
  /\ IsValid(listener) /\ m_handle[o] # Unborn /\ o # listener
  /\ serial < MaxOpened /\ Used # Fds
  /\ open' = [fd \in Fds |-> IF fd = Lowest THEN Fresh
                             ELSE IF fd = m_handle[o] THEN Closed ELSE open[fd]]
  /\ stray' = stray + Cardinality({fd \in {m_handle[o]} \cap Fds: open[fd] = Closed})
  /\ Handle(o, Lowest)
  /\ asked' = [asked EXCEPT ![o] = Fresh]
  /\ serial' = serial + 1
  /\ UNCHANGED held

\* SetCloexec, SetBlocking and SetOption change one thing and keep the others.
Sets(o, new(_)) ==
  /\ IsValid(o) /\ open[m_handle[o]] # Closed
  /\ open' = [open EXCEPT ![m_handle[o]] = new(@)]
  /\ asked' = [asked EXCEPT ![o] = new(@)]
  /\ UNCHANGED <<m_handle, held, serial, stray>>

SetCloexec(o, value)  == Sets(o, LAMBDA s: [s EXCEPT !.cloexec = value])
SetBlocking(o, value) == Sets(o, LAMBDA s: [s EXCEPT !.blocking = value])
SetOption(o, value)   == Sets(o, LAMBDA s: [s EXCEPT !.option = value])

\* A caller closes what it detached.
CallerCloses(fd) ==
  /\ Closes({fd}) /\ held' = [held EXCEPT ![fd] = Closed]
  /\ UNCHANGED <<m_handle, asked, serial>>

HandleInit ==
  /\ m_handle = [o \in Objects |-> Unborn]
  /\ open = [fd \in Fds |-> Closed] /\ held = [fd \in Fds |-> Closed]
  /\ asked = [o \in Objects |-> Closed]
  /\ serial = 0 /\ stray = 0

HandleNext ==
  \/ \E o \in Objects: \/ Construct(o) \/ Create(o) \/ Close(o) \/ Destroy(o) \/ Detach(o)
                       \/ \E h \in Held \cup {Invalid, m_handle[o]}: Attach(o, h)
                       \/ \E l \in Objects: Accept(l, o)
                       \/ \E b \in BOOLEAN: SetCloexec(o, b) \/ SetBlocking(o, b)
                       \/ SetOption(o, 1)
  \/ \E fd \in Held: CallerCloses(fd)

HandleSpec == HandleInit /\ [][HandleNext]_handle_vars
-----------------------------------------------------------------------------
Owned(o) == {m_handle[o]} \cap Fds

\* Every open descriptor belongs to one object or one caller, who finds on it what
\* was set through that object, and nothing else: none is left open when its object
\* is closed, replaced, attached over or destroyed, none is closed twice, and the
\* number of a closed one never leads to the socket that has it now.
HandlesAccounted ==
  /\ stray = 0
  /\ Used = Held \cup UNION {Owned(o): o \in Objects}
  /\ \A o \in Objects: /\ Owned(o) \cap Held = {}
                       /\ \A p \in Objects \ {o}: Owned(o) \cap Owned(p) = {}
                       /\ IsValid(o) => open[m_handle[o]] = asked[o]
  /\ \A fd \in Held: open[fd] = held[fd]

-----------------------------------------------------------------------------
(***************************************************************************)
(* The socket addresses (system/net/socket_address.h, .cpp): objects of    *)
(* several classes that hold a family and an address of it in the same     *)
(* memory, parsed from text, cleared, and copied to each other.  Memory is *)
(* a sequence of cells: the family, then the four bytes of an IPv4 address *)
(* as one cell and the port, or the characters of a path.                  *)
(***************************************************************************)
CONSTANTS
  ByteMod,      \* 256
  PortMod,      \* 65536
  Capacity,     \* cells of a path: sizeof(sun_path)
  InetTexts,    \* what is parsed: records of a byte, a port and whether more follows
  Paths         \* and sequences of characters

VARIABLES
  memory,       \* the cells of each object
  m_length,     \* of the SocketAddressStorage
  last          \* the last operation

address_vars == <<memory, m_length, last>>

AddressObjects == {"inet4", "inet", "unix", "storage"}
UNSPEC  == 0
INET    == 1
UNIX    == 2
Nul     == 0
Slash   == 1
AddressAt      == 2
Letter  == 3

Cells(o) == CASE o = "inet4" -> 3 [] o = "inet" -> 3 [] OTHER -> 1 + Capacity

Family(o) == memory[o][1]

Cleared(o, family) == [i \in 1..Cells(o) |-> IF i = 1 THEN family ELSE Nul]
OwnFamily(o) == CASE o = "inet4" -> INET [] o = "unix" -> UNIX [] OTHER -> UNSPEC

\* The text of a path: the characters before the first zero.
PathLength(m) == IF \E i \in 2..Len(m): m[i] = Nul THEN Min({i \in 2..Len(m): m[i] = Nul}) - 2 ELSE Len(m) - 1
Path(m)       == SubSeq(m, 2, 1 + PathLength(m))

\* What is copied, in cells: the path without its zero.
Length(o) == CASE o = "storage" -> m_length
               [] o = "unix"    -> 1 + PathLength(memory[o])
               [] OTHER         -> 3

DoToString(m) == CASE m[1] = INET -> <<"inet", m[2], m[3]>>
                   [] m[1] = UNIX -> <<"unix", Path(m)>>
                   [] OTHER       -> <<>>
Text(o) == DoToString(memory[o])

\* ParseSocketAddress4: four bytes in their range, and a port, which is not
\* checked and put into 16 bits.
ParseSocketAddress4(t) == ~t.extra /\ t.byte \in 0..ByteMod - 1
InetCells(t) == <<INET, t.byte, t.port % PortMod>>

\* A path begins with a slash, or '@' and one, and leaves room for its zero.
ParseUnix(p) == /\ Head(p) = Slash \/ (Head(p) = AddressAt /\ Len(p) > 1 /\ p[2] = Slash)
                /\ Len(p) + 1 <= Capacity

Overwrite(m, cells) == cells \o SubSeq(m, Len(cells) + 1, Len(m))
SetMemory(o, m)     == memory' = [memory EXCEPT ![o] = m]

-----------------------------------------------------------------------------
Parsed(o, ok, text) == [op |-> "parse", to |-> o, ok |-> ok, text |-> text]

ParseInet(o, t) ==
  /\ IF ParseSocketAddress4(t) THEN SetMemory(o, Overwrite(memory[o], InetCells(t))) ELSE UNCHANGED memory
  /\ m_length' = IF o = "storage" /\ ParseSocketAddress4(t) THEN 3 ELSE m_length
  /\ last' = Parsed(o, ParseSocketAddress4(t), <<"inet", t.byte, t.port % PortMod>>)

\* Faulty: the path is put down without its zero.
ParsePathUnterminated(p) ==
  /\ IF ParseUnix(p) THEN SetMemory("unix", Overwrite(memory["unix"], <<UNIX>> \o p)) ELSE UNCHANGED memory
  /\ last' = Parsed("unix", ParseUnix(p), <<"unix", p>>)
  /\ UNCHANGED m_length

ParsePath(p) ==
  /\ IF ParseUnix(p) THEN SetMemory("unix", Overwrite(memory["unix"], <<UNIX>> \o p \o <<Nul>>)) ELSE UNCHANGED memory
  /\ last' = Parsed("unix", ParseUnix(p), <<"unix", p>>)
  /\ UNCHANGED m_length

\* A storage parses a path by copying a new SocketAddressUnix, without its zero.
ParseStoragePath(p) ==
  /\ IF ParseUnix(p) THEN SetMemory("storage", Overwrite(memory["storage"], <<UNIX>> \o p)) ELSE UNCHANGED memory
  /\ m_length' = IF ParseUnix(p) THEN 1 + Len(p) ELSE m_length
  /\ last' = [op |-> "none"]

Clear(o) ==
  /\ SetMemory(o, Cleared(o, OwnFamily(o)))
  /\ last' = [op |-> "none"] /\ UNCHANGED m_length

Copied(o, from) == Overwrite(memory[o], SubSeq(memory[from], 1, Length(from)))

\* operator= of the classes that have one: SocketAddressInet takes both inet
\* families, a storage everything, the others their own family.
Accepts(o, from) == \/ o = "storage"
                    \/ o \in {"inet4", "inet"} /\ Family(from) = INET
                    \/ o = "unix" /\ Family(from) = Family(o)

\* Nothing but zeros is behind what a path is copied over.
Clean(m, from) == Family(from) # UNIX \/ \A i \in Length(from) + 1..Len(m): m[i] = Nul

CopyTo(o, from, copies, op) ==
  /\ o # from /\ (from = "inet" => Family(from) = INET)
  /\ IF copies THEN SetMemory(o, Copied(o, from)) ELSE UNCHANGED memory
  /\ m_length' = IF o = "storage" THEN Length(from) ELSE m_length
  /\ last' = [op |-> op, to |-> o, from |-> from, ok |-> Accepts(o, from), clean |-> Clean(memory[o], from),
              kept |-> memory'[o] = memory[o]]

Assign(o, from) == CopyTo(o, from, Accepts(o, from), "assign")

\* CopyFrom is virtual; that of SocketAddressInet copies nothing.
CopyFrom(o, from) == CopyTo(o, from, Accepts(o, from) /\ o # "inet", "copy")

\* Inet4's Compare: the address first, then the port.
Compare(a, b) == IF a[2] # b[2] THEN a[2] - b[2] ELSE a[3] - b[3]

AddressInit == /\ memory = [o \in AddressObjects |-> Cleared(o, OwnFamily(o))]
               /\ m_length = 0
               /\ last = [op |-> "none"]

AddressNext == \/ \E t \in InetTexts, o \in AddressObjects \ {"unix"}: ParseInet(o, t)
               \/ \E p \in Paths: ParsePath(p) \/ ParseStoragePath(p)
               \/ \E o \in AddressObjects: Clear(o)
               \/ \E o, from \in AddressObjects: Assign(o, from) \/ CopyFrom(o, from)

AddressSpec == AddressInit /\ [][AddressNext]_address_vars
-----------------------------------------------------------------------------
\* The cells that are copied, with zeros behind them, and what the target keeps.
Padded(o, from) == [i \in 1..Cells(o) |-> IF i <= Length(from) THEN memory[from][i] ELSE Nul]
\* An address that was parsed prints what was parsed, with the port in its 16 bits;
\* one that was copied prints what its source holds in its length and compares equal
\* to it, whatever classes they have.  A refused operation leaves its
\* target.  Left out: a copy to a SocketAddressInet through CopyFrom, which copies
\* nothing, and one of a path over memory that is not zero behind it.
AddressesComeBack ==
  /\ last.op = "parse" /\ last.ok => Text(last.to) = last.text
  /\ last.op \in {"assign", "copy"} /\ last.ok /\ ~(last.op = "copy" /\ last.to = "inet") =>
       /\ Family(last.to) = Family(last.from)
       /\ last.clean => Text(last.to) = DoToString(Padded(last.to, last.from))
       /\ Family(last.to) = INET => Compare(memory[last.to], memory[last.from]) = 0
  /\ last.op \in {"assign", "copy"} /\ ~last.ok => last.kept

-----------------------------------------------------------------------------
(***************************************************************************)
(* The addresses of a host: HostEntry, which DomainResolver fills from     *)
(* answers of the name service (system/net/domain_resolver.cpp), and the   *)
(* lists of a host's own IpAddresses (system/net/ip_address.cpp).  An      *)
(* address is its first two bytes and a number for the others.             *)
(***************************************************************************)
CONSTANTS
  Answers,      \* of the name service: records of a name, aliases and addresses
  Addresses,    \* of the interfaces
  MaxInterfaces,\* bound on the interfaces the host has
  MaxReported,  \* how many fit in the buffer of GetLocalList
  MaxQueries    \* bound on the queries

VARIABLES
  entry,        \* the HostEntry: m_name, m_aliases, m_addresses
  history,      \* the answers it was filled with
  interfaces    \* the addresses of the interfaces, loopback included

resolver_vars == <<entry, history, interfaces>>

IsLoopback(a)  == a[1] = 127
IsPrivate(a)   == \/ a[1] = 10
                  \/ a[1] = 172 /\ a[2] \in 16..31
                  \/ a[1] = 192 /\ a[2] = 168
IsLinkLocal(a) == a[1] = 169 /\ a[2] = 254
IsPublic(a)    == ~IsPrivate(a) /\ ~IsLinkLocal(a) /\ ~IsLoopback(a)

\* What does not fit in the buffer is not reported.  An empty list is a success for
\* the local addresses alone.
GetLocalList   == SelectSeq(SubSeq(interfaces, 1, Min({Len(interfaces), MaxReported})),
                            LAMBDA a: ~IsLoopback(a))
Nonempty(s)    == [ok |-> s # <<>>, list |-> s]
GetPrivateList == Nonempty(SelectSeq(GetLocalList, IsPrivate))
GetPublicList  == Nonempty(SelectSeq(GetLocalList, IsPublic))

\* The first element of what was returned; that of an empty vector is not defined.
First(s)               == IF s = <<>> THEN "undefined" ELSE "address"
GetFirstLocalAddress   == First(GetLocalList)
GetFirstPrivateAddress == IF GetPrivateList.ok THEN First(GetPrivateList.list) ELSE "false"
GetFirstPublicAddress  == IF GetPublicList.ok THEN First(GetPublicList.list) ELSE "false"

-----------------------------------------------------------------------------
Empty == [m_name |-> "", m_aliases |-> <<>>, m_addresses |-> <<>>]

\* Faulty: an address is compared with the last one alone.
AddIpAfterOther(addresses, a) ==
  IF addresses # <<>> /\ addresses[Len(addresses)] = a THEN addresses ELSE Append(addresses, a)

\* Every address once, in the order of the answer.
AddIp(addresses, a) == IF a \in Range(addresses) THEN addresses ELSE Append(addresses, a)

AddIps(addresses, ips) ==
  LET added[n \in 0..Len(ips)] == IF n = 0 THEN addresses ELSE AddIp(added[n - 1], ips[n])
  IN added[Len(ips)]

\* Filling an entry adds to what it has of aliases and addresses.
Initialize(e, answer) ==
  [m_name      |-> answer.name,
   m_aliases   |-> e.m_aliases \o answer.aliases,
   m_addresses |-> AddIps(e.m_addresses, answer.addresses)]

Query == /\ Len(history) < MaxQueries
         /\ \E answer \in Answers: /\ entry' = Initialize(entry, answer)
                                   /\ history' = Append(history, answer)
         /\ UNCHANGED interfaces

QueryFails == UNCHANGED resolver_vars

ResolverClear == entry' = Empty /\ history' = <<>> /\ UNCHANGED interfaces

\* ResolveIpAddress asks for an entry of its own.
ResolveIpAddress(answer) == Initialize(Empty, answer).m_addresses

InterfaceUp == /\ Len(interfaces) < MaxInterfaces
               /\ \E a \in Addresses: interfaces' = Append(interfaces, a)
               /\ UNCHANGED <<entry, history>>

ResolverInit == entry = Empty /\ history = <<>> /\ interfaces = <<>>
ResolverNext == Query \/ QueryFails \/ ResolverClear \/ InterfaceUp
ResolverSpec == ResolverInit /\ [][ResolverNext]_resolver_vars
-----------------------------------------------------------------------------
\* The addresses of all the answers.
Answered ==
  LET first[n \in 0..Len(history)] == IF n = 0 THEN <<>> ELSE first[n - 1] \o history[n].addresses
  IN first[Len(history)]

\* A host entry holds each address of the answers since it was cleared once, in the
\* order in which they came; an answer adds nothing that an own query of it lacks.
\* Every address of a host is in one of its lists at most; the first of a list
\* exists whenever GetFirst... does not refuse, but for GetFirstLocalAddress of a
\* host that has only a loopback.
AddressesAreListed ==
  /\ Range(entry.m_addresses) = Range(Answered)
  /\ IsInjective(entry.m_addresses)
  /\ \A i, j \in DOMAIN entry.m_addresses: i < j =>
       LET At(a) == Min({k \in DOMAIN Answered: Answered[k] = a})
       IN At(entry.m_addresses[i]) < At(entry.m_addresses[j])
  /\ history # <<>> => Range(ResolveIpAddress(history[Len(history)])) \subseteq Range(entry.m_addresses)
  /\ Range(GetPrivateList.list) \cap Range(GetPublicList.list) = {}
  /\ GetFirstPrivateAddress # "undefined" /\ GetFirstPublicAddress # "undefined"
  /\ GetFirstLocalAddress = "undefined" => \A a \in Range(SubSeq(interfaces, 1, Min({Len(interfaces), MaxReported}))): IsLoopback(a)
=============================================================================
