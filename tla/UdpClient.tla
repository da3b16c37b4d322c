------------------------------ MODULE UdpClient ------------------------------
(***************************************************************************)
(* udp_client (src/udp_client.cpp) over dgram_socket (src/socket.cpp), for *)
(* a set of clients that share the descriptor table of lwIP.  Each client  *)
(* is used by one task; one step is one call into lwIP, since another task *)
(* may call lwIP in between.  lwIP itself is outside the repository: it is *)
(* a table of descriptors, each with an owner, a mailbox once bound, and   *)
(* perhaps a group membership.  It may refuse a socket, a bind or a join.  *)
(***************************************************************************)
EXTENDS Integers, Sequences, FiniteSets

CONSTANTS
  Clients,       \* udp_client objects, each with its own port and group
  MaxSockets,    \* CONFIG_LWIP_MAX_SOCKETS
  MailLimit,     \* CONFIG_LWIP_UDP_RECVMBOX_SIZE
  Commands,      \* the command of a datagram; "empty" for one without bytes
  NoOne,         \* the owner of a free descriptor
  MaxArrivals    \* bound: datagrams the network brings

ASSUME UdpAssumption ==
  /\ NoOne \notin Clients
  /\ MaxSockets \in Nat \ {0} /\ MailLimit \in Nat \ {0}
  /\ MaxArrivals \in Nat

VARIABLES
  owner, bound, member, mail,  \* lwIP: per descriptor
  m_dramSocket,                \* m_iHandle of the socket object, or nullptr
  m_bIsConnected,
  m_bIsMulticast,              \* set once, by setup_multicast
  step, again,                 \* where a call is; was it reconnect?
  arrived, received, lost,     \* histories: datagrams are numbered on arrival
  refused                      \* history: what lwIP has refused the client

lwip   == <<owner, bound, member, mail>>
client == <<m_dramSocket, m_bIsConnected, m_bIsMulticast>>
past   == <<arrived, received, lost, refused>>
uvars  == <<lwip, client, step, again, past>>

Descriptors == 0..(MaxSockets - 1)
nullptr  == -2
NoHandle == -1

UInit ==
  /\ owner = [d \in Descriptors |-> NoOne]
  /\ bound = {} /\ member = {}
  /\ mail = [d \in Descriptors |-> << >>]
  /\ m_dramSocket = [c \in Clients |-> nullptr]
  /\ m_bIsConnected = [c \in Clients |-> FALSE]
  /\ m_bIsMulticast \in [Clients -> BOOLEAN]
  /\ step = [c \in Clients |-> "idle"]
  /\ again = [c \in Clients |-> FALSE]
  /\ arrived = 0
  /\ received = [c \in Clients |-> << >>]
  /\ lost = {}
  /\ refused = [c \in Clients |-> {}]

-------------------------------------------------------------------------------
(***************************************************************************)
(* lwIP, as src/socket.cpp uses it.                                        *)
(***************************************************************************)
Free      == {d \in Descriptors : owner[d] = NoOne}
IsOpen(d) == d \in Descriptors /\ owner[d] # NoOne
Ids(q)    == {q[i].id : i \in 1..Len(q)}
Refuse(c, what) == refused' = [refused EXCEPT ![c] = @ \cup {what}]

(* lwip_close: closing what is not open is an error without effect. *)
lwip_close(d) ==
  IF IsOpen(d)
  THEN /\ owner' = [owner EXCEPT ![d] = NoOne]
       /\ bound' = bound \ {d} /\ member' = member \ {d}
       /\ mail' = [mail EXCEPT ![d] = << >>]
       /\ lost' = lost \cup Ids(mail[d])
  ELSE UNCHANGED <<lwip, lost>>

(* Sockets bound to the client's port; a group is joined for the interface. *)
Listens(c, d) ==
  /\ d \in bound /\ owner[d] = c
  /\ m_bIsMulticast[c] => \E e \in member : owner[e] = c

(* The network brings a datagram; a full mailbox drops it. *)
Arrive(c, cmd) ==
  LET takers == {d \in Descriptors : Listens(c, d) /\ Len(mail[d]) < MailLimit}
      packet == [id |-> arrived + 1, command |-> cmd]
  IN
  /\ arrived < MaxArrivals
  /\ arrived' = arrived + 1
  /\ mail' = [d \in Descriptors |->
                IF d \in takers THEN Append(mail[d], packet) ELSE mail[d]]
  /\ lost' = IF takers = {} THEN lost \cup {arrived + 1} ELSE lost
  /\ UNCHANGED <<owner, bound, member, client, step, again, received, refused>>

-------------------------------------------------------------------------------
(***************************************************************************)
(* connect: refused while connected; else a new socket, then bind.  A      *)
(* socket object kept from a bind that failed is overwritten.              *)
(***************************************************************************)
connect_Always(c, from) ==                   \* fault: the early return is left out
  /\ step[c] = from
  /\ step' = [step EXCEPT ![c] = "create"]
  /\ UNCHANGED <<lwip, client, again, past>>

connect(c, from) ==
  /\ step[c] = from
  /\ step' = [step EXCEPT ![c] = IF m_bIsConnected[c] THEN "idle" ELSE "create"]
  /\ UNCHANGED <<lwip, client, again, past>>

create_socket(c) ==
  /\ step[c] = "create"
  /\ step' = [step EXCEPT ![c] = "bind"]
  /\ \/ /\ Free # {}
        /\ \E d \in Free :
             /\ \A e \in Free : d =< e
             /\ owner' = [owner EXCEPT ![d] = c]
             /\ m_dramSocket' = [m_dramSocket EXCEPT ![c] = d]
        /\ UNCHANGED refused
     \/ /\ m_dramSocket' = [m_dramSocket EXCEPT ![c] = NoHandle]
        /\ Refuse(c, "socket")
        /\ UNCHANGED owner
  /\ UNCHANGED <<bound, member, mail, m_bIsConnected, m_bIsMulticast, again,
                 arrived, received, lost>>

bind_NoCheck(c) ==                           \* fault: m_iHandle == -1 is not asked
  /\ step[c] = "bind"
  /\ step' = [step EXCEPT ![c] = "idle"]
  /\ bound' = bound \cup {m_dramSocket[c]}
  /\ m_bIsConnected' = [m_bIsConnected EXCEPT ![c] = TRUE]
  /\ UNCHANGED <<owner, member, mail, m_dramSocket, m_bIsMulticast, again, past>>

bind(c) ==
  /\ step[c] = "bind"
  /\ step' = [step EXCEPT ![c] = "idle"]
  /\ \/ /\ IsOpen(m_dramSocket[c])
        /\ bound' = bound \cup {m_dramSocket[c]}
        /\ m_bIsConnected' = [m_bIsConnected EXCEPT ![c] = TRUE]
        /\ UNCHANGED refused
     \/ /\ m_bIsConnected' = [m_bIsConnected EXCEPT ![c] = FALSE]
        /\ Refuse(c, "bind")
        /\ UNCHANGED bound
  /\ UNCHANGED <<owner, member, mail, m_dramSocket, m_bIsMulticast, again,
                 arrived, received, lost>>

(***************************************************************************)
(* disconnect closes the descriptor twice, in close() and in the           *)
(* destructor; the number may belong to someone else the second time.      *)
(***************************************************************************)
disconnect(c, re) ==
  /\ step[c] = "idle"
  /\ m_bIsConnected[c]
  /\ step' = [step EXCEPT ![c] = "close"]
  /\ again' = [again EXCEPT ![c] = re]
  /\ UNCHANGED <<lwip, client, past>>

close(c) ==
  /\ step[c] = "close"
  /\ lwip_close(m_dramSocket[c])
  /\ step' = [step EXCEPT ![c] = "delete"]
  /\ UNCHANGED <<client, again, arrived, received, refused>>

delete_StillConnected(c) ==                  \* fault: m_bIsConnected is not reset
  /\ step[c] = "delete"
  /\ lwip_close(m_dramSocket[c])
  /\ m_dramSocket' = [m_dramSocket EXCEPT ![c] = nullptr]
  /\ step' = [step EXCEPT ![c] = IF again[c] THEN "again" ELSE "idle"]
  /\ UNCHANGED <<m_bIsConnected, m_bIsMulticast, again, arrived, received, refused>>

delete_Only(c) ==                            \* fault: reconnect does not connect
  /\ step[c] = "delete"
  /\ lwip_close(m_dramSocket[c])
  /\ m_dramSocket' = [m_dramSocket EXCEPT ![c] = nullptr]
  /\ m_bIsConnected' = [m_bIsConnected EXCEPT ![c] = FALSE]
  /\ step' = [step EXCEPT ![c] = "idle"]
  /\ UNCHANGED <<m_bIsMulticast, again, arrived, received, refused>>

delete(c) ==
  /\ step[c] = "delete"
  /\ lwip_close(m_dramSocket[c])
  /\ m_dramSocket' = [m_dramSocket EXCEPT ![c] = nullptr]
  /\ m_bIsConnected' = [m_bIsConnected EXCEPT ![c] = FALSE]
  /\ step' = [step EXCEPT ![c] = IF again[c] THEN "again" ELSE "idle"]
  /\ UNCHANGED <<m_bIsMulticast, again, arrived, received, refused>>

(* The steps of connect, disconnect and reconnect after the first. *)
CallStep(c) ==
  connect(c, "again") \/ create_socket(c) \/ bind(c) \/ close(c) \/ delete(c)

(***************************************************************************)
(* The group calls work on the socket object, bound or not; they may not   *)
(* be made before the first connect.                                       *)
(***************************************************************************)
join_multicast_group(c) ==
  /\ step[c] = "idle"
  /\ m_dramSocket[c] # nullptr
  /\ \/ /\ IsOpen(m_dramSocket[c])
        /\ member' = member \cup {m_dramSocket[c]}
        /\ UNCHANGED refused
     \/ Refuse(c, "join") /\ UNCHANGED member
  /\ UNCHANGED <<owner, bound, mail, client, step, again, arrived, received, lost>>

left_multicast_group(c) ==
  /\ step[c] = "idle"
  /\ m_dramSocket[c] # nullptr
  /\ member' = member \ {m_dramSocket[c]}
  /\ UNCHANGED <<owner, bound, mail, client, step, again, past>>

(***************************************************************************)
(* available() > 0, and receive when it is.  FIONREAD counts the bytes     *)
(* that wait: a datagram without any does not add to them.                 *)
(***************************************************************************)
HasBytes(p) == p.command # "empty"

Available_Counts(c) ==                       \* fault: datagrams instead of bytes
  IsOpen(m_dramSocket[c]) /\ mail[m_dramSocket[c]] # << >>

Available(c) ==
  LET d == m_dramSocket[c] IN
  IsOpen(d) /\ \E i \in 1..Len(mail[d]) : HasBytes(mail[d][i])

Packet(c) == Head(mail[m_dramSocket[c]])

receive_Peeks(c) ==                          \* fault: MSG_PEEK instead of None
  /\ step[c] = "idle"
  /\ m_bIsConnected[c]
  /\ Available(c)
  /\ received' = [received EXCEPT ![c] = Append(@, Packet(c).id)]
  /\ UNCHANGED <<lwip, client, step, again, arrived, lost, refused>>

receive(c) ==
  /\ step[c] = "idle"
  /\ m_bIsConnected[c]
  /\ Available(c)
  /\ mail' = [mail EXCEPT ![m_dramSocket[c]] = Tail(@)]
  /\ received' = [received EXCEPT ![c] = Append(@, Packet(c).id)]
  /\ UNCHANGED <<owner, bound, member, client, step, again, arrived, lost, refused>>

UNext ==
  \E c \in Clients :
    \/ connect(c, "idle") \/ disconnect(c, FALSE) \/ disconnect(c, TRUE)
    \/ CallStep(c)
    \/ join_multicast_group(c) \/ left_multicast_group(c)
    \/ receive(c)
    \/ \E cmd \in Commands : Arrive(c, cmd)

USpec == UInit /\ [][UNext]_uvars

-------------------------------------------------------------------------------
(***************************************************************************)
(* Types; a mailbox holds at most MailLimit datagrams.                     *)
(***************************************************************************)
Packets == [id : 1..MaxArrivals, command : Commands]

UTypeOK ==
  /\ owner \in [Descriptors -> Clients \cup {NoOne}]
  /\ bound \subseteq Descriptors /\ member \subseteq Descriptors
  /\ mail \in [Descriptors -> Seq(Packets)]
  /\ \A d \in Descriptors : Len(mail[d]) =< MailLimit
  /\ m_dramSocket \in [Clients -> Descriptors \cup {NoHandle, nullptr}]
  /\ m_bIsConnected \in [Clients -> BOOLEAN]
  /\ m_bIsMulticast \in [Clients -> BOOLEAN]
  /\ step \in [Clients -> {"idle", "create", "bind", "close", "delete", "again"}]
  /\ again \in [Clients -> BOOLEAN]
  /\ arrived \in 0..MaxArrivals
  /\ received \in [Clients -> Seq(1..MaxArrivals)]
  /\ lost \subseteq 1..MaxArrivals
  /\ refused \in [Clients -> SUBSET {"socket", "bind", "join"}]

(***************************************************************************)
(* No datagrams pile up where nobody reads: a descriptor a client has let  *)
(* go of (connect overwrites the socket of a failed bind) is not bound.    *)
(***************************************************************************)
NoOrphanListens ==
  \A d \in bound : m_dramSocket[owner[d]] = d

(***************************************************************************)
(* Between two calls a connected client has a socket of its own, open and  *)
(* bound.  With several clients the second close of disconnect breaks it.  *)
(***************************************************************************)
ConnectedIsBound ==
  \A c \in Clients :
    step[c] = "idle" /\ m_bIsConnected[c]
      => /\ m_dramSocket[c] \in bound
         /\ owner[m_dramSocket[c]] = c
===============================================================================
