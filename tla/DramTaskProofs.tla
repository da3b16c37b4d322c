--------------------------- MODULE DramTaskProofs ---------------------------
(***************************************************************************)
(* Theorems about UdpClient and DramTask.  The first half is about a       *)
(* udp_client whose owner calls it in any order; its inductive invariant   *)
(* ties the bound descriptor to where the call of the client is.  The      *)
(* second half is about dram_task: the same invariant, and where the task  *)
(* may be in which call.                                                   *)
(***************************************************************************)
EXTENDS DramTask, SequenceTheorems, TLAPS

-----------------------------------------------------------------------------
(***************************************************************************)
(* Types, for any number of clients.                                       *)
(***************************************************************************)
LEMMA IdsInRange ==
  ASSUME NEW q \in Seq(Packets)
  PROVE  Ids(q) \subseteq 1..MaxArrivals
  <1>. SUFFICES ASSUME NEW i \in 1..Len(q) PROVE q[i].id \in 1..MaxArrivals
    BY DEF Ids
  <1>1. q[i] \in Packets
    BY ElementOfSeq
  <1>. QED
    BY <1>1 DEF Packets

LEMMA RefuseTypes ==
  ASSUME UTypeOK, NEW c \in Clients, NEW what \in {"socket", "bind", "join"},
         Refuse(c, what) \/ UNCHANGED refused
  PROVE  refused' \in [Clients -> SUBSET {"socket", "bind", "join"}]
  <1>1. refused \in [Clients -> SUBSET {"socket", "bind", "join"}]
    BY DEF UTypeOK
  <1>2. refused[c] \cup {what} \in SUBSET {"socket", "bind", "join"}
    BY <1>1
  <1>. QED
    BY <1>1, <1>2 DEF Refuse

LEMMA CloseTypes ==
  ASSUME UTypeOK, NEW d, lwip_close(d)
  PROVE  /\ owner' \in [Descriptors -> Clients \cup {NoOne}]
         /\ bound' \subseteq Descriptors /\ member' \subseteq Descriptors
         /\ mail' \in [Descriptors -> Seq(Packets)]
         /\ \A e \in Descriptors : Len(mail'[e]) =< MailLimit
         /\ lost' \subseteq 1..MaxArrivals
  <1>1. CASE ~ IsOpen(d)
    BY <1>1 DEF lwip_close, lwip, UTypeOK
  <1>2. CASE IsOpen(d)
    <2>1. /\ d \in Descriptors
          /\ owner' = [owner EXCEPT ![d] = NoOne]
          /\ bound' = bound \ {d} /\ member' = member \ {d}
          /\ mail' = [mail EXCEPT ![d] = << >>]
          /\ lost' = lost \cup Ids(mail[d])
      BY <1>2 DEF lwip_close, IsOpen
    <2>2. << >> \in Seq(Packets) /\ Len(<< >>) = 0
      OBVIOUS
    <2>3. mail' \in [Descriptors -> Seq(Packets)]
          /\ \A e \in Descriptors : Len(mail'[e]) =< MailLimit
      BY <2>1, <2>2, UdpAssumption DEF UTypeOK
    <2>4. lost' \subseteq 1..MaxArrivals
      BY <2>1, IdsInRange DEF UTypeOK
    <2>. QED
      BY <2>1, <2>3, <2>4 DEF UTypeOK
  <1>. QED
    BY <1>1, <1>2

LEMMA ArriveTypes ==
  ASSUME UTypeOK, NEW c \in Clients, NEW cmd \in Commands, Arrive(c, cmd)
  PROVE  UTypeOK'
  <1> DEFINE p == [id |-> arrived + 1, command |-> cmd]
             takers == {d \in Descriptors : Listens(c, d) /\ Len(mail[d]) < MailLimit}
  <1>1. p \in Packets /\ arrived' = arrived + 1 /\ arrived' \in 1..MaxArrivals
    BY UdpAssumption DEF UTypeOK, Arrive, Packets
  <1>2. mail' = [d \in Descriptors |-> IF d \in takers THEN Append(mail[d], p) ELSE mail[d]]
    BY DEF Arrive
  <1>3. \A d \in Descriptors : mail'[d] \in Seq(Packets) /\ Len(mail'[d]) =< MailLimit
    <2>. TAKE d \in Descriptors
    <2>1. mail[d] \in Seq(Packets) /\ Len(mail[d]) \in Nat /\ Len(mail[d]) =< MailLimit
      BY DEF UTypeOK
    <2>2. Append(mail[d], p) \in Seq(Packets) /\ Len(Append(mail[d], p)) = Len(mail[d]) + 1
      BY <1>1, <2>1, AppendProperties
    <2>. QED
      BY <1>2, <2>1, <2>2, UdpAssumption
  <1>4. mail' \in [Descriptors -> Seq(Packets)]
    BY <1>2, <1>3
  <1>5. lost' \subseteq 1..MaxArrivals
    BY <1>1 DEF Arrive, UTypeOK
  <1>. QED
    BY <1>1, <1>3, <1>4, <1>5 DEF Arrive, client, UTypeOK

LEMMA CallTypes ==
  ASSUME UTypeOK, NEW c \in Clients,
         \/ \E from \in {"idle", "again"} : connect(c, from)
         \/ create_socket(c) \/ bind(c)
         \/ \E re \in BOOLEAN : disconnect(c, re)
  PROVE  UTypeOK'
  <1>1. ASSUME NEW from \in {"idle", "again"}, connect(c, from) PROVE UTypeOK'
    BY <1>1 DEF UTypeOK, connect, lwip, client, past
  <1>2. CASE create_socket(c)
    <2>1. owner' \in [Descriptors -> Clients \cup {NoOne}]
      BY <1>2 DEF UTypeOK, create_socket, Free
    <2>2. m_dramSocket' \in [Clients -> Descriptors \cup {NoHandle, nullptr}]
      BY <1>2 DEF UTypeOK, create_socket, Free
    <2>3. refused' \in [Clients -> SUBSET {"socket", "bind", "join"}]
      BY <1>2, RefuseTypes DEF create_socket
    <2>. QED
      BY <1>2, <2>1, <2>2, <2>3 DEF UTypeOK, create_socket
  <1>3. CASE bind(c)
    <2>1. bound' \subseteq Descriptors
      BY <1>3 DEF UTypeOK, bind, IsOpen
    <2>2. m_bIsConnected' \in [Clients -> BOOLEAN]
      BY <1>3 DEF UTypeOK, bind
    <2>3. refused' \in [Clients -> SUBSET {"socket", "bind", "join"}]
      BY <1>3, RefuseTypes DEF bind
    <2>. QED
      BY <1>3, <2>1, <2>2, <2>3 DEF UTypeOK, bind
  <1>4. ASSUME NEW re \in BOOLEAN, disconnect(c, re) PROVE UTypeOK'
    BY <1>4 DEF UTypeOK, disconnect, lwip, client, past
  <1>. QED
    BY <1>1, <1>2, <1>3, <1>4

LEMMA CloseDeleteTypes ==
  ASSUME UTypeOK, NEW c \in Clients, close(c) \/ delete(c)
  PROVE  UTypeOK'
  <1>1. CASE close(c)
    BY <1>1, CloseTypes DEF UTypeOK, close, client
  <1>2. CASE delete(c)
    <2>1. m_dramSocket' \in [Clients -> Descriptors \cup {NoHandle, nullptr}]
          /\ m_bIsConnected' \in [Clients -> BOOLEAN]
          /\ step' \in [Clients -> {"idle", "create", "bind", "close", "delete", "again"}]
      BY <1>2 DEF UTypeOK, delete
    <2>. QED
      BY <1>2, <2>1, CloseTypes DEF UTypeOK, delete
  <1>. QED
    BY <1>1, <1>2

LEMMA GroupTypes ==
  ASSUME UTypeOK, NEW c \in Clients, join_multicast_group(c) \/ left_multicast_group(c)
  PROVE  UTypeOK'
  <1>1. CASE join_multicast_group(c)
    <2>1. member' \subseteq Descriptors
      BY <1>1 DEF UTypeOK, join_multicast_group, IsOpen
    <2>2. refused' \in [Clients -> SUBSET {"socket", "bind", "join"}]
      BY <1>1, RefuseTypes DEF join_multicast_group
    <2>. QED
      BY <1>1, <2>1, <2>2 DEF UTypeOK, join_multicast_group, client
  <1>2. CASE left_multicast_group(c)
    BY <1>2 DEF UTypeOK, left_multicast_group, client, past
  <1>. QED
    BY <1>1, <1>2

(* What receive takes, and what it leaves. *)
LEMMA ReceiveTakes ==
  ASSUME UTypeOK, NEW c \in Clients, receive(c)
  PROVE  LET d == m_dramSocket[c] IN
         /\ d \in Descriptors /\ Len(mail[d]) \in Nat \ {0}
         /\ Packet(c) = mail[d][1] /\ Packet(c) \in Packets
         /\ mail'[d] \in Seq(Packets) /\ Len(mail'[d]) = Len(mail[d]) - 1
         /\ \A i \in 1..Len(mail'[d]) : mail'[d][i] = mail[d][i + 1]
         /\ \A e \in Descriptors : e # d => mail'[e] = mail[e]
         /\ mail' \in [Descriptors -> Seq(Packets)]
  <1> DEFINE d == m_dramSocket[c]
  <1>0. d \in Descriptors /\ \E i \in 1..Len(mail[d]) : HasBytes(mail[d][i])
    BY DEF receive, Available, IsOpen
  <1>1. d \in Descriptors /\ mail[d] # << >> /\ mail[d] \in Seq(Packets)
        /\ mail' = [mail EXCEPT ![d] = Tail(@)]
    <2>1. mail[d] \in Seq(Packets) /\ Len(mail[d]) # 0
      BY <1>0 DEF UTypeOK
    <2>. QED
      BY <1>0, <2>1 DEF receive
  <1>2. mail'[d] = Tail(mail[d]) /\ \A e \in Descriptors : e # d => mail'[e] = mail[e]
    BY <1>1 DEF UTypeOK
  <1>3. /\ Tail(mail[d]) \in Seq(Packets) /\ Len(Tail(mail[d])) = Len(mail[d]) - 1
        /\ \A i \in 1..Len(Tail(mail[d])) : Tail(mail[d])[i] = mail[d][i + 1]
        /\ Head(mail[d]) \in Packets /\ Len(mail[d]) \in Nat \ {0}
    BY <1>1, HeadTailProperties, EmptySeq
  <1>4. Head(mail[d]) = mail[d][1]
    BY <1>1
  <1>5. mail' \in [Descriptors -> Seq(Packets)]
    BY <1>1, <1>3 DEF UTypeOK
  <1>. QED
    BY <1>1, <1>2, <1>3, <1>4, <1>5 DEF Packet

LEMMA ReceiveTypes ==
  ASSUME UTypeOK, NEW c \in Clients, receive(c)
  PROVE  UTypeOK'
  <1>1. /\ m_dramSocket[c] \in Descriptors /\ Packet(c) \in Packets
        /\ mail' \in [Descriptors -> Seq(Packets)]
        /\ Len(mail'[m_dramSocket[c]]) = Len(mail[m_dramSocket[c]]) - 1
        /\ \A e \in Descriptors : e # m_dramSocket[c] => mail'[e] = mail[e]
    BY ReceiveTakes
  <1>2. \A e \in Descriptors : Len(mail'[e]) =< MailLimit
    <2>1. \A e \in Descriptors : Len(mail[e]) \in Nat /\ Len(mail[e]) =< MailLimit
      BY DEF UTypeOK
    <2>2. Len(mail'[m_dramSocket[c]]) =< MailLimit
      BY <1>1, <2>1, UdpAssumption
    <2>. QED
      BY <1>1, <2>1, <2>2
  <1>3. received' \in [Clients -> Seq(1..MaxArrivals)]
    <2>1. Packet(c).id \in 1..MaxArrivals
      BY <1>1 DEF Packets
    <2>2. received[c] \in Seq(1..MaxArrivals)
      BY DEF UTypeOK
    <2>3. Append(received[c], Packet(c).id) \in Seq(1..MaxArrivals)
      BY <2>1, <2>2, AppendProperties
    <2>. QED
      BY <2>3 DEF UTypeOK, receive
  <1>. QED
    BY <1>1, <1>2, <1>3 DEF UTypeOK, receive, client

LEMMA InitTypes == UInit => UTypeOK
  <1>. SUFFICES ASSUME UInit PROVE UTypeOK
    OBVIOUS
  <1>1. << >> \in Seq(Packets) /\ << >> \in Seq(1..MaxArrivals) /\ Len(<< >>) = 0
    OBVIOUS
  <1>2. mail \in [Descriptors -> Seq(Packets)] /\ \A d \in Descriptors : Len(mail[d]) =< MailLimit
    BY <1>1, UdpAssumption DEF UInit
  <1>3. received \in [Clients -> Seq(1..MaxArrivals)]
    BY <1>1 DEF UInit
  <1>4. arrived \in 0..MaxArrivals
    BY UdpAssumption DEF UInit
  <1>. QED
    BY <1>2, <1>3, <1>4 DEF UInit, UTypeOK

(***************************************************************************)
(* For any number of clients, in any order of calls: the types of the      *)
(* descriptor table and of the clients, no mailbox above its limit.        *)
(***************************************************************************)
THEOREM TypesOfUdpClient == USpec => []UTypeOK
  <1>1. ASSUME UTypeOK, NEW c \in Clients, CallStep(c) PROVE UTypeOK'
    BY <1>1, CallTypes, CloseDeleteTypes DEF CallStep
  <1>2. ASSUME UTypeOK, UNext PROVE UTypeOK'
    BY <1>1, <1>2, CallTypes, GroupTypes, ReceiveTypes, ArriveTypes DEF UNext
  <1>3. ASSUME UTypeOK, UNCHANGED uvars PROVE UTypeOK'
    BY <1>3 DEF UTypeOK, uvars, lwip, client, past
  <1>. QED
    BY <1>2, <1>3, InitTypes, PTL DEF USpec

-----------------------------------------------------------------------------
(***************************************************************************)
(* One client.  Only the descriptor of its socket object is ever bound,    *)
(* and it is while the client is connected, until close.                   *)
(***************************************************************************)
Attached(c) == m_bIsConnected[c] /\ step[c] \in {"idle", "close"}

BoundWhileAttached ==
  /\ \A c \in Clients : Attached(c) => bound = {m_dramSocket[c]}
  /\ \A c \in Clients : ~ Attached(c) => bound = {}
  /\ \A d \in bound : owner[d] # NoOne
  /\ \A c \in Clients : m_bIsConnected[c] => step[c] \in {"idle", "close", "delete"}

(* Datagrams wait only where somebody listens, in the order they came. *)
MailInOrder ==
  /\ \A d \in Descriptors : mail[d] # << >> => d \in bound
  /\ \A d \in Descriptors : \A i, j \in 1..Len(mail[d]) : i < j => mail[d][i].id < mail[d][j].id
  /\ \A d \in Descriptors : \A i \in 1..Len(mail[d]) : mail[d][i].id =< arrived
  /\ lost \subseteq 1..arrived
  /\ \A d \in Descriptors : \A i \in 1..Len(mail[d]) : mail[d][i].id \notin lost

UInv == UTypeOK /\ BoundWhileAttached /\ MailInOrder

(* What the run checks follows. *)
LEMMA UInvIsEnough ==
  ASSUME UInv, NEW me, Clients = {me}
  PROVE  NoOrphanListens /\ ConnectedIsBound
  <1>1. \A d \in bound : owner[d] = me /\ m_dramSocket[me] = d
    BY DEF UInv, UTypeOK, BoundWhileAttached
  <1>2. step[me] = "idle" /\ m_bIsConnected[me] => m_dramSocket[me] \in bound
    BY DEF UInv, BoundWhileAttached, Attached
  <1>. QED
    BY <1>1, <1>2 DEF NoOrphanListens, ConnectedIsBound

LEMMA UInvInit ==
  ASSUME UInit, NEW me, Clients = {me}
  PROVE  UInv
  <1>1. BoundWhileAttached
    BY DEF UInit, BoundWhileAttached, Attached
  <1>2. Len(<< >>) = 0
    OBVIOUS
  <1>3. MailInOrder
    BY <1>2 DEF UInit, MailInOrder
  <1>. QED
    BY <1>1, <1>3, InitTypes DEF UInv

(* Steps that leave the mailboxes alone and bind nothing else. *)
LEMMA MailAlone ==
  ASSUME MailInOrder, UNCHANGED <<mail, arrived, lost>>, bound \subseteq bound'
  PROVE  MailInOrder'
  BY DEF MailInOrder

LEMMA CallKeeps ==
  ASSUME UInv, NEW c, Clients = {c},
         \/ \E from \in {"idle", "again"} : connect(c, from)
         \/ create_socket(c) \/ bind(c)
         \/ \E re \in BOOLEAN : disconnect(c, re)
  PROVE  UInv'
  <1>0. UTypeOK' /\ UTypeOK /\ BoundWhileAttached /\ MailInOrder
    BY CallTypes DEF UInv
  <1>1. ASSUME NEW from \in {"idle", "again"}, connect(c, from) PROVE UInv'
    <2>1. step' = [step EXCEPT ![c] = IF m_bIsConnected[c] THEN "idle" ELSE "create"]
          /\ UNCHANGED <<owner, bound, mail, m_dramSocket, m_bIsConnected, arrived, lost>>
      BY <1>1 DEF connect, lwip, client, past
    <2>2. step[c] = from /\ step'[c] = IF m_bIsConnected[c] THEN "idle" ELSE "create"
      BY <1>0, <1>1, <2>1 DEF connect, UTypeOK
    <2>3. BoundWhileAttached'
      BY <1>0, <2>1, <2>2 DEF BoundWhileAttached, Attached
    <2>. QED
      BY <1>0, <2>1, <2>3, MailAlone DEF UInv
  <1>2. CASE create_socket(c)
    <2>1. step[c] = "create" /\ step'[c] = "bind"
          /\ UNCHANGED <<bound, mail, m_bIsConnected, arrived, lost>>
      BY <1>0, <1>2 DEF create_socket, UTypeOK
    <2>2. bound = {} /\ ~ m_bIsConnected[c]
      BY <1>0, <2>1 DEF BoundWhileAttached, Attached
    <2>3. BoundWhileAttached'
      BY <2>1, <2>2 DEF BoundWhileAttached, Attached
    <2>. QED
      BY <1>0, <2>1, <2>3, MailAlone DEF UInv
  <1>3. CASE bind(c)
    <2>1. /\ step[c] = "bind" /\ step'[c] = "idle"
          /\ UNCHANGED <<owner, mail, m_dramSocket, arrived, lost>>
      BY <1>0, <1>3 DEF bind, UTypeOK
    <2>2. bound = {}
      BY <1>0, <2>1 DEF BoundWhileAttached, Attached
    <2>3. ASSUME IsOpen(m_dramSocket[c]), bound' = bound \cup {m_dramSocket[c]},
                 m_bIsConnected' = [m_bIsConnected EXCEPT ![c] = TRUE]
          PROVE  BoundWhileAttached'
      <3>1. m_bIsConnected'[c]
        BY <1>0, <2>1, <2>3 DEF UTypeOK
      <3>2. bound' = {m_dramSocket'[c]} /\ owner'[m_dramSocket'[c]] # NoOne
        BY <2>1, <2>2, <2>3 DEF IsOpen
      <3>. QED
        BY <2>1, <3>1, <3>2 DEF BoundWhileAttached, Attached
    <2>4. ASSUME bound' = bound, m_bIsConnected' = [m_bIsConnected EXCEPT ![c] = FALSE]
          PROVE  BoundWhileAttached'
      <3>1. ~ m_bIsConnected'[c]
        BY <1>0, <2>4 DEF UTypeOK
      <3>. QED
        BY <2>2, <2>4, <3>1 DEF BoundWhileAttached, Attached
    <2>5. bound \subseteq bound' /\ BoundWhileAttached'
      BY <1>3, <2>2, <2>3, <2>4 DEF bind
    <2>. QED
      BY <1>0, <2>1, <2>5, MailAlone DEF UInv
  <1>4. ASSUME NEW re \in BOOLEAN, disconnect(c, re) PROVE UInv'
    <2>1. step[c] = "idle" /\ step'[c] = "close" /\ m_bIsConnected[c]
          /\ UNCHANGED <<owner, bound, mail, m_dramSocket, m_bIsConnected, arrived, lost>>
      BY <1>0, <1>4 DEF disconnect, lwip, client, past, UTypeOK
    <2>2. BoundWhileAttached'
      BY <1>0, <2>1 DEF BoundWhileAttached, Attached
    <2>. QED
      BY <1>0, <2>1, <2>2, MailAlone DEF UInv
  <1>. QED
    BY <1>1, <1>2, <1>3, <1>4

(* At most one mailbox has datagrams in it. *)
LEMMA OneMailbox ==
  ASSUME UInv, NEW c, Clients = {c},
         NEW d \in Descriptors, NEW e \in Descriptors, mail[d] # << >>, mail[e] # << >>
  PROVE  d = e
  BY DEF UInv, BoundWhileAttached, MailInOrder

(* What lwip_close does, whether the descriptor is open or not. *)
LEMMA CloseEmpties ==
  ASSUME UInv, NEW d, lwip_close(d)
  PROVE  /\ \A e \in Descriptors : mail'[e] = IF e = d THEN << >> ELSE mail[e]
         /\ \A e \in Descriptors : e # d => owner'[e] = owner[e]
         /\ bound' = bound \ {d}
         /\ \A id : id \in lost' <=> id \in lost \/ (d \in Descriptors /\ id \in Ids(mail[d]))
  <1>0. UTypeOK /\ BoundWhileAttached /\ MailInOrder
    BY DEF UInv
  <1>1. CASE IsOpen(d)
    BY <1>0, <1>1 DEF lwip_close, IsOpen, UTypeOK
  <1>2. CASE ~ IsOpen(d)
    <2>1. d \notin bound /\ UNCHANGED <<owner, bound, mail, lost>>
      BY <1>0, <1>2 DEF lwip_close, lwip, IsOpen, BoundWhileAttached, UTypeOK
    <2>2. d \in Descriptors => mail[d] = << >>
      BY <1>0, <2>1 DEF MailInOrder
    <2>3. d \in Descriptors => Ids(mail[d]) = {}
      BY <2>2 DEF Ids
    <2>. QED
      BY <2>1, <2>2, <2>3
  <1>. QED
    BY <1>1, <1>2

LEMMA CloseKeepsMail ==
  ASSUME UInv, NEW c, Clients = {c}, NEW d, lwip_close(d), arrived' = arrived
  PROVE  MailInOrder'
  <1>0. MailInOrder /\ UTypeOK
    BY DEF UInv
  <1>1. /\ \A e \in Descriptors : mail'[e] = IF e = d THEN << >> ELSE mail[e]
        /\ bound' = bound \ {d}
        /\ \A id : id \in lost' <=> id \in lost \/ (d \in Descriptors /\ id \in Ids(mail[d]))
    BY CloseEmpties
  <1>2. \A e \in Descriptors : mail'[e] # << >> => mail'[e] = mail[e] /\ e # d
    BY <1>1
  <1>3. \A e \in Descriptors : mail'[e] # << >> => e \in bound'
    BY <1>0, <1>1, <1>2 DEF MailInOrder
  <1>4. \A e \in Descriptors : mail'[e] = << >> => Len(mail'[e]) = 0
    BY EmptySeq
  <1>5. \A e \in Descriptors : \A i, j \in 1..Len(mail'[e]) :
          (i < j => mail'[e][i].id < mail'[e][j].id) /\ mail'[e][i].id =< arrived
    BY <1>0, <1>2, <1>4 DEF MailInOrder
  <1>6. lost' \subseteq 1..arrived
    <2>. SUFFICES ASSUME NEW id \in lost', id \notin lost PROVE id \in 1..arrived
      BY <1>0 DEF MailInOrder
    <2>1. d \in Descriptors /\ id \in Ids(mail[d])
      BY <1>1
    <2>2. PICK i \in 1..Len(mail[d]) : id = mail[d][i].id
      BY <2>1 DEF Ids
    <2>3. mail[d][i] \in Packets
      BY <1>0, <2>1, ElementOfSeq DEF UTypeOK
    <2>. QED
      BY <1>0, <2>1, <2>2, <2>3, UdpAssumption DEF MailInOrder, Packets, UTypeOK
  <1>7. \A e \in Descriptors : \A i \in 1..Len(mail'[e]) : mail'[e][i].id \notin lost'
    <2>. SUFFICES ASSUME NEW e \in Descriptors, NEW i \in 1..Len(mail'[e])
                  PROVE  mail'[e][i].id \notin lost'
      OBVIOUS
    <2>1. mail'[e] # << >> /\ e # d /\ mail'[e] = mail[e]
      BY <1>2, <1>4
    <2>2. d \in Descriptors => mail[d] = << >>
      BY <2>1, OneMailbox
    <2>3. d \in Descriptors => Ids(mail[d]) = {}
      BY <2>2 DEF Ids
    <2>. QED
      BY <1>0, <1>1, <2>1, <2>3 DEF MailInOrder
  <1>. QED
    BY <1>3, <1>5, <1>6, <1>7 DEF MailInOrder

LEMMA CloseDeleteKeep ==
  ASSUME UInv, NEW c, Clients = {c}, close(c) \/ delete(c)
  PROVE  UInv'
  <1>0. UTypeOK' /\ UTypeOK /\ BoundWhileAttached
    BY CloseDeleteTypes DEF UInv
  <1>1. lwip_close(m_dramSocket[c]) /\ arrived' = arrived
    BY DEF close, delete
  <1>2. /\ bound' = bound \ {m_dramSocket[c]}
        /\ \A e \in Descriptors : e # m_dramSocket[c] => owner'[e] = owner[e]
    BY <1>1, CloseEmpties
  <1>3. bound' = {}
    BY <1>0, <1>2 DEF BoundWhileAttached
  <1>4. /\ step'[c] \in {"delete", "again", "idle"}
        /\ m_bIsConnected'[c] => step'[c] = "delete"
    BY <1>0 DEF close, delete, client, UTypeOK
  <1>5. BoundWhileAttached'
    BY <1>3, <1>4 DEF BoundWhileAttached, Attached
  <1>. QED
    BY <1>0, <1>1, <1>5, CloseKeepsMail DEF UInv

LEMMA GroupKeeps ==
  ASSUME UInv, NEW c, Clients = {c}, join_multicast_group(c) \/ left_multicast_group(c)
  PROVE  UInv'
  <1>1. UTypeOK' /\ UNCHANGED <<owner, bound, mail, m_dramSocket, m_bIsConnected, step, arrived, lost>>
    BY GroupTypes DEF UInv, join_multicast_group, left_multicast_group, client, past
  <1>2. BoundWhileAttached'
    BY <1>1 DEF UInv, BoundWhileAttached, Attached
  <1>. QED
    BY <1>1, <1>2, MailAlone DEF UInv

LEMMA ReceiveKeeps ==
  ASSUME UInv, NEW c, Clients = {c}, receive(c)
  PROVE  UInv'
  <1> DEFINE d == m_dramSocket[c]
  <1>0. UTypeOK /\ UTypeOK' /\ MailInOrder /\ c \in Clients
    BY ReceiveTypes DEF UInv
  <1>1. UNCHANGED <<owner, bound, m_dramSocket, m_bIsConnected, step, arrived, lost>>
    BY DEF receive, client
  <1>2. /\ d \in Descriptors /\ Len(mail[d]) \in Nat \ {0}
        /\ Len(mail'[d]) = Len(mail[d]) - 1
        /\ \A i \in 1..Len(mail'[d]) : mail'[d][i] = mail[d][i + 1]
        /\ \A e \in Descriptors : e # d => mail'[e] = mail[e]
    BY <1>0, ReceiveTakes
  <1>3. BoundWhileAttached'
    BY <1>1 DEF UInv, BoundWhileAttached, Attached
  <1>4. \A i \in 1..Len(mail'[d]) : i + 1 \in 1..Len(mail[d])
    BY <1>2
  <1>5. \A i, j \in 1..Len(mail'[d]) :
          /\ i < j => mail'[d][i].id < mail'[d][j].id
          /\ mail'[d][i].id =< arrived /\ mail'[d][i].id \notin lost
    <2>. SUFFICES ASSUME NEW i \in 1..Len(mail'[d]), NEW j \in 1..Len(mail'[d])
                  PROVE  /\ i < j => mail[d][i + 1].id < mail[d][j + 1].id
                         /\ mail[d][i + 1].id =< arrived /\ mail[d][i + 1].id \notin lost
      BY <1>2
    <2>1. i + 1 \in 1..Len(mail[d]) /\ j + 1 \in 1..Len(mail[d]) /\ (i < j => i + 1 < j + 1)
      BY <1>4, <1>2
    <2>. QED
      BY <1>0, <1>2, <2>1 DEF MailInOrder
  <1>6. mail[d] # << >>
    BY DEF receive, Available
  <1>7. MailInOrder'
    BY <1>0, <1>1, <1>2, <1>5, <1>6 DEF MailInOrder
  <1>. QED
    BY <1>0, <1>3, <1>7 DEF UInv

LEMMA ArriveKeeps ==
  ASSUME UInv, NEW c, Clients = {c}, NEW cmd \in Commands, Arrive(c, cmd)
  PROVE  UInv'
  <1> DEFINE p == [id |-> arrived + 1, command |-> cmd]
             takers == {d \in Descriptors : Listens(c, d) /\ Len(mail[d]) < MailLimit}
  <1>0. UTypeOK /\ UTypeOK' /\ MailInOrder /\ arrived \in Nat /\ arrived' = arrived + 1
    <2>1. UTypeOK /\ MailInOrder /\ arrived' = arrived + 1
      BY DEF UInv, Arrive
    <2>2. UTypeOK' /\ arrived \in Nat
      BY <2>1, ArriveTypes, UdpAssumption DEF UTypeOK
    <2>. QED
      BY <2>1, <2>2
  <1>1. /\ UNCHANGED <<owner, bound, m_dramSocket, m_bIsConnected, step>>
        /\ lost' = IF takers = {} THEN lost \cup {arrived + 1} ELSE lost
        /\ mail' = [d \in Descriptors |-> IF d \in takers THEN Append(mail[d], p) ELSE mail[d]]
    BY DEF Arrive, client
  <1>2. BoundWhileAttached'
    BY <1>1 DEF UInv, BoundWhileAttached, Attached
  <1>3. \A d \in takers : d \in bound /\ d \in Descriptors
    BY DEF Listens
  <1>4. ASSUME NEW d \in takers
        PROVE  /\ Len(mail'[d]) = Len(mail[d]) + 1 /\ Len(mail[d]) \in Nat
               /\ \A i \in 1..Len(mail[d]) : mail'[d][i] = mail[d][i]
               /\ mail'[d][Len(mail[d]) + 1].id = arrived + 1
    <2>1. mail[d] \in Seq(Packets) /\ p \in Packets
      <3>1. mail[d] \in Seq(Packets)
        BY <1>0, <1>3 DEF UTypeOK
      <3>2. arrived < MaxArrivals
        BY DEF Arrive
      <3>3. arrived + 1 \in 1..MaxArrivals
        BY <1>0, <3>2, UdpAssumption
      <3>. QED
        BY <3>1, <3>3 DEF Packets
    <2>2. mail'[d] = Append(mail[d], p)
      BY <1>1, <1>3, <1>4
    <2>. QED
      BY <2>1, <2>2, AppendProperties
  <1>5. \A d \in Descriptors : d \notin takers => mail'[d] = mail[d]
    BY <1>1
  <1> HIDE DEF takers, p
  <1>6. lost' \subseteq 1..arrived' /\ \A id \in lost' : id \in lost \/ (takers = {} /\ id = arrived + 1)
    <2>1. lost \subseteq 1..arrived
      BY <1>0 DEF MailInOrder
    <2>2. CASE takers = {}
      BY <1>0, <1>1, <2>1, <2>2
    <2>3. CASE takers # {}
      BY <1>0, <1>1, <2>1, <2>3
    <2>. QED
      BY <2>2, <2>3
  <1>7. ASSUME NEW d \in Descriptors
        PROVE  /\ mail'[d] # << >> => d \in bound'
               /\ \A i, j \in 1..Len(mail'[d]) :
                    /\ i < j => mail'[d][i].id < mail'[d][j].id
                    /\ mail'[d][i].id =< arrived' /\ mail'[d][i].id \notin lost'
    <2>0. \A i \in 1..Len(mail[d]) : /\ mail[d][i].id \in Nat /\ mail[d][i].id =< arrived
                                     /\ mail[d][i].id \notin lost
      <3>. TAKE i \in 1..Len(mail[d])
      <3>1. mail[d][i] \in Packets
        BY <1>0, ElementOfSeq DEF UTypeOK
      <3>. QED
        BY <1>0, <3>1 DEF Packets, MailInOrder
    <2>1. CASE d \in takers
      <3>0. takers # {} /\ d \in bound'
        BY <1>1, <1>3, <2>1
      <3>1. \A i \in 1..Len(mail'[d]) : i = Len(mail[d]) + 1 \/ (i \in 1..Len(mail[d]) /\ i < Len(mail[d]) + 1)
        BY <1>4, <2>1
      <3>2. \A i \in 1..Len(mail'[d]) : \/ i = Len(mail[d]) + 1 /\ mail'[d][i].id = arrived + 1
                                        \/ i \in 1..Len(mail[d]) /\ mail'[d][i].id = mail[d][i].id
        BY <1>4, <2>1, <3>1
      <3>3. \A i \in 1..Len(mail'[d]) : mail'[d][i].id =< arrived' /\ mail'[d][i].id \notin lost'
        <4>1. arrived + 1 \notin lost
          BY <1>0 DEF MailInOrder
        <4>. QED
          BY <1>0, <1>6, <2>0, <3>0, <3>2, <4>1
      <3>4. ASSUME NEW i \in 1..Len(mail'[d]), NEW j \in 1..Len(mail'[d]), i < j
            PROVE  mail'[d][i].id < mail'[d][j].id
        <4>1. i \in 1..Len(mail[d]) /\ mail'[d][i].id = mail[d][i].id
          BY <1>4, <2>1, <3>2, <3>4
        <4>2. CASE j = Len(mail[d]) + 1
          BY <1>0, <2>0, <3>2, <4>1, <4>2
        <4>3. CASE j \in 1..Len(mail[d])
          <5>1. mail[d][i].id < mail[d][j].id
            BY <1>0, <3>4, <4>1, <4>3 DEF MailInOrder
          <5>2. j # Len(mail[d]) + 1
            BY <1>4, <2>1, <4>3
          <5>. QED
            BY <3>2, <4>1, <5>1, <5>2
        <4>. QED
          BY <3>1, <4>2, <4>3
      <3>. QED
        BY <3>0, <3>3, <3>4
    <2>2. CASE d \notin takers
      <3>1. mail'[d] = mail[d]
        BY <1>5, <2>2
      <3>. QED
        <4>1. \A i \in 1..Len(mail[d]) : mail[d][i].id =< arrived' /\ mail[d][i].id \notin lost'
          BY <1>0, <1>6, <2>0
        <4>2. \A i, j \in 1..Len(mail[d]) : i < j => mail[d][i].id < mail[d][j].id
          BY <1>0 DEF MailInOrder
        <4>3. mail[d] # << >> => d \in bound'
          BY <1>0, <1>1 DEF MailInOrder
        <4>. QED
          BY <3>1, <4>1, <4>2, <4>3
    <2>. QED
      BY <2>1, <2>2
  <1>8. MailInOrder'
    BY <1>6, <1>7 DEF MailInOrder
  <1>. QED
    BY <1>0, <1>2, <1>8 DEF UInv

LEMMA StutterKeeps ==
  ASSUME UInv, UNCHANGED uvars
  PROVE  UInv'
  <1>1. UTypeOK'
    BY DEF UInv, UTypeOK, uvars, lwip, client, past
  <1>2. BoundWhileAttached'
    BY DEF UInv, BoundWhileAttached, Attached, uvars, lwip, client
  <1>3. MailInOrder'
    BY MailAlone DEF UInv, uvars, lwip, past
  <1>. QED
    BY <1>1, <1>2, <1>3 DEF UInv

LEMMA OneClientKeeps ==
  ASSUME UInv, NEW me, Clients = {me}, [UNext]_uvars
  PROVE  UInv'
  <1>1. ASSUME CallStep(me) PROVE UInv'
    BY <1>1, CallKeeps, CloseDeleteKeep DEF CallStep
  <1>2. ASSUME UNext PROVE UInv'
    BY <1>1, <1>2, CallKeeps, GroupKeeps, ReceiveKeeps, ArriveKeeps DEF UNext
  <1>. QED
    BY <1>2, StutterKeeps

LEMMA OneClientInv ==
  ASSUME NEW me, Clients = {me}
  PROVE  USpec => []UInv
  <1>1. UInit => UInv
    BY UInvInit
  <1>2. UInv /\ [UNext]_uvars => UInv'
    BY OneClientKeeps
  <1>. QED
    BY <1>1, <1>2, PTL DEF USpec

(***************************************************************************)
(* One client, in any order of its calls and whatever lwIP refuses: no     *)
(* descriptor stays bound that its socket object no longer names.          *)
(***************************************************************************)
THEOREM NobodyListensForNothing ==
  ASSUME NEW me, Clients = {me}
  PROVE  USpec => []NoOrphanListens
  <1>1. UInv => NoOrphanListens
    BY UInvIsEnough
  <1>. QED
    BY <1>1, OneClientInv, PTL

(***************************************************************************)
(* One client: between two calls m_bIsConnected is the truth, there is an  *)
(* open and bound descriptor behind it.                                    *)
(***************************************************************************)
THEOREM ConnectedIsTrue ==
  ASSUME NEW me, Clients = {me}
  PROVE  USpec => []ConnectedIsBound
  <1>1. UInv => ConnectedIsBound
    BY UInvIsEnough
  <1>. QED
    BY <1>1, OneClientInv, PTL

-----------------------------------------------------------------------------
(***************************************************************************)
(* Datagrams that wait, before and after a step of the client.             *)
(***************************************************************************)
LEMMA QueuedNumbers ==
  ASSUME UInv
  PROVE  \A id : Queued(id) => id \in 1..MaxArrivals /\ id =< arrived /\ id \notin lost
  <1>. SUFFICES ASSUME NEW d \in Descriptors, NEW i \in 1..Len(mail[d])
                PROVE  LET id == mail[d][i].id IN id \in 1..MaxArrivals /\ id =< arrived /\ id \notin lost
    BY DEF Queued, Ids
  <1>1. mail[d][i] \in Packets
    BY ElementOfSeq DEF UInv, UTypeOK
  <1>. QED
    BY <1>1 DEF Packets, UInv, MailInOrder

LEMMA CloseQueued ==
  ASSUME UInv, NEW c \in Clients, close(c) \/ delete(c)
  PROVE  \A id : Queued(id)' => Queued(id)
  <1>1. lwip_close(m_dramSocket[c])
    BY DEF close, delete
  <1>2. \A e \in Descriptors : mail'[e] = IF e = m_dramSocket[c] THEN << >> ELSE mail[e]
    BY <1>1, CloseEmpties
  <1>3. \A e \in Descriptors : Ids(mail'[e]) \subseteq Ids(mail[e])
    BY <1>2 DEF Ids
  <1>. QED
    BY <1>3 DEF Queued

LEMMA ReceiveQueued ==
  ASSUME UInv, NEW c, Clients = {c}, receive(c)
  PROVE  /\ Packet(c) \in Packets /\ Queued(Packet(c).id)
         /\ \A id : Queued(id)' => Queued(id) /\ Packet(c).id < id
  <1> DEFINE d == m_dramSocket[c]
  <1>1. /\ d \in Descriptors /\ Len(mail[d]) \in Nat \ {0}
        /\ Packet(c) = mail[d][1] /\ Packet(c) \in Packets
        /\ Len(mail'[d]) = Len(mail[d]) - 1
        /\ \A i \in 1..Len(mail'[d]) : mail'[d][i] = mail[d][i + 1]
        /\ \A e \in Descriptors : e # d => mail'[e] = mail[e]
    BY ReceiveTakes DEF UInv
  <1>2. mail[d] # << >> /\ 1 \in 1..Len(mail[d])
    BY <1>1
  <1>3. Queued(Packet(c).id)
    BY <1>1, <1>2 DEF Queued, Ids
  <1>4. ASSUME NEW e \in Descriptors, NEW i \in 1..Len(mail'[e])
        PROVE  Queued(mail'[e][i].id) /\ Packet(c).id < mail'[e][i].id
    <2>1. CASE e = d
      <3>1. i \in 1..Len(mail'[d]) /\ i + 1 \in 1..Len(mail[d]) /\ 1 < i + 1
        BY <1>1, <1>4, <2>1
      <3>2. mail[d][1].id < mail[d][i + 1].id
        BY <1>1, <1>2, <3>1 DEF UInv, MailInOrder
      <3>3. mail'[e][i] = mail[d][i + 1]
        BY <1>1, <2>1, <3>1
      <3>. QED
        BY <1>1, <3>1, <3>2, <3>3 DEF Queued, Ids
    <2>2. CASE e # d
      <3>1. mail[e] = << >> /\ mail'[e] = mail[e]
        BY <1>1, <1>2, <2>2, OneMailbox
      <3>. QED
        BY <1>4, <3>1
    <2>. QED
      BY <2>1, <2>2
  <1>5. \A id : Queued(id)' => Queued(id) /\ Packet(c).id < id
    BY <1>4 DEF Queued, Ids
  <1>. QED
    BY <1>1, <1>3, <1>5

LEMMA ArriveQueued ==
  ASSUME UInv, NEW c \in Clients, NEW cmd \in Commands, Arrive(c, cmd)
  PROVE  \A id : Queued(id)' => Queued(id) \/ id = arrived + 1
  <1> DEFINE p == [id |-> arrived + 1, command |-> cmd]
  <1>1. \A d \in Descriptors : mail'[d] = mail[d] \/ mail'[d] = Append(mail[d], p)
    BY DEF Arrive
  <1>2. p \in Packets
    BY UdpAssumption DEF UInv, UTypeOK, Arrive, Packets
  <1>3. ASSUME NEW d \in Descriptors, NEW i \in 1..Len(mail'[d])
        PROVE  mail'[d][i] = p \/ (i \in 1..Len(mail[d]) /\ mail'[d][i] = mail[d][i])
    <2>1. mail[d] \in Seq(Packets) /\ Len(mail[d]) \in Nat
      BY DEF UInv, UTypeOK
    <2>2. CASE mail'[d] = Append(mail[d], p)
      BY <1>2, <1>3, <2>1, <2>2, AppendProperties
    <2>3. CASE mail'[d] = mail[d]
      BY <1>3, <2>3
    <2>. QED
      BY <1>1, <2>2, <2>3
  <1>. QED
    BY <1>3 DEF Queued, Ids

-----------------------------------------------------------------------------
(***************************************************************************)
(* dram_task.  After its first connect it has a socket object, and it is   *)
(* connected unless a bind was refused since the start.                    *)
(***************************************************************************)
After == {"join", "poll", "parse", "left", "rejoin"}

TaskTypeOK ==
  /\ at \in {"boot", "connecting", "ended", "reconnecting"} \cup After
  /\ pkg \in Packets \cup {NoPkg}
  /\ handed \in Seq((1..MaxArrivals) \X Nat)

(* Which call the task may be in, and for which command. *)
CallOfTask ==
  /\ at \notin {"connecting", "reconnecting"} => step[Task] = "idle"
  /\ at = "boot" => ~ m_bIsConnected[Task]
  /\ at = "connecting" => step[Task] \in {"create", "bind", "idle"}
  /\ at = "reconnecting" => pkg # NoPkg /\ pkg.command = "reconnect"
  /\ at = "reconnecting" /\ step[Task] \in {"close", "delete"} => again[Task]
  /\ at = "parse" => pkg \in Packets

HasSocket ==
  /\ at \in After \/ (at = "reconnecting" /\ step[Task] \in {"bind", "idle"}) =>
       m_dramSocket[Task] # nullptr
  /\ at \in After \/ (at = "reconnecting" /\ step[Task] = "idle") =>
       m_bIsConnected[Task] \/ "bind" \in refused[Task]

HasMembership ==
  at \in {"poll", "parse"} /\ m_bIsMulticast[Task] /\ refused[Task] = {} =>
    m_dramSocket[Task] \in member

(* What was handed over came before what is being parsed, and that before *)
(* what waits.                                                            *)
HandedFirst ==
  /\ HandedInOrder
  /\ \A i \in 1..Len(handed) : handed[i][1] =< arrived
  /\ \A i \in 1..Len(handed) : \A id : Queued(id) => handed[i][1] < id
  /\ at = "parse" => /\ pkg.id =< arrived
                     /\ \A i \in 1..Len(handed) : handed[i][1] < pkg.id
                     /\ \A id : Queued(id) => pkg.id < id

DInv ==
  UInv /\ TaskTypeOK /\ CallOfTask /\ HasSocket /\ HasMembership /\ HandedFirst

LEMMA DInvIsEnough == DInv => PollsASocket /\ MembershipKept /\ HandedInOrder
  <1>. SUFFICES ASSUME DInv PROVE PollsASocket /\ MembershipKept /\ HandedInOrder
    OBVIOUS
  <1>1. ASSUME at = "poll", refused[Task] \cap {"socket", "bind"} = {}
        PROVE  m_bIsConnected[Task] /\ m_dramSocket[Task] \in bound
    <2>1. m_bIsConnected[Task] /\ step[Task] = "idle"
      BY <1>1 DEF DInv, HasSocket, CallOfTask, After
    <2>2. bound = {m_dramSocket[Task]}
      BY <2>1, DramAssumption DEF DInv, UInv, BoundWhileAttached, Attached
    <2>. QED
      BY <2>1, <2>2
  <1>2. PollsASocket
    BY <1>1 DEF DInv, HasSocket, After, PollsASocket
  <1>3. MembershipKept /\ HandedInOrder
    BY DEF DInv, HasMembership, MembershipKept, HandedFirst
  <1>. QED
    BY <1>2, <1>3

LEMMA DInvInit == DInit => DInv
  <1>. SUFFICES ASSUME DInit PROVE DInv
    OBVIOUS
  <1>1. UInv
    BY DramAssumption, UInvInit DEF DInit
  <1>2. handed = << >> /\ Len(handed) = 0 /\ at = "boot" /\ pkg = NoPkg
    BY DEF DInit
  <1>3. TaskTypeOK
    BY <1>2 DEF TaskTypeOK
  <1>4. CallOfTask /\ HasSocket /\ HasMembership
    BY <1>2, DramAssumption DEF DInit, UInit, CallOfTask, HasSocket, HasMembership, After
  <1>5. HandedFirst
    BY <1>2 DEF HandedFirst, HandedInOrder
  <1>. QED
    BY <1>1, <1>3, <1>4, <1>5 DEF DInv

(* Steps that hand over nothing and let no older datagram wait. *)
LEMMA HandedAlone ==
  ASSUME HandedFirst, UNCHANGED <<handed, arrived>>, at' # "parse" \/ (at = "parse" /\ pkg' = pkg),
         \A id : Queued(id)' => Queued(id)
  PROVE  HandedFirst'
  BY DEF HandedFirst, HandedInOrder

LEMMA MailAloneQueued ==
  ASSUME mail' = mail
  PROVE  \A id : Queued(id)' => Queued(id)
  BY DEF Queued

-----------------------------------------------------------------------------
LEMMA BootKeeps ==
  ASSUME DInv, Boot
  PROVE  DInv'
  <1>0. UInv /\ UInv' /\ CallOfTask
    BY CallKeeps, DramAssumption DEF DInv, Boot
  <1>1. UNCHANGED <<mail, arrived, pkg, handed, m_bIsConnected>> /\ at' = "connecting"
        /\ step' = [step EXCEPT ![Task] = IF m_bIsConnected[Task] THEN "idle" ELSE "create"]
    BY DEF Boot, connect, lwip, client, past
  <1>2. ~ m_bIsConnected[Task] /\ at = "boot"
    BY <1>0 DEF CallOfTask, Boot
  <1>3. step'[Task] = "create"
    BY <1>0, <1>1, <1>2, DramAssumption DEF UInv, UTypeOK
  <1>4. TaskTypeOK'
    BY <1>1 DEF DInv, TaskTypeOK
  <1>5. CallOfTask' /\ HasSocket' /\ HasMembership'
    BY <1>1, <1>3 DEF CallOfTask, HasSocket, HasMembership, After
  <1>6. HandedFirst'
    BY <1>1, HandedAlone, MailAloneQueued DEF DInv
  <1>. QED
    BY <1>0, <1>4, <1>5, <1>6 DEF DInv

LEMMA CalledKeeps ==
  ASSUME DInv, Called
  PROVE  DInv'
  <1>0. /\ UInv /\ CallOfTask /\ HasSocket /\ HandedFirst /\ TaskTypeOK
        /\ at \in {"connecting", "reconnecting"} /\ UNCHANGED <<at, pkg, handed>>
        /\ CallStep(Task) /\ Task \in Clients
    BY DramAssumption DEF DInv, Called, task
  <1>1. UInv'
    BY <1>0, CallKeeps, CloseDeleteKeep, DramAssumption DEF CallStep
  <1>2. arrived' = arrived /\ \A id : Queued(id)' => Queued(id)
    <2>1. CASE close(Task) \/ delete(Task)
      BY <1>0, <2>1, CloseQueued DEF close, delete
    <2>2. CASE connect(Task, "again") \/ create_socket(Task) \/ bind(Task)
      BY <2>2, MailAloneQueued DEF connect, create_socket, bind, lwip, past
    <2>. QED
      BY <1>0, <2>1, <2>2 DEF CallStep
  <1>3. HandedFirst'
    BY <1>0, <1>2, HandedAlone
  <1>4. TaskTypeOK' /\ HasMembership'
    BY <1>0 DEF TaskTypeOK, HasMembership
  <1>5. CallOfTask' /\ HasSocket'
    <2>0. /\ ~ m_bIsConnected[Task] \/ step[Task] \in {"idle", "close", "delete"}
          /\ step \in [Clients -> {"idle", "create", "bind", "close", "delete", "again"}]
          /\ m_bIsConnected \in [Clients -> BOOLEAN]
          /\ refused \in [Clients -> SUBSET {"socket", "bind", "join"}]
          /\ m_dramSocket \in [Clients -> Descriptors \cup {NoHandle, nullptr}]
      BY <1>0 DEF UInv, UTypeOK, BoundWhileAttached
    <2>1. CASE connect(Task, "again")
      <3>1. step'[Task] = "create" /\ again' = again
        BY <1>0, <2>0, <2>1 DEF connect
      <3>. QED
        BY <1>0, <3>1 DEF CallOfTask, HasSocket, After
    <2>2. CASE create_socket(Task)
      <3>1. step'[Task] = "bind" /\ again' = again
        BY <1>0, <2>0, <2>2 DEF create_socket
      <3>2. m_dramSocket'[Task] # nullptr
        BY <1>0, <2>0, <2>2 DEF create_socket, Free, Descriptors, NoHandle, nullptr
      <3>. QED
        BY <1>0, <3>1, <3>2 DEF CallOfTask, HasSocket, After
    <2>3. CASE bind(Task)
      <3>1. step[Task] = "bind" /\ step'[Task] = "idle" /\ UNCHANGED <<again, m_dramSocket>>
        BY <1>0, <2>0, <2>3 DEF bind
      <3>2. m_bIsConnected'[Task] \/ "bind" \in refused'[Task]
        BY <1>0, <2>0, <2>3 DEF bind, Refuse
      <3>. QED
        BY <1>0, <3>1, <3>2 DEF CallOfTask, HasSocket, After
    <2>4. CASE close(Task)
      <3>1. step[Task] = "close" /\ step'[Task] = "delete" /\ again' = again
        BY <1>0, <2>0, <2>4 DEF close
      <3>. QED
        BY <1>0, <3>1 DEF CallOfTask, HasSocket, After
    <2>5. CASE delete(Task)
      <3>1. step[Task] = "delete" /\ again' = again
            /\ step'[Task] = IF again[Task] THEN "again" ELSE "idle"
        BY <1>0, <2>0, <2>5 DEF delete
      <3>. QED
        BY <1>0, <3>1 DEF CallOfTask, HasSocket, After
    <2>. QED
      BY <1>0, <2>1, <2>2, <2>3, <2>4, <2>5 DEF CallStep
  <1>. QED
    BY <1>1, <1>3, <1>4, <1>5 DEF DInv

(* Steps of the task between two calls: nothing of the client changes. *)
LEMMA ConnectedKeeps ==
  ASSUME DInv, Connected \/ Reconnected \/ Other
  PROVE  DInv'
  <1>0. /\ UInv' /\ UInv /\ CallOfTask /\ HasSocket /\ HandedFirst /\ TaskTypeOK
        /\ UNCHANGED <<uvars, handed>>
    BY StutterKeeps DEF DInv, Connected, Reconnected, Other
  <1>1. UNCHANGED <<mail, arrived, member, m_dramSocket, m_bIsConnected, m_bIsMulticast,
                    step, again, refused>>
    BY <1>0 DEF uvars, lwip, client, past
  <1>2. at' # "parse" /\ at' \in {"ended"} \cup After /\ step[Task] = "idle" /\ (pkg' = pkg \/ pkg' = NoPkg)
    BY <1>0 DEF Connected, Reconnected, Other, Command, CallOfTask, After
  <1>3. HandedFirst'
    BY <1>0, <1>1, <1>2, HandedAlone, MailAloneQueued
  <1>4. TaskTypeOK'
    BY <1>0, <1>2 DEF TaskTypeOK
  <1>5. CallOfTask'
    BY <1>1, <1>2 DEF CallOfTask, After
  <1>6. HasSocket'
    <2>1. CASE Connected
      <3>1. at' = "ended" \/ m_bIsConnected[Task]
        BY <2>1 DEF Connected
      <3>2. m_bIsConnected[Task] => m_dramSocket[Task] \in Descriptors
        BY <1>0, <1>2, DramAssumption DEF UInv, UTypeOK, BoundWhileAttached, Attached
      <3>. QED
        BY <1>1, <1>2, <3>1, <3>2 DEF HasSocket, After, Descriptors, nullptr
    <2>2. CASE Reconnected \/ Other
      BY <1>0, <1>1, <1>2, <2>2 DEF HasSocket, Reconnected, Other, Command, After
    <2>. QED
      BY <2>1, <2>2
  <1>7. HasMembership'
    <2>1. CASE Connected \/ Reconnected
      BY <1>1, <2>1 DEF HasMembership, Connected, Reconnected
    <2>2. CASE Other
      BY <1>1, <2>2 DEF DInv, HasMembership, Other, Command
    <2>. QED
      BY <2>1, <2>2
  <1>. QED
    BY <1>0, <1>3, <1>4, <1>5, <1>6, <1>7 DEF DInv

LEMMA GroupCallKeeps ==
  ASSUME DInv, Join \/ Left \/ Rejoin
  PROVE  DInv'
  <1>0. /\ UInv' /\ UInv /\ CallOfTask /\ HasSocket /\ HandedFirst /\ TaskTypeOK
        /\ at \in {"join", "left", "rejoin"} /\ at' \in {"poll", "rejoin"} /\ UNCHANGED handed
        /\ pkg' = pkg \/ pkg' = NoPkg
    BY GroupKeeps, DramAssumption DEF DInv, Join, Left, Rejoin
  <1>1. UNCHANGED <<mail, arrived, m_dramSocket, m_bIsConnected, m_bIsMulticast, step, again>>
    BY DEF Join, Left, Rejoin, join_multicast_group, left_multicast_group, client, past
  <1>2. HandedFirst'
    BY <1>0, <1>1, HandedAlone, MailAloneQueued
  <1>3. TaskTypeOK' /\ CallOfTask'
    BY <1>0, <1>1 DEF TaskTypeOK, CallOfTask, After
  <1>4. refused[Task] \subseteq refused'[Task]
    BY DramAssumption DEF DInv, UInv, UTypeOK, Join, Left, Rejoin, join_multicast_group,
       left_multicast_group, past, Refuse
  <1>5. HasSocket'
    BY <1>0, <1>1, <1>4 DEF HasSocket, After
  <1>6. HasMembership'
    <2>1. CASE Join \/ Rejoin
      <3>1. m_dramSocket[Task] \in member' \/ "join" \in refused'[Task]
        BY <2>1, DramAssumption DEF DInv, UInv, UTypeOK, Join, Rejoin, join_multicast_group, Refuse
      <3>. QED
        BY <1>1, <3>1 DEF HasMembership
    <2>2. CASE Left
      BY <2>2 DEF Left, HasMembership
    <2>. QED
      BY <1>0, <2>1, <2>2 DEF Join, Left, Rejoin
  <1>. QED
    BY <1>0, <1>2, <1>3, <1>5, <1>6 DEF DInv

LEMMA PollKeeps ==
  ASSUME DInv, Poll
  PROVE  DInv'
  <1>0. /\ UInv' /\ UInv /\ CallOfTask /\ HasSocket /\ HasMembership /\ HandedFirst /\ TaskTypeOK
        /\ at = "poll" /\ at' = "parse" /\ UNCHANGED handed /\ pkg' = Packet(Task)
    BY ReceiveKeeps, DramAssumption DEF DInv, Poll
  <1>1. UNCHANGED <<arrived, member, m_dramSocket, m_bIsConnected, m_bIsMulticast, step, again, refused>>
    BY DEF Poll, receive, client
  <1>2. /\ Packet(Task) \in Packets /\ Queued(Packet(Task).id)
        /\ \A id : Queued(id)' => Queued(id) /\ Packet(Task).id < id
    BY <1>0, ReceiveQueued, DramAssumption DEF Poll
  <1>3. Packet(Task).id =< arrived
    BY <1>0, <1>2, QueuedNumbers
  <1>4. HandedFirst'
    BY <1>0, <1>1, <1>2, <1>3 DEF HandedFirst, HandedInOrder
  <1>5. TaskTypeOK' /\ CallOfTask'
    BY <1>0, <1>1, <1>2 DEF TaskTypeOK, CallOfTask, After
  <1>6. HasSocket' /\ HasMembership'
    BY <1>0, <1>1 DEF HasSocket, HasMembership, After
  <1>. QED
    BY <1>0, <1>4, <1>5, <1>6 DEF DInv

LEMMA AudioKeeps ==
  ASSUME DInv, Audio
  PROVE  DInv'
  <1> DEFINE h == <<pkg.id, BufferSize(pkg)>>
  <1>0. /\ UInv' /\ UInv /\ CallOfTask /\ HasSocket /\ HasMembership /\ HandedFirst /\ TaskTypeOK
        /\ at = "parse" /\ at' = "poll" /\ handed' = Append(handed, h) /\ pkg' = NoPkg
    BY StutterKeeps DEF DInv, Audio, Command
  <1>1. UNCHANGED <<mail, arrived, member, m_dramSocket, m_bIsConnected, m_bIsMulticast,
                    step, again, refused>>
    BY DEF Audio, uvars, lwip, client, past
  <1>2. pkg \in Packets /\ h \in (1..MaxArrivals) \X Nat /\ h[1] = pkg.id
    <2>1. pkg \in Packets
      BY <1>0 DEF CallOfTask
    <2>2. pkg.id \in 1..MaxArrivals /\ BufferSize(pkg) \in Nat
      BY <2>1, DramAssumption DEF Packets, BufferSize
    <2>. QED
      BY <2>1, <2>2
  <1> HIDE DEF h
  <1>3. /\ handed' \in Seq((1..MaxArrivals) \X Nat) /\ Len(handed') = Len(handed) + 1 /\ Len(handed) \in Nat
        /\ \A i \in 1..Len(handed) : handed'[i] = handed[i]
        /\ handed'[Len(handed) + 1] = h
    BY <1>0, <1>2, AppendProperties DEF TaskTypeOK
  <1>4. \A i \in 1..Len(handed') : \/ i \in 1..Len(handed) /\ handed'[i] = handed[i]
                                   \/ i = Len(handed) + 1 /\ handed'[i] = h
    <2>. TAKE i \in 1..Len(handed')
    <2>1. i \in 1..Len(handed) \/ i = Len(handed) + 1
      BY <1>3
    <2>2. i \in 1..Len(handed) => handed'[i] = handed[i]
      BY <1>3
    <2>3. i = Len(handed) + 1 => handed'[i] = h
      BY <1>3
    <2>. QED
      BY <2>1, <2>2, <2>3
  <1>5. HandedInOrder'
    <2>. SUFFICES ASSUME NEW i \in 1..Len(handed'), NEW j \in 1..Len(handed'), i < j
                  PROVE  handed'[i][1] < handed'[j][1]
      BY DEF HandedInOrder
    <2>1. i # Len(handed) + 1
      BY <1>3
    <2>2. i \in 1..Len(handed) /\ handed'[i] = handed[i]
      BY <1>4, <2>1
    <2>. QED
      BY <1>0, <1>2, <1>4, <2>2 DEF HandedFirst, HandedInOrder
  <1>6. \A i \in 1..Len(handed') : handed'[i][1] =< arrived /\ \A id : Queued(id) => handed'[i][1] < id
    BY <1>0, <1>2, <1>4 DEF HandedFirst
  <1>7. HandedFirst'
    BY <1>0, <1>1, <1>5, <1>6, MailAloneQueued DEF HandedFirst
  <1>8. TaskTypeOK' /\ CallOfTask'
    BY <1>0, <1>1, <1>3 DEF TaskTypeOK, CallOfTask, After
  <1>9. HasSocket' /\ HasMembership'
    BY <1>0, <1>1 DEF HasSocket, HasMembership, After
  <1>. QED
    BY <1>0, <1>7, <1>8, <1>9 DEF DInv

LEMMA RestartKeeps ==
  ASSUME DInv, Restart
  PROVE  DInv'
  <1>0. /\ UInv /\ UTypeOK /\ MailInOrder /\ HandedFirst /\ TaskTypeOK
        /\ at' = "boot" /\ pkg' = NoPkg /\ UNCHANGED <<handed, arrived>>
    BY DEF DInv, UInv, Restart
  <1>1. /\ \A d \in Descriptors : mail'[d] = << >> /\ Len(mail'[d]) = 0
        /\ \A id : ~ Queued(id)'
    <2>1. \A d \in Descriptors : mail'[d] = << >>
      BY DEF Restart
    <2>2. \A d \in Descriptors : Len(mail'[d]) = 0 /\ Ids(mail'[d]) = {}
      BY <2>1 DEF Ids
    <2>. QED
      BY <2>1, <2>2 DEF Queued
  <1>2. \A id \in lost' : id \in lost \/ Queued(id)
    BY DEF Restart, Queued
  <1>3. lost' \subseteq 1..arrived /\ lost' \subseteq 1..MaxArrivals
    <2>. SUFFICES ASSUME NEW id \in lost' PROVE id \in 1..arrived /\ id \in 1..MaxArrivals
      OBVIOUS
    <2>1. CASE id \in lost
      BY <1>0, <2>1 DEF UTypeOK, MailInOrder
    <2>2. CASE Queued(id)
      <3>1. id \in 1..MaxArrivals /\ id =< arrived
        BY <1>0, <2>2, QueuedNumbers
      <3>. QED
        BY <1>0, <3>1, UdpAssumption DEF UTypeOK
    <2>. QED
      BY <1>2, <2>1, <2>2
  <1>4. MailInOrder'
    BY <1>0, <1>1, <1>3 DEF MailInOrder
  <1>5. UTypeOK'
    <2>1. mail' \in [Descriptors -> Seq(Packets)] /\ \A d \in Descriptors : Len(mail'[d]) =< MailLimit
      <3>1. mail' = [d \in Descriptors |-> << >>] /\ << >> \in Seq(Packets)
        BY DEF Restart
      <3>. QED
        BY <1>1, <3>1, UdpAssumption
    <2>. QED
      BY <1>0, <1>3, <2>1 DEF UTypeOK, Restart
  <1>6. BoundWhileAttached'
    BY DramAssumption DEF Restart, BoundWhileAttached, Attached
  <1>7. TaskTypeOK' /\ CallOfTask' /\ HasSocket' /\ HasMembership'
    BY <1>0, DramAssumption DEF Restart, TaskTypeOK, CallOfTask, HasSocket, HasMembership, After
  <1>8. HandedFirst'
    BY <1>0, <1>1 DEF HandedFirst, HandedInOrder
  <1>. QED
    BY <1>4, <1>5, <1>6, <1>7, <1>8 DEF DInv, UInv

LEMMA ReconnectKeeps ==
  ASSUME DInv, Reconnect
  PROVE  DInv'
  <1>0. /\ UInv' /\ UInv /\ CallOfTask /\ HandedFirst /\ TaskTypeOK
        /\ at = "parse" /\ at' = "reconnecting" /\ UNCHANGED <<pkg, handed>>
        /\ pkg.command = "reconnect" /\ pkg \in Packets
    BY CallKeeps, DramAssumption DEF DInv, Reconnect, Command, CallOfTask
  <1>1. UNCHANGED <<mail, arrived>> /\ step'[Task] = "close" /\ again'[Task]
    BY <1>0, DramAssumption DEF Reconnect, disconnect, lwip, client, past, UInv, UTypeOK
  <1>2. HandedFirst'
    BY <1>0, <1>1, HandedAlone, MailAloneQueued
  <1>3. pkg # NoPkg
    BY <1>0, DramAssumption DEF Packets
  <1>4. TaskTypeOK' /\ CallOfTask' /\ HasSocket' /\ HasMembership'
    BY <1>0, <1>1, <1>3 DEF TaskTypeOK, CallOfTask, HasSocket, HasMembership, After
  <1>. QED
    BY <1>0, <1>2, <1>4 DEF DInv

LEMMA NetworkKeeps ==
  ASSUME DInv, NEW cmd \in Commands, Arrive(Task, cmd), UNCHANGED task
  PROVE  DInv'
  <1>0. /\ UInv' /\ UInv /\ CallOfTask /\ HasSocket /\ HasMembership /\ HandedFirst /\ TaskTypeOK
        /\ UNCHANGED <<at, pkg, handed>>
    BY ArriveKeeps, DramAssumption DEF DInv, task
  <1>1. /\ UNCHANGED <<member, m_dramSocket, m_bIsConnected, m_bIsMulticast, step, again, refused>>
        /\ arrived' = arrived + 1 /\ arrived \in Nat
        /\ \A id : Queued(id)' => Queued(id) \/ id = arrived + 1
    BY <1>0, ArriveQueued, DramAssumption, UdpAssumption DEF Arrive, client, UInv, UTypeOK
  <1>2. \A i \in 1..Len(handed) : handed[i][1] \in Nat
    <2>. TAKE i \in 1..Len(handed)
    <2>1. handed[i] \in (1..MaxArrivals) \X Nat
      BY <1>0, ElementOfSeq DEF TaskTypeOK
    <2>. QED
      BY <2>1
  <1>3. at = "parse" => pkg.id \in Nat
    BY <1>0 DEF CallOfTask, Packets
  <1>4. HandedFirst'
    BY <1>0, <1>1, <1>2, <1>3 DEF HandedFirst, HandedInOrder
  <1>5. TaskTypeOK' /\ CallOfTask' /\ HasSocket' /\ HasMembership'
    BY <1>0, <1>1 DEF TaskTypeOK, CallOfTask, HasSocket, HasMembership, After
  <1>. QED
    BY <1>0, <1>4, <1>5 DEF DInv

LEMMA DInvStutters ==
  ASSUME DInv, UNCHANGED dvars
  PROVE  DInv'
  <1>1. UInv' /\ UNCHANGED <<uvars, at, pkg, handed>>
    BY StutterKeeps DEF DInv, dvars, task
  <1>2. UNCHANGED <<mail, arrived, member, m_dramSocket, m_bIsConnected, m_bIsMulticast,
                    step, again, refused>>
    BY <1>1 DEF uvars, lwip, client, past
  <1>3. HandedFirst'
    BY <1>1, <1>2, HandedAlone, MailAloneQueued DEF DInv
  <1>4. TaskTypeOK' /\ CallOfTask' /\ HasSocket' /\ HasMembership'
    BY <1>1, <1>2 DEF DInv, TaskTypeOK, CallOfTask, HasSocket, HasMembership
  <1>. QED
    BY <1>1, <1>3, <1>4 DEF DInv

LEMMA DNextKeeps == DInv /\ [DNext]_dvars => DInv'
  <1>1. ASSUME DInv, TaskStep PROVE DInv'
    BY <1>1, BootKeeps, CalledKeeps, ConnectedKeeps, GroupCallKeeps, PollKeeps, AudioKeeps,
       RestartKeeps, ReconnectKeeps DEF TaskStep
  <1>2. ASSUME DInv, Network PROVE DInv'
    BY <1>2, NetworkKeeps DEF Network
  <1>. QED
    BY <1>1, <1>2, DInvStutters DEF DNext

LEMMA DInvHolds == DSpec => []DInv
  BY DInvInit, DNextKeeps, PTL DEF DSpec

(***************************************************************************)
(* After any number of reconnects, restarts and refusals: a task that      *)
(* polls has a socket object, open and bound unless lwIP refused it.       *)
(***************************************************************************)
THEOREM TaskListens == DSpec => []PollsASocket
  BY DInvHolds, DInvIsEnough, PTL

(***************************************************************************)
(* A task in a group that polls has the membership of the very socket it   *)
(* polls, unless lwIP refused something.                                   *)
(***************************************************************************)
THEOREM MembershipSurvives == DSpec => []MembershipKept
  BY DInvHolds, DInvIsEnough, PTL

(***************************************************************************)
(* For any number of datagrams: each is handed to the ring at most once,   *)
(* in the order they came.                                                 *)
(***************************************************************************)
THEOREM AudioInOrder == DSpec => []HandedInOrder
  BY DInvHolds, DInvIsEnough, PTL

(***************************************************************************)
(* No step loses a datagram that waits, but those of a reconnect and a     *)
(* restart.                                                                *)
(***************************************************************************)
THEOREM DiscardsAreCommanded == DSpec => DiscardedByCommand
  <1>1. ASSUME DInv, [DNext]_dvars, NEW id \in 1..MaxArrivals, Queued(id), id \in lost'
        PROVE  pkg # NoPkg /\ pkg.command \in {"reconnect", "restart"}
    <2>1. id \notin lost /\ id =< arrived /\ arrived \in Nat
      BY <1>1, QueuedNumbers, UdpAssumption DEF DInv, UInv, UTypeOK
    <2>2. CASE Called
      <3>1. CASE connect(Task, "again") \/ create_socket(Task) \/ bind(Task)
        BY <1>1, <2>1, <3>1 DEF connect, create_socket, bind, past
      <3>2. CASE close(Task) \/ delete(Task)
        BY <1>1, <2>2, <3>2 DEF DInv, CallOfTask, Called, close, delete
      <3>. QED
        BY <2>2, <3>1, <3>2 DEF Called, CallStep
    <2>3. CASE Restart
      BY <1>1, <2>3, DramAssumption DEF DInv, CallOfTask, Restart, Command, Packets
    <2>4. CASE Boot \/ Join \/ Left \/ Rejoin \/ Poll \/ Reconnect
      BY <1>1, <2>1, <2>4 DEF Boot, connect, Join, Left, Rejoin, join_multicast_group,
         left_multicast_group, Poll, receive, Reconnect, disconnect, past
    <2>5. CASE Connected \/ Audio \/ Other \/ Reconnected \/ UNCHANGED dvars
      BY <1>1, <2>1, <2>5 DEF Connected, Audio, Other, Reconnected, dvars, uvars, past
    <2>6. CASE Network
      BY <1>1, <2>1, <2>6 DEF Network, Arrive
    <2>. QED
      BY <1>1, <2>2, <2>3, <2>4, <2>5, <2>6 DEF DNext, TaskStep
  <1>2. DInv /\ [DNext]_dvars =>
          [\A id \in 1..MaxArrivals :
             Queued(id) /\ id \in lost' =>
               pkg # NoPkg /\ pkg.command \in {"reconnect", "restart"}]_dvars
    BY <1>1
  <1>. QED
    BY <1>2, DInvHolds, PTL DEF DSpec, DiscardedByCommand

(***************************************************************************)
(* However large the mailbox: once it is full of empty datagrams, no step  *)
(* of the task or of the network ever takes one out or puts one in.        *)
(***************************************************************************)
THEOREM DeafTasksStayDeaf == DSpec => DeafForEver
  <1>1. ASSUME DInv, [DNext]_dvars, Deaf PROVE Deaf' /\ UNCHANGED <<mail, received>>
    <2> DEFINE d == m_dramSocket[Task]
    <2>1. /\ at = "poll" /\ d \in Descriptors /\ Len(mail[d]) = MailLimit
          /\ \A i \in 1..Len(mail[d]) : ~ HasBytes(mail[d][i])
      BY <1>1 DEF DInv, UInv, UTypeOK, Deaf
    <2>2. CASE UNCHANGED dvars
      BY <1>1, <2>2 DEF Deaf, dvars, uvars, lwip, client, past, task
    <2>3. CASE Network
      <3>1. PICK cmd \in Commands : Arrive(Task, cmd) /\ UNCHANGED task
        BY <2>3 DEF Network
      <3>2. \A e \in Descriptors : Listens(Task, e) => e = d
        BY <1>1, DramAssumption DEF Listens, DInv, UInv, UTypeOK, BoundWhileAttached
      <3>3. mail' = mail
        <4>1. {e \in Descriptors : Listens(Task, e) /\ Len(mail[e]) < MailLimit} = {}
          BY <2>1, <3>2, UdpAssumption
        <4>. QED
          BY <1>1, <3>1, <4>1 DEF Arrive, DInv, UInv, UTypeOK
      <3>. QED
        BY <1>1, <3>1, <3>3 DEF Arrive, client, task, Deaf
    <2>4. CASE TaskStep
      <3>1. ~ Available(Task)
        BY <2>1 DEF Available
      <3>. QED
        BY <2>1, <2>4, <3>1 DEF TaskStep, Boot, Called, Connected, Join, Poll, receive, Audio,
           Restart, Other, Reconnect, Reconnected, Left, Rejoin, Command
    <2>. QED
      BY <1>1, <2>2, <2>3, <2>4 DEF DNext
  <1>2. DInv /\ [DNext]_dvars => [Deaf => Deaf' /\ UNCHANGED <<mail, received>>]_dvars
    BY <1>1
  <1>. QED
    BY <1>2, DInvHolds, PTL DEF DSpec, DeafForEver
=============================================================================
