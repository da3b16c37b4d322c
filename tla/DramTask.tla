------------------------------ MODULE DramTask -------------------------------
(***************************************************************************)
(* dram_task (src/dram_task.cpp): the task that connects its udp_client,   *)
(* then polls it for datagrams for ever, one command each.  The socket     *)
(* steps are those of UdpClient.  write_audio is a step of its own: the    *)
(* ring is modelled in AudioPipeline.  The sleeps are left out.            *)
(***************************************************************************)
EXTENDS UdpClient

CONSTANTS
  Task,          \* the one client
  PayloadSize,   \* data.buffer_size of the datagrams that arrive
  ReceiveBytes,  \* sizeof(buffer) in recive_pkg, where buffer is a char*
  NoPkg

ASSUME DramAssumption ==
  /\ Clients = {Task}
  /\ Commands \ {"empty"} = {"audio", "restart", "reconnect", "other"}
  /\ PayloadSize \in Nat \ {0} /\ ReceiveBytes \in Nat \ {0}
  /\ NoPkg \notin [id : Nat, command : Commands]

VARIABLES
  at,      \* where on_task is
  pkg,     \* the command being handled
  handed   \* history: <<datagram, data_size>> of each call of write_audio

task  == <<at, pkg, handed>>
dvars == <<uvars, task>>

DInit ==
  /\ UInit
  /\ at = "boot"
  /\ pkg = NoPkg
  /\ handed = << >>

-------------------------------------------------------------------------------
(***************************************************************************)
(* Start: the task ends when connect fails; it does not try again.         *)
(***************************************************************************)
Boot ==
  /\ at = "boot"
  /\ connect(Task, "idle")
  /\ at' = "connecting"
  /\ UNCHANGED <<pkg, handed>>

Called == at \in {"connecting", "reconnecting"} /\ CallStep(Task) /\ UNCHANGED task

Connected ==
  /\ at = "connecting" /\ step[Task] = "idle"
  /\ at' = IF ~ m_bIsConnected[Task] THEN "ended"
           ELSE IF m_bIsMulticast[Task] THEN "join" ELSE "poll"
  /\ UNCHANGED <<uvars, pkg, handed>>

Join ==
  /\ at = "join"
  /\ join_multicast_group(Task)
  /\ at' = "poll"
  /\ UNCHANGED <<pkg, handed>>

(***************************************************************************)
(* recive_pkg: ReceiveBytes of the datagram are copied into a zeroed       *)
(* packet, the rest is discarded.  data.buffer_size is in bytes 4 to 7.  An*)
(* empty datagram leaves the zeros: an audio command with nothing to play. *)
(***************************************************************************)
HeaderBytes == 8
BufferSize(p) ==
  IF HasBytes(p) /\ ReceiveBytes >= HeaderBytes THEN PayloadSize ELSE 0

Poll_Skips ==                                \* fault: available() > 0 misses one
  /\ at = "poll"
  /\ Available(Task) /\ Len(mail[m_dramSocket[Task]]) > 1
  /\ receive(Task)
  /\ pkg' = Packet(Task)
  /\ at' = "parse"
  /\ UNCHANGED handed

Poll ==
  /\ at = "poll"
  /\ receive(Task)
  /\ pkg' = Packet(Task)
  /\ at' = "parse"
  /\ UNCHANGED handed

-------------------------------------------------------------------------------
(***************************************************************************)
(* parse_pkg                                                               *)
(***************************************************************************)
Command(cmd) == at = "parse" /\ pkg.command = cmd

Audio ==
  /\ Command("audio") \/ Command("empty")
  /\ handed' = Append(handed, <<pkg.id, BufferSize(pkg)>>)
  /\ at' = "poll" /\ pkg' = NoPkg
  /\ UNCHANGED uvars

(* esp_restart: sockets, tasks and memory are gone; the network goes on. *)
Restart ==
  /\ Command("restart")
  /\ owner' = [d \in Descriptors |-> NoOne]
  /\ bound' = {} /\ member' = {}
  /\ mail' = [d \in Descriptors |-> << >>]
  /\ lost' = lost \cup UNION {Ids(mail[d]) : d \in Descriptors}
  /\ m_dramSocket' = [c \in Clients |-> nullptr]
  /\ m_bIsConnected' = [c \in Clients |-> FALSE]
  /\ step' = [c \in Clients |-> "idle"]
  /\ again' = [c \in Clients |-> FALSE]
  /\ refused' = [c \in Clients |-> {}]
  /\ at' = "boot" /\ pkg' = NoPkg
  /\ UNCHANGED <<m_bIsMulticast, arrived, received, handed>>

(* Play, stop, volume up and down, and the codes nobody knows: no effect. *)
Other_FallsThrough ==                        \* fault: a break is missing
  /\ Command("other")
  /\ disconnect(Task, TRUE)
  /\ at' = "reconnecting"
  /\ UNCHANGED <<pkg, handed>>

Other ==
  /\ Command("other")
  /\ at' = "poll" /\ pkg' = NoPkg
  /\ UNCHANGED <<uvars, handed>>

Reconnect ==
  /\ Command("reconnect")
  /\ disconnect(Task, TRUE)
  /\ at' = "reconnecting"
  /\ UNCHANGED <<pkg, handed>>

(* The result of reconnect is not looked at. *)
Reconnected ==
  /\ at = "reconnecting" /\ step[Task] = "idle"
  /\ IF m_bIsMulticast[Task]
     THEN at' = "left" /\ UNCHANGED pkg
     ELSE at' = "poll" /\ pkg' = NoPkg
  /\ UNCHANGED <<uvars, handed>>

Left ==
  /\ at = "left"
  /\ left_multicast_group(Task)
  /\ at' = "rejoin"
  /\ UNCHANGED <<pkg, handed>>

Rejoin_Missing ==                            \* fault: the group is only left
  /\ at = "rejoin"
  /\ at' = "poll" /\ pkg' = NoPkg
  /\ UNCHANGED <<uvars, handed>>

Rejoin ==
  /\ at = "rejoin"
  /\ join_multicast_group(Task)
  /\ at' = "poll" /\ pkg' = NoPkg
  /\ UNCHANGED handed

TaskStep ==
  \/ Boot \/ Called \/ Connected \/ Join \/ Poll
  \/ Audio \/ Restart \/ Other \/ Reconnect \/ Reconnected \/ Left \/ Rejoin

Network == \E cmd \in Commands : Arrive(Task, cmd) /\ UNCHANGED task

DNext == TaskStep \/ Network

DSpec == DInit /\ [][DNext]_dvars

(* The task runs; the network owes it nothing. *)
DFairSpec == DSpec /\ WF_dvars(TaskStep)

-------------------------------------------------------------------------------
(***************************************************************************)
(* While it polls, the task listens: it has a socket object to ask, open   *)
(* and bound unless lwIP refused it, and, in a group, the membership of    *)
(* that very socket, after any number of reconnects, unless lwIP refused   *)
(* that.                                                                   *)
(***************************************************************************)
PollsASocket ==
  at = "poll" =>
    /\ m_dramSocket[Task] # nullptr
    /\ refused[Task] \cap {"socket", "bind"} = {} =>
         m_bIsConnected[Task] /\ m_dramSocket[Task] \in bound

MembershipKept ==
  at = "poll" /\ m_bIsMulticast[Task] /\ refused[Task] = {} =>
    m_dramSocket[Task] \in member

(***************************************************************************)
(* Each audio datagram is handed to the ring at most once and in order of  *)
(* arrival, across reconnects and restarts, empty ones in between or not.  *)
(***************************************************************************)
HandedInOrder ==
  \A i, j \in 1..Len(handed) : i < j => handed[i][1] < handed[j][1]

(***************************************************************************)
(* A datagram that reached the mailbox is thrown away only by the commands *)
(* that close the socket.                                                  *)
(***************************************************************************)
Queued(id) == \E d \in Descriptors : id \in Ids(mail[d])

DiscardedByCommand ==
  [][\A id \in 1..MaxArrivals :
       Queued(id) /\ id \in lost' =>
         pkg # NoPkg /\ pkg.command \in {"reconnect", "restart"}]_dvars

(***************************************************************************)
(* The busy loop gets round to every datagram that has bytes, or that one  *)
(* with bytes waits behind.  To an empty one alone it need not:            *)
(***************************************************************************)
Awaited(id) ==
  \E d \in Descriptors : \E i, j \in 1..Len(mail[d]) :
    i =< j /\ mail[d][i].id = id /\ HasBytes(mail[d][j])

QueuedIsTaken ==
  \A id \in 1..MaxArrivals :
    Awaited(id) ~> id \in lost \/ \E i \in 1..Len(received[Task]) : received[Task][i] = id

(***************************************************************************)
(* A task that polls a mailbox full of empty datagrams is deaf for ever:   *)
(* available() stays 0, nothing empties the mailbox, and what arrives is   *)
(* dropped, commands to reconnect and to restart included.                 *)
(***************************************************************************)
Deaf ==
  /\ at = "poll" /\ m_dramSocket[Task] \in bound
  /\ LET q == mail[m_dramSocket[Task]] IN
     Len(q) = MailLimit /\ \A i \in 1..Len(q) : ~ HasBytes(q[i])

DeafForEver ==
  [][Deaf => Deaf' /\ UNCHANGED <<mail, received>>]_dvars

(***************************************************************************)
(* "The real paket are send with udp" (include/audio_chunk.h): the task    *)
(* hands over the data the datagram carries.                               *)
(***************************************************************************)
AudioHandedOver ==
  \A i \in 1..Len(handed) : handed[i][2] = PayloadSize
===============================================================================
