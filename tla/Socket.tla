-------------------------------- MODULE Socket --------------------------------
(***************************************************************************)
(* socket, dgram_socket and stream_socket (src/socket.cpp) when several    *)
(* tasks share the objects.  An object has three mutexes: m_bLockSend for  *)
(* sending, m_bLockRecive for receiving, m_bLock for all other calls but   *)
(* close and get_peername, which take none.  A call is three steps: it     *)
(* gets its mutex, calls lwIP, and looks at the shared m_iLastError and    *)
(* returns.  close leaves the number of the descriptor in m_iHandle, and   *)
(* the destructor closes it again.                                         *)
(*                                                                         *)
(* lwIP is outside the repository: a table of descriptors, of which the    *)
(* lowest free one is given out; any call of it may fail.  What the peers  *)
(* do is not modelled: a call that may block may also go on at any time.   *)
(***************************************************************************)
EXTENDS Integers, FiniteSets

CONSTANTS
  Uses,         \* Uses[t]: the calls task t makes, for the tasks that share the objects
  NoTask,       \* the owner of a free mutex
  Descriptors,  \* lwIP's, numbers from 0
  Timeouts,     \* values of the timeout options; Never is one of them
  Never,        \* no timeout: 0xffffffff in an object, 0 in lwIP
  MaxSockets    \* bound: socket objects ever made

Tasks == DOMAIN Uses

(***************************************************************************)
(* The calls.  "get" stands for those that take m_bLock and change nothing *)
(* told apart here: available, get_endpoint, get_option_int, get_option_ex *)
(* and connect, which ends because lwIP gives up asking; send is also      *)
(* send_to, recive is recive_from.  set_options sets the receive timeout:  *)
(* from an int, or (set_options_raw) with the overload for a void pointer. *)
(***************************************************************************)
Setters == {"set_options", "set_options_raw"}
Calls == Setters \cup {"get", "bind", "listen", "accept", "send", "recive", "get_peername"}

ASSUME SocketAssumption ==
  /\ Uses \in [Tasks -> SUBSET Calls]
  /\ NoTask \notin Tasks
  /\ Descriptors \subseteq Nat
  /\ Never \in Timeouts
  /\ MaxSockets \in Nat

(* Objects are numbered in the order they are made. *)
Sockets  == 1..MaxSockets
Nobody   == 0
NoHandle == -1

Mutexes == {"m_bLock", "m_bLockSend", "m_bLockRecive"}

LockOf_SetsUnlocked(c) ==              \* fault: set_options takes no mutex
  CASE c = "send"   -> "m_bLockSend"
    [] c = "recive" -> "m_bLockRecive"
    [] c \in Setters \cup {"get_peername"} -> "none"
    [] OTHER -> "m_bLock"

LockOf_OneForAll(c) ==                 \* fault: one mutex for everything
  IF c = "get_peername" THEN "none" ELSE "m_bLock"

LockOf(c) ==
  CASE c = "send"         -> "m_bLockSend"
    [] c = "recive"       -> "m_bLockRecive"
    [] c = "get_peername" -> "none"
    [] OTHER              -> "m_bLock"

VARIABLES
  m_iHandle, m_recvTimeout,   \* of every object
  m_iLastError,               \* whose call has stored it (the value is not told apart)
  alive, closes,              \* history: not yet destroyed; how often closed
  lock,                       \* owner of every mutex
  call,                       \* of every task; set: its set_options has succeeded
  lwip                        \* every descriptor: owner (history) and options

object == <<m_iHandle, m_recvTimeout, m_iLastError>>
life   == <<alive, closes>>
svars  == <<object, life, lock, call, lwip>>

Idle   == [at |-> "idle", name |-> "get", on |-> Nobody, value |-> Never, set |-> FALSE]
Closed == [owner |-> Nobody, nonblock |-> FALSE, listens |-> FALSE, timeout |-> Never]
Opened(o) == [Closed EXCEPT !.owner = o]
Result == [by : Tasks \cup {NoTask}, under : Mutexes \cup {"none"}]
Past   == [by |-> NoTask, under |-> "none"]     \* of a call that has returned

SInit ==
  /\ m_iHandle = [o \in Sockets |-> NoHandle]
  /\ m_recvTimeout = [o \in Sockets |-> Never]
  /\ m_iLastError = [o \in Sockets |-> Past]
  /\ alive = [o \in Sockets |-> FALSE]
  /\ closes = [o \in Sockets |-> 0]
  /\ lock = [o \in Sockets |-> [m \in Mutexes |-> NoTask]]
  /\ call = [t \in Tasks |-> Idle]
  /\ lwip = [d \in Descriptors |-> Closed]

-------------------------------------------------------------------------------
Unmade    == {o \in Sockets : ~ alive[o] /\ closes[o] = 0}
Fresh(o)  == o \in Unmade /\ \A p \in Unmade : o =< p
IsOpen(d) == d \in Descriptors /\ lwip[d].owner # Nobody
Lowest(d) ==
  /\ d \in Descriptors /\ ~ IsOpen(d)
  /\ \A e \in Descriptors : IsOpen(e) \/ d =< e

At(t, at)   == call[t].at = at
Goto(t, at) == call' = [call EXCEPT ![t].at = at]
Stored(t)   == [by |-> t, under |-> LockOf(call[t].name)]
Older(t, e) == IF e.by = t THEN Past ELSE e

(* A constructor: the object o with the descriptor d. *)
Made(o, d) ==
  /\ Fresh(o)
  /\ alive' = [alive EXCEPT ![o] = TRUE]
  /\ m_iHandle' = [m_iHandle EXCEPT ![o] = d]

(* socket(family, type, protocol): lwip_socket may fail. *)
New(t) ==
  /\ At(t, "idle")
  /\ \E o \in Sockets :
       \/ \E d \in Descriptors :
            /\ Lowest(d)
            /\ Made(o, d)
            /\ lwip' = [lwip EXCEPT ![d] = Opened(o)]
       \/ Made(o, NoHandle) /\ UNCHANGED lwip
  /\ UNCHANGED <<m_recvTimeout, m_iLastError, closes, lock, call>>

-------------------------------------------------------------------------------
(* The start of a call, on any object that lives. *)
Call(t, o, c, v) ==
  /\ At(t, "idle")
  /\ alive[o]
  /\ c \in Uses[t]
  /\ call' = [call EXCEPT ![t] =
              [at |-> "enter", name |-> c, on |-> o, value |-> v, set |-> FALSE]]
  /\ UNCHANGED <<object, life, lock, lwip>>

Unlocked_Impatient(o, m) == TRUE       \* fault: a wait that runs out is ignored
Unlocked(o, m) == m \in Mutexes => lock[o][m] = NoTask

(***************************************************************************)
(* autolock.  A locked call returns at once when there is no handle;       *)
(* set_options stores an int before it asks lwIP, and keeps it if lwIP     *)
(* refuses; the raw overload never stores what it sets.                    *)
(***************************************************************************)
Enter(t) ==
  LET o == call[t].on  m == LockOf(call[t].name) IN
  /\ At(t, "enter")
  /\ Unlocked(o, m)
  /\ IF m \in Mutexes /\ m_iHandle[o] = NoHandle
     THEN call' = [call EXCEPT ![t] = Idle] /\ UNCHANGED <<m_recvTimeout, lock>>
     ELSE /\ Goto(t, "lwip")
          /\ lock' = IF m \in Mutexes THEN [lock EXCEPT ![o][m] = t] ELSE lock
          /\ m_recvTimeout' = IF call[t].name = "set_options"
                              THEN [m_recvTimeout EXCEPT ![o] = call[t].value]
                              ELSE m_recvTimeout
  /\ UNCHANGED <<m_iHandle, m_iLastError, life, lwip>>

(***************************************************************************)
(* The call of lwIP: it fails, as it must on a descriptor that is closed,  *)
(* or does this to the descriptor r.                                       *)
(***************************************************************************)
Effect(c, v, r) ==
  CASE c = "listen"  -> [r EXCEPT !.listens = TRUE]
    [] c \in Setters -> [r EXCEPT !.timeout = v]
    [] OTHER         -> r

lwip_call(t) ==
  LET o == call[t].on  c == call[t].name  d == m_iHandle[o] IN
  /\ At(t, "lwip") /\ c # "accept"
  /\ m_iLastError' = [m_iLastError EXCEPT ![o] = Stored(t)]
  /\ \/ /\ IsOpen(d)
        /\ lwip' = [lwip EXCEPT ![d] = Effect(c, call[t].value, @)]
        /\ call' = [call EXCEPT ![t].at = "return", ![t].set = (c = "set_options")]
     \/ UNCHANGED lwip /\ Goto(t, "return")
  /\ UNCHANGED <<m_iHandle, m_recvTimeout, life, lock>>

ClientHandle_Listener(o, d) == m_iHandle[o]    \* fault: not clientfd
ClientHandle(o, d) == d

(***************************************************************************)
(* accept: a new descriptor, which blocks whatever the listening one does, *)
(* and a new object around it.  Only an error is stored.                   *)
(***************************************************************************)
accept(t) ==
  LET o == call[t].on IN
  /\ At(t, "lwip") /\ call[t].name = "accept"
  /\ \/ /\ IsOpen(m_iHandle[o]) /\ lwip[m_iHandle[o]].listens
        /\ \E n \in Sockets, d \in Descriptors :
             /\ Lowest(d)
             /\ Made(n, ClientHandle(o, d))
             /\ lwip' = [lwip EXCEPT ![d] = Opened(n)]
        /\ UNCHANGED m_iLastError
     \/ /\ m_iLastError' = [m_iLastError EXCEPT ![o] = Stored(t)]
        /\ UNCHANGED <<m_iHandle, alive, lwip>>
  /\ Goto(t, "return")
  /\ UNCHANGED <<m_recvTimeout, closes, lock>>

fcntl(d) == lwip' = IF IsOpen(d) THEN [lwip EXCEPT ![d].nonblock = TRUE] ELSE lwip

(***************************************************************************)
(* The end of a call.  What it reports is m_iLastError, read once more:    *)
(* the result of its own call of lwIP, or, since the field is shared by    *)
(* all three mutexes, what another task has stored since.  bind makes the  *)
(* descriptor non-blocking if it believes it is bound, and reports success *)
(* even if fcntl fails.                                                    *)
(***************************************************************************)
Return(t) ==
  LET o == call[t].on  m == LockOf(call[t].name) IN
  /\ At(t, "return")
  /\ call' = [call EXCEPT ![t] = Idle]
  /\ lock' = IF m \in Mutexes THEN [lock EXCEPT ![o][m] = NoTask] ELSE lock
  /\ \/ call[t].name = "bind" /\ fcntl(m_iHandle[o])
     \/ UNCHANGED lwip
  /\ m_iLastError' = [m_iLastError EXCEPT ![o] = Older(t, @)]
  /\ UNCHANGED <<m_iHandle, m_recvTimeout, life>>

-------------------------------------------------------------------------------
lwip_close(d) == lwip' = IF IsOpen(d) THEN [lwip EXCEPT ![d] = Closed] ELSE lwip

(* close, by hand: once (a bound of the model).  It asks for no mutex. *)
close(t, o) ==
  /\ At(t, "idle")
  /\ alive[o] /\ closes[o] = 0
  /\ closes' = [closes EXCEPT ![o] = 1]
  /\ lwip_close(m_iHandle[o])
  /\ UNCHANGED <<object, alive, lock, call>>

(* The destructor, when no task is in a call of the object. *)
delete(t, o) ==
  /\ At(t, "idle")
  /\ alive[o] /\ \A u \in Tasks : At(u, "idle") \/ call[u].on # o
  /\ alive' = [alive EXCEPT ![o] = FALSE]
  /\ closes' = [closes EXCEPT ![o] = @ + 1]
  /\ lwip_close(m_iHandle[o])
  /\ m_recvTimeout' = [m_recvTimeout EXCEPT ![o] = Never]
  /\ m_iLastError' = [m_iLastError EXCEPT ![o] = Past]
  /\ UNCHANGED <<m_iHandle, lock, call>>

Step(t) == Enter(t) \/ lwip_call(t) \/ accept(t) \/ Return(t)

SNext ==
  \E t \in Tasks :
    \/ New(t) \/ Step(t)
    \/ \E o \in Sockets :
         \/ close(t, o) \/ delete(t, o)
         \/ \E c \in Calls \ Setters : Call(t, o, c, Never)
         \/ \E c \in Setters, v \in Timeouts : Call(t, o, c, v)

SSpec == SInit /\ [][SNext]_svars

(***************************************************************************)
(* Tasks in a call keep running, and a mutex is handed to its waiters in   *)
(* turn.  Nobody has to call.  lwIP ends a call, but one that waits for a  *)
(* peer may never end: a send or a recive, and an accept on a descriptor   *)
(* that listens, blocks and has no timeout.                                *)
(***************************************************************************)
AcceptWaits(t) ==
  LET d == m_iHandle[call[t].on] IN
  /\ At(t, "lwip") /\ call[t].name = "accept"
  /\ IsOpen(d) /\ lwip[d].listens /\ ~ lwip[d].nonblock /\ lwip[d].timeout = Never

MayBlock(t) == call[t].name \in {"send", "recive"} \/ AcceptWaits(t)

SFairness ==
  \A t \in Tasks :
    /\ SF_svars(Enter(t))
    /\ WF_svars(~ MayBlock(t) /\ (lwip_call(t) \/ accept(t)))
    /\ WF_svars(Return(t))

SFairSpec == SSpec /\ SFairness

-------------------------------------------------------------------------------
(* A call that is past Enter. *)
Inside(t, o) == call[t].at \in {"lwip", "return"} /\ call[t].on = o

HeldByCallers ==
  \A o \in Sockets, m \in Mutexes, t \in Tasks :
    lock[o][m] = t <=> Inside(t, o) /\ LockOf(call[t].name) = m

(***************************************************************************)
(* Types.  A mutex belongs to the one task that is in a call under it.     *)
(***************************************************************************)
CallRecord == [at : {"idle", "enter", "lwip", "return"}, name : Calls,
               on : Sockets \cup {Nobody}, value : Timeouts, set : BOOLEAN]
Descriptor == [owner : Sockets \cup {Nobody}, nonblock : BOOLEAN,
               listens : BOOLEAN, timeout : Timeouts]

STypeOK ==
  /\ m_iHandle \in [Sockets -> Descriptors \cup {NoHandle}]
  /\ m_recvTimeout \in [Sockets -> Timeouts]
  /\ m_iLastError \in [Sockets -> Result]
  /\ alive \in [Sockets -> BOOLEAN] /\ closes \in [Sockets -> 0..2]
  /\ lock \in [Sockets -> [Mutexes -> Tasks \cup {NoTask}]]
  /\ call \in [Tasks -> CallRecord]
  /\ lwip \in [Descriptors -> Descriptor]
  /\ HeldByCallers

(***************************************************************************)
(* m_iLastError is shared by calls that do not exclude each other.  What a *)
(* call finds there when it returns was stored by itself, or under another *)
(* mutex: two calls of the same kind never take each other's result.       *)
(***************************************************************************)
ResultsOfOneMutex ==
  \A o \in Sockets, t \in Tasks :
    LET e == m_iLastError[o] IN
    /\ At(t, "return") /\ call[t].on = o
    /\ call[t].name # "accept" /\ LockOf(call[t].name) \in Mutexes
    => e.by = t \/ e.under # LockOf(call[t].name)

(***************************************************************************)
(* The member and the option of lwIP are set one after the other, by tasks *)
(* that may all be setting them.  A task whose set_options has succeeded   *)
(* finds its own value in force when it returns, and told by               *)
(* get_recv_timeout, unless the descriptor has been closed meanwhile, or   *)
(* its number stands in two objects, as a close by hand may bring about.   *)
(***************************************************************************)
Shared(o) == \E p \in Sockets \ {o} : alive[p] /\ m_iHandle[p] = m_iHandle[o]

TimeoutInForce ==
  \A t \in Tasks :
    LET o == call[t].on IN
    At(t, "return") /\ call[t].set =>
      /\ m_recvTimeout[o] = call[t].value
      /\ \/ lwip[m_iHandle[o]].timeout = call[t].value
         \/ lwip[m_iHandle[o]].owner # o \/ Shared(o)

(***************************************************************************)
(* An object that nobody has closed keeps its descriptor, unless another   *)
(* object with the same number has been closed twice, by hand and by its   *)
(* destructor.                                                             *)
(***************************************************************************)
LostByDoubleClose ==
  \A o \in Sockets :
    alive[o] /\ closes[o] = 0 /\ m_iHandle[o] # NoHandle =>
      \/ lwip[m_iHandle[o]].owner = o
      \/ \E p \in Sockets \ {o} : m_iHandle[p] = m_iHandle[o] /\ closes[p] = 2

(***************************************************************************)
(* Every call but send and recive comes back.  It may have to wait for     *)
(* ever for one thing: an accept of the same object that holds m_bLock and *)
(* waits for a peer, which it does if nothing has made the descriptor      *)
(* non-blocking.  A send or recive that never ends holds up nobody here.   *)
(* Nothing is promised while some object has another one's descriptor.     *)
(***************************************************************************)
Foreign ==
  \E o \in Sockets :
    alive[o] /\ IsOpen(m_iHandle[o]) /\ lwip[m_iHandle[o]].owner # o

HeldUp(t) ==
  /\ LockOf(call[t].name) = "m_bLock"
  /\ \E u \in Tasks : AcceptWaits(u) /\ call[u].on = call[t].on

CallsReturn ==
  \A t \in Tasks :
    ~ At(t, "idle") /\ call[t].name \notin {"send", "recive"}
      ~> At(t, "idle") \/ Foreign \/ []HeldUp(t)
===============================================================================
