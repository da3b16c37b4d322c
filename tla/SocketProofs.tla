---------------------------- MODULE SocketProofs ----------------------------
(***************************************************************************)
(* Theorems about Socket, for any tasks, calls, descriptors and number of  *)
(* objects.  The invariants of the run are inductive together with who may *)
(* own a descriptor, be in a call, or be inside of a set_options.          *)
(***************************************************************************)
EXTENDS Socket, TLAPS

(* A descriptor is owned by a living object that has its number. *)
OwnersLive ==
  \A d \in Descriptors :
    LET o == lwip[d].owner IN o # Nobody => alive[o] /\ m_iHandle[o] = d

(* Nobody is in a call of an object that does not live. *)
CallsLive ==
  \A t \in Tasks : ~ At(t, "idle") => call[t].on \in Sockets /\ alive[call[t].on]

(* An object that lives has not been destroyed. *)
ClosedOnceAlive == \A o \in Sockets : alive[o] => closes[o] < 2

(* Between the halves of set_options the member has the new value. *)
Halfway(t) == At(t, "lwip") /\ call[t].name = "set_options"

MemberSet ==
  \A t \in Tasks : Halfway(t) => m_recvTimeout[call[t].on] = call[t].value

(* After them the option has it too: TimeoutInForce, and where the call is. *)
OptionSet(t) ==
  LET o == call[t].on IN
  /\ At(t, "return") /\ call[t].name = "set_options"
  /\ m_iHandle[o] \in Descriptors /\ m_recvTimeout[o] = call[t].value
  /\ \/ lwip[m_iHandle[o]].timeout = call[t].value
     \/ lwip[m_iHandle[o]].owner # o \/ Shared(o)

OptionsSet == \A t \in Tasks : call[t].set => OptionSet(t)

SInv ==
  /\ STypeOK /\ OwnersLive /\ CallsLive /\ ClosedOnceAlive /\ ResultsOfOneMutex
  /\ MemberSet /\ OptionsSet /\ LostByDoubleClose

-----------------------------------------------------------------------------
LEMMA LockOfType == \A c : LockOf(c) \in Mutexes \cup {"none"}
  BY DEF LockOf, Mutexes

LEMMA InitSafe == SInit => SInv
  <1> SUFFICES ASSUME SInit PROVE SInv
    OBVIOUS
  <1> USE SocketAssumption DEF SInit, Idle, Closed, Past, At, Inside, Halfway
  <1>1. STypeOK
    BY DEF STypeOK, HeldByCallers, Result, CallRecord, Descriptor, Calls, Setters, NoHandle, Nobody, Mutexes
  <1>2. OwnersLive /\ CallsLive /\ ClosedOnceAlive
    BY DEF OwnersLive, CallsLive, ClosedOnceAlive
  <1>3. ResultsOfOneMutex /\ MemberSet
    BY DEF ResultsOfOneMutex, MemberSet
  <1>4. OptionsSet /\ LostByDoubleClose
    BY DEF OptionsSet, LostByDoubleClose
  <1>. QED
    BY <1>1, <1>2, <1>3, <1>4 DEF SInv

(* A step that leaves alone what a set_options has set leaves it in force. *)
LEMMA OptionsKept ==
  ASSUME SInv,
         \A u \in Tasks : call'[u].set => call'[u] = call[u],
         \A u \in Tasks : call'[u].set =>
           LET x == call[u].on  d == m_iHandle[x] IN
           /\ m_iHandle'[x] = d /\ m_recvTimeout'[x] = m_recvTimeout[x]
           /\ \/ lwip'[d].timeout = lwip[d].timeout /\ (lwip[d].owner # x => lwip'[d].owner # x)
              \/ lwip'[d].owner # x \/ Shared(x)'
           /\ Shared(x) => Shared(x)' \/ lwip'[d].owner # x
  PROVE  OptionsSet'
  <1>. SUFFICES ASSUME NEW u \in Tasks, call'[u].set
                PROVE  OptionSet(u)'
    BY DEF OptionsSet
  <1> DEFINE x == call[u].on  d == m_iHandle[x]
  <1>1. call'[u] = call[u] /\ OptionSet(u)
    BY DEF SInv, OptionsSet
  <1>2. /\ m_iHandle'[x] = d /\ m_recvTimeout'[x] = m_recvTimeout[x]
        /\ \/ lwip'[d].timeout = lwip[d].timeout /\ (lwip[d].owner # x => lwip'[d].owner # x)
           \/ lwip'[d].owner # x \/ Shared(x)'
        /\ Shared(x) => Shared(x)' \/ lwip'[d].owner # x
    OBVIOUS
  <1>3. Shared(call[u].on)' <=> Shared(x)'
    BY <1>1 DEF Shared
  <1>4. /\ call[u].at = "return" /\ call[u].name = "set_options"
        /\ d \in Descriptors /\ m_recvTimeout[x] = call[u].value
        /\ lwip[d].timeout = call[u].value \/ lwip[d].owner # x \/ Shared(x)
    BY <1>1 DEF OptionSet, At
  <1>5. lwip'[d].timeout = call[u].value \/ lwip'[d].owner # x \/ Shared(x)'
    BY <1>2, <1>4
  <1>6. /\ call'[u].at = "return" /\ call'[u].name = "set_options"
        /\ call'[u].on = x /\ call'[u].value = call[u].value
    BY <1>1, <1>4
  <1>. HIDE DEF x, d
  <1>7. /\ m_iHandle'[x] \in Descriptors /\ m_recvTimeout'[x] = call[u].value
        /\ lwip'[m_iHandle'[x]].timeout = call[u].value \/ lwip'[m_iHandle'[x]].owner # x \/ Shared(x)'
    BY <1>2, <1>4, <1>5
  <1>. QED
    BY <1>3, <1>6, <1>7 DEF OptionSet, At, x

LEMMA EnterSafe ==
  ASSUME SInv, NEW t \in Tasks, Enter(t)
  PROVE  SInv'
  <1> DEFINE o == call[t].on  m == LockOf(call[t].name)
             in == m \notin Mutexes \/ m_iHandle[o] # NoHandle
  <1> USE SocketAssumption
  <1>0. STypeOK /\ call[t].at = "enter" /\ call[t].name \in Calls /\ call[t].value \in Timeouts
        /\ o \in Sockets /\ alive[o]
    BY DEF SInv, CallsLive, STypeOK, CallRecord, Enter, At
  <1>1. \A u \in Tasks : u # t => call'[u] = call[u]
    BY <1>0 DEF Enter, Goto, STypeOK
  <1>2. /\ in => /\ call'[t] = [call[t] EXCEPT !.at = "lwip"]
                 /\ call'[t].at = "lwip" /\ call'[t].name = call[t].name
                 /\ call'[t].on = o /\ call'[t].value = call[t].value
        /\ ~ in => call'[t] = Idle /\ call'[t].at = "idle"
        /\ call'[t] \in CallRecord
    <2>1. in => call' = [call EXCEPT ![t].at = "lwip"]
      BY DEF Enter, Goto
    <2>2. ~ in => call' = [call EXCEPT ![t] = Idle]
      BY DEF Enter
    <2>3. call[t] \in CallRecord /\ t \in DOMAIN call
      BY <1>0 DEF STypeOK
    <2>4. CASE in
      <3> DEFINE r == [call[t] EXCEPT !.at = "lwip"]
      <3>1. /\ r \in CallRecord /\ r.at = "lwip" /\ r.name = call[t].name
            /\ r.on = o /\ r.value = call[t].value
        BY <2>3 DEF CallRecord
      <3>2. call'[t] = r
        BY <2>1, <2>3, <2>4
      <3>. QED
        BY <2>4, <3>1, <3>2
    <2>5. CASE ~ in
      <3>1. Idle \in CallRecord /\ Idle.at = "idle"
        BY DEF Idle, CallRecord, Calls
      <3>. QED
        BY <2>2, <2>3, <2>5, <3>1
    <2>. QED
      BY <2>4, <2>5
  <1>3. /\ in /\ m \in Mutexes => lock'[o][m] = t
        /\ \A x \in Sockets, y \in Mutexes :
             ~ (in /\ x = o /\ y = m) => lock'[x][y] = lock[x][y]
        /\ m \in Mutexes => lock[o][m] = NoTask
    BY <1>0, LockOfType DEF Enter, STypeOK, Unlocked
  <1>4. /\ UNCHANGED <<m_iHandle, m_iLastError, alive, closes, lwip>>
        /\ in /\ call[t].name = "set_options" => m_recvTimeout'[o] = call[t].value
        /\ \A x \in Sockets : ~ (in /\ x = o /\ call[t].name = "set_options") =>
             m_recvTimeout'[x] = m_recvTimeout[x]
    BY <1>0 DEF Enter, STypeOK, life
  <1>5. call' \in [Tasks -> CallRecord] /\ lock' \in [Sockets -> [Mutexes -> Tasks \cup {NoTask}]]
        /\ m_recvTimeout' \in [Sockets -> Timeouts]
    <2>1. call'[t] \in CallRecord
      BY <1>2
    <2>2. DOMAIN call' = Tasks /\ call' = [u \in Tasks |-> call'[u]]
      BY <1>0 DEF Enter, Goto, STypeOK
    <2>3. call' \in [Tasks -> CallRecord]
      BY <1>0, <1>1, <2>1, <2>2 DEF STypeOK
    <2>4. m \in Mutexes => [lock[o] EXCEPT ![m] = t] \in [Mutexes -> Tasks \cup {NoTask}]
      BY <1>0 DEF STypeOK
    <2>5. lock' \in [Sockets -> [Mutexes -> Tasks \cup {NoTask}]]
      BY <1>0, <2>4 DEF Enter, STypeOK
    <2>6. m_recvTimeout' \in [Sockets -> Timeouts]
      BY <1>0 DEF Enter, STypeOK
    <2>. QED
      BY <2>3, <2>5, <2>6
  <1> HIDE DEF in
  <1>6. HeldByCallers'
    <2>. SUFFICES ASSUME NEW x \in Sockets, NEW y \in Mutexes, NEW u \in Tasks
                  PROVE  lock'[x][y] = u <=> Inside(u, x)' /\ LockOf(call'[u].name) = y
      BY DEF HeldByCallers
    <2>1. lock[x][y] = u <=> Inside(u, x) /\ LockOf(call[u].name) = y
      BY <1>0 DEF STypeOK, HeldByCallers
    <2>2. CASE u = t
      BY <1>0, <1>2, <1>3, <2>1, <2>2 DEF Inside
    <2>3. CASE u # t
      <3>1. call'[u] = call[u] /\ (Inside(u, x)' <=> Inside(u, x))
        BY <1>1, <2>3 DEF Inside
      <3>. QED
        BY <1>3, <2>1, <2>3, <3>1
    <2>. QED
      BY <2>2, <2>3
  <1>7. (OwnersLive /\ CallsLive /\ ClosedOnceAlive /\ LostByDoubleClose)'
    BY <1>0, <1>1, <1>2, <1>4
    DEF SInv, OwnersLive, CallsLive, ClosedOnceAlive, LostByDoubleClose, At
  <1>8. ResultsOfOneMutex'
    BY <1>0, <1>1, <1>2, <1>4 DEF SInv, ResultsOfOneMutex, At
  <1>9. MemberSet'
    <2>1. LockOf("set_options") = "m_bLock" /\ "m_bLock" \in Mutexes
      BY DEF LockOf, Mutexes
    <2>2. ASSUME NEW u \in Tasks, u # t, Halfway(u), call[u].on = o
          PROVE  call[t].name # "set_options"
      <3>1. lock[o][m] = u \/ LockOf(call[u].name) # m \/ m \notin Mutexes
        BY <1>0, <2>2 DEF STypeOK, HeldByCallers, Inside, Halfway, At
      <3>. QED
        BY <1>3, <2>1, <2>2, <3>1 DEF Halfway
    <2>3. \A u \in Tasks : u # t => (Halfway(u)' <=> Halfway(u))
      BY <1>1 DEF Halfway, At
    <2>4. \A u \in Tasks : Halfway(u) => call[u].on \in Sockets
      BY DEF SInv, CallsLive, Halfway, At
    <2>. QED
      BY <1>0, <1>1, <1>2, <1>4, <2>2, <2>3, <2>4 DEF SInv, MemberSet, Halfway, At
  <1>10. OptionsSet'
    <2>1. \A u \in Tasks : call'[u].set => call'[u] = call[u] /\ u # t
      <3>1. ~ call[t].set /\ ~ Idle.set
        BY <1>0 DEF SInv, OptionsSet, OptionSet, At, Idle
      <3>2. ~ call'[t].set
        <4>1. call' = [call EXCEPT ![t].at = "lwip"] \/ call' = [call EXCEPT ![t] = Idle]
          BY DEF Enter, Goto
        <4>. QED
          BY <1>0, <3>1, <4>1 DEF STypeOK, CallRecord
      <3>. QED
        BY <1>1, <3>2
    <2>2. ASSUME NEW u \in Tasks, call'[u].set
          PROVE  call[u].on \in Sockets /\ m_recvTimeout'[call[u].on] = m_recvTimeout[call[u].on]
      <3>1. u # t /\ call[u].set /\ OptionSet(u)
        BY <2>1, <2>2 DEF SInv, OptionsSet
      <3>2. call[u].on \in Sockets
        BY <3>1 DEF SInv, CallsLive, OptionSet, At
      <3>3. CASE call[t].name = "set_options" /\ call[u].on = o
        <4>1. m = "m_bLock" /\ m \in Mutexes /\ LockOf(call[u].name) = m
          BY <3>1, <3>3 DEF LockOf, Mutexes, OptionSet
        <4>2. lock[o][m] = u
          BY <1>0, <3>1, <3>3, <4>1 DEF STypeOK, HeldByCallers, Inside, OptionSet, At
        <4>. QED
          BY <1>3, <3>2, <4>1, <4>2
      <3>. QED
        BY <1>4, <3>2, <3>3
    <2>. QED
      BY <1>4, <2>1, <2>2, OptionsKept DEF Shared
  <1>. QED
    BY <1>0, <1>4, <1>5, <1>6, <1>7, <1>8, <1>9, <1>10 DEF SInv, STypeOK

(* A new object: its descriptor was free, so it takes none from another. *)
LEMMA MadeSafe ==
  ASSUME SInv, NEW n \in Sockets, NEW h \in Descriptors \cup {NoHandle},
         Made(n, h), UNCHANGED <<m_recvTimeout, closes>>,
         \/ h \in Descriptors /\ Lowest(h) /\ lwip' = [lwip EXCEPT ![h] = Opened(n)]
         \/ h = NoHandle /\ UNCHANGED lwip,
         \A u \in Tasks : call'[u].set => call'[u] = call[u]
  PROVE  /\ m_iHandle' \in [Sockets -> Descriptors \cup {NoHandle}]
         /\ alive' \in [Sockets -> BOOLEAN] /\ lwip' \in [Descriptors -> Descriptor]
         /\ \A x \in Sockets : alive[x] => alive'[x]
         /\ (OwnersLive /\ ClosedOnceAlive /\ OptionsSet /\ LostByDoubleClose)'
  <1> USE SocketAssumption
  <1>0. STypeOK /\ n # Nobody /\ ~ alive[n] /\ closes[n] = 0 /\ NoHandle \notin Descriptors
    BY DEF SInv, STypeOK, Made, Fresh, Unmade, Sockets, Nobody, NoHandle
  <1>1. /\ m_iHandle' \in [Sockets -> Descriptors \cup {NoHandle}]
        /\ m_iHandle'[n] = h /\ \A x \in Sockets : x # n => m_iHandle'[x] = m_iHandle[x]
    BY <1>0 DEF STypeOK, Made
  <1>2. /\ alive' \in [Sockets -> BOOLEAN]
        /\ alive'[n] /\ \A x \in Sockets : x # n => alive'[x] = alive[x]
    BY <1>0 DEF STypeOK, Made
  <1>3. /\ lwip' \in [Descriptors -> Descriptor]
        /\ h \in Descriptors => lwip'[h].owner = n /\ lwip[h].owner = Nobody
        /\ \A d \in Descriptors : d # h => lwip'[d] = lwip[d]
    <2>1. Opened(n) \in Descriptor /\ Opened(n).owner = n
      BY DEF Opened, Closed, Descriptor
    <2>. QED
      BY <1>0, <2>1 DEF STypeOK, Lowest, IsOpen
  <1>4. UNCHANGED <<m_recvTimeout, closes>> /\ \A d \in Descriptors : lwip[d].owner # n
    BY <1>0 DEF SInv, OwnersLive
  <1>5. OwnersLive'
    <2>. SUFFICES ASSUME NEW d \in Descriptors, lwip'[d].owner # Nobody
                  PROVE  alive'[lwip'[d].owner] /\ m_iHandle'[lwip'[d].owner] = d
      BY DEF OwnersLive
    <2>1. CASE d = h
      BY <1>1, <1>2, <1>3, <2>1
    <2>2. CASE d # h
      <3>1. lwip'[d].owner = lwip[d].owner /\ lwip[d].owner \in Sockets
        BY <1>0, <1>3, <2>2 DEF STypeOK, Descriptor
      <3>. QED
        BY <1>1, <1>2, <1>4, <3>1 DEF SInv, OwnersLive
    <2>. QED
      BY <2>1, <2>2
  <1>6. ClosedOnceAlive'
    BY <1>0, <1>2, <1>4 DEF SInv, ClosedOnceAlive
  <1>7. OptionsSet'
    <2>. SUFFICES ASSUME NEW u \in Tasks, call'[u].set
                  PROVE  LET x == call[u].on  d == m_iHandle[x] IN
                         /\ m_iHandle'[x] = d
                         /\ \/ lwip'[d].timeout = lwip[d].timeout /\ lwip'[d].owner = lwip[d].owner
                            \/ lwip'[d].owner # x
                         /\ Shared(x) => Shared(x)'
      BY <1>4, OptionsKept
    <2> DEFINE x == call[u].on  d == m_iHandle[x]
    <2>1. OptionSet(u) /\ x \in Sockets /\ alive[x] /\ d \in Descriptors
      BY DEF SInv, OptionsSet, OptionSet, CallsLive, At
    <2>2. x # n /\ m_iHandle'[x] = d
      BY <1>0, <1>1, <2>1
    <2>3. lwip'[d] = lwip[d] \/ lwip'[d].owner # x
      BY <1>3, <2>1, <2>2
    <2>4. Shared(x) => Shared(x)'
      BY <1>0, <1>1, <1>2, <2>2 DEF Shared
    <2>. QED
      BY <2>2, <2>3, <2>4
  <1>8. LostByDoubleClose'
    <2>. SUFFICES ASSUME NEW x \in Sockets, alive'[x], closes[x] = 0, m_iHandle'[x] # NoHandle
                  PROVE  \/ lwip'[m_iHandle'[x]].owner = x
                         \/ \E p \in Sockets \ {x} : m_iHandle'[p] = m_iHandle'[x] /\ closes[p] = 2
      BY <1>4 DEF LostByDoubleClose
    <2>1. CASE x = n
      BY <1>1, <1>3, <2>1
    <2>2. CASE x # n
      <3>1. alive[x] /\ m_iHandle'[x] = m_iHandle[x] /\ m_iHandle[x] \in Descriptors
        BY <1>0, <1>1, <1>2, <2>2 DEF STypeOK
      <3>2. \/ lwip[m_iHandle[x]].owner = x
            \/ \E p \in Sockets \ {x} : m_iHandle[p] = m_iHandle[x] /\ closes[p] = 2
        BY <3>1 DEF SInv, LostByDoubleClose
      <3>3. x # Nobody
        BY DEF Sockets, Nobody
      <3>. QED
        BY <1>0, <1>1, <1>3, <3>1, <3>2, <3>3
    <2>. QED
      BY <2>1, <2>2
  <1>. QED
    BY <1>1, <1>2, <1>3, <1>5, <1>6, <1>7, <1>8

LEMMA NewSafe ==
  ASSUME SInv, NEW t \in Tasks, New(t)
  PROVE  SInv'
  <1>1. PICK n \in Sockets, h \in Descriptors \cup {NoHandle} :
          /\ Made(n, h)
          /\ \/ h \in Descriptors /\ Lowest(h) /\ lwip' = [lwip EXCEPT ![h] = Opened(n)]
             \/ h = NoHandle /\ UNCHANGED lwip
    BY DEF New
  <1>2. UNCHANGED <<m_recvTimeout, m_iLastError, closes, lock, call>>
    BY DEF New
  <1>3. /\ m_iHandle' \in [Sockets -> Descriptors \cup {NoHandle}]
        /\ alive' \in [Sockets -> BOOLEAN] /\ lwip' \in [Descriptors -> Descriptor]
        /\ \A x \in Sockets : alive[x] => alive'[x]
        /\ (OwnersLive /\ ClosedOnceAlive /\ OptionsSet /\ LostByDoubleClose)'
    BY <1>1, <1>2, MadeSafe
  <1>4. (CallsLive /\ ResultsOfOneMutex /\ MemberSet)'
    BY <1>2, <1>3 DEF SInv, CallsLive, ResultsOfOneMutex, MemberSet, Halfway, At
  <1>5. STypeOK'
    BY <1>2, <1>3 DEF SInv, STypeOK, HeldByCallers, Inside
  <1>. QED
    BY <1>3, <1>4, <1>5 DEF SInv

LEMMA CallSafe ==
  ASSUME SInv, NEW t \in Tasks, NEW o \in Sockets, NEW c \in Calls, NEW v \in Timeouts,
         Call(t, o, c, v)
  PROVE  SInv'
  <1> USE SocketAssumption
  <1>0. STypeOK /\ alive[o] /\ call[t].at = "idle"
        /\ UNCHANGED <<m_iHandle, m_recvTimeout, m_iLastError, alive, closes, lock, lwip>>
    BY DEF SInv, Call, At, object, life
  <1>1. /\ call' \in [Tasks -> CallRecord]
        /\ \A u \in Tasks : u # t => call'[u] = call[u]
        /\ call'[t].at = "enter" /\ call'[t].on = o /\ ~ call'[t].set
    BY <1>0 DEF Call, STypeOK, CallRecord
  <1>2. HeldByCallers'
    <2>1. \A x, u : u \in Tasks /\ u # t => (Inside(u, x)' <=> Inside(u, x)) /\ call'[u] = call[u]
      BY <1>1 DEF Inside
    <2>2. \A x : ~ Inside(t, x) /\ ~ Inside(t, x)'
      BY <1>0, <1>1 DEF Inside
    <2>. SUFFICES ASSUME NEW x \in Sockets, NEW m \in Mutexes, NEW u \in Tasks
                  PROVE  lock[x][m] = u <=> Inside(u, x)' /\ LockOf(call'[u].name) = m
      BY <1>0 DEF HeldByCallers
    <2>3. lock[x][m] = u <=> Inside(u, x) /\ LockOf(call[u].name) = m
      BY <1>0 DEF STypeOK, HeldByCallers
    <2>. QED
      BY <2>1, <2>2, <2>3
  <1>3. \A u \in Tasks : (Halfway(u)' <=> Halfway(u)) /\ (Halfway(u) => call'[u] = call[u])
    BY <1>0, <1>1 DEF Halfway, At
  <1>4. (OwnersLive /\ CallsLive /\ ClosedOnceAlive /\ LostByDoubleClose)'
    BY <1>0, <1>1
    DEF SInv, OwnersLive, CallsLive, ClosedOnceAlive, LostByDoubleClose, At
  <1>5. ResultsOfOneMutex'
    BY <1>0, <1>1 DEF SInv, ResultsOfOneMutex, At
  <1>6. MemberSet' /\ OptionsSet'
    <2>1. MemberSet'
      BY <1>0, <1>3 DEF SInv, MemberSet
    <2>. QED
      BY <1>0, <1>1, <2>1, OptionsKept DEF Shared
  <1>. QED
    BY <1>0, <1>1, <1>2, <1>4, <1>5, <1>6 DEF SInv, STypeOK

(***************************************************************************)
(* The step of lwIP, for lwip_call and accept: the caller keeps its mutex, *)
(* and what it stores is not taken for another call's result under it.     *)
(***************************************************************************)
LEMMA StoreSafe ==
  ASSUME SInv, NEW t \in Tasks, At(t, "lwip"), UNCHANGED lock,
         \/ Goto(t, "return")
         \/ call' = [call EXCEPT ![t].at = "return", ![t].set = (call[t].name = "set_options")],
         \/ m_iLastError' = [m_iLastError EXCEPT ![call[t].on] = Stored(t)]
         \/ call[t].name = "accept" /\ UNCHANGED m_iLastError
  PROVE  /\ call' \in [Tasks -> CallRecord]
         /\ m_iLastError' \in [Sockets -> Result]
         /\ \A u \in Tasks : u # t => call'[u] = call[u]
         /\ call'[t].at = "return" /\ call'[t].on = call[t].on /\ call'[t].name = call[t].name
         /\ call'[t].value = call[t].value /\ (Goto(t, "return") => ~ call'[t].set)
         /\ (HeldByCallers /\ ResultsOfOneMutex)'
  <1> DEFINE o == call[t].on
  <1> USE SocketAssumption
  <1>0. STypeOK /\ o \in Sockets /\ alive[o] /\ call[t].at = "lwip" /\ call[t] \in CallRecord
    BY DEF SInv, CallsLive, STypeOK, At
  <1>1. /\ \A u \in Tasks : u # t => call'[u] = call[u]
        /\ call'[t] \in CallRecord /\ call'[t].value = call[t].value
        /\ call'[t].at = "return" /\ call'[t].on = o /\ call'[t].name = call[t].name
    <2>1. CASE Goto(t, "return")
      BY <1>0, <2>1 DEF Goto, STypeOK, CallRecord
    <2>2. CASE call' = [call EXCEPT ![t].at = "return", ![t].set = (call[t].name = "set_options")]
      <3> DEFINE r == [call[t] EXCEPT !.at = "return", !.set = (call[t].name = "set_options")]
      <3>1. /\ r \in CallRecord /\ r.value = call[t].value
            /\ r.at = "return" /\ r.on = o /\ r.name = call[t].name
        BY <1>0 DEF CallRecord
      <3>2. call' = [call EXCEPT ![t] = r]
        BY <2>2
      <3> HIDE DEF r
      <3>. QED
        BY <1>0, <3>1, <3>2 DEF STypeOK
    <2>. QED
      BY <2>1, <2>2
  <1>2. call' \in [Tasks -> CallRecord] /\ (Goto(t, "return") => ~ call'[t].set)
    <2>1. DOMAIN call' = Tasks /\ call' = [u \in Tasks |-> call'[u]]
      BY <1>0 DEF Goto, STypeOK
    <2>2. ~ call[t].set
      BY <1>0 DEF SInv, OptionsSet, OptionSet, At
    <2>3. Goto(t, "return") => ~ call'[t].set
      BY <1>0, <2>2 DEF Goto, STypeOK, CallRecord
    <2>. QED
      BY <1>0, <1>1, <2>1, <2>3 DEF STypeOK
  <1>3. Stored(t) \in Result /\ Stored(t).by = t /\ Stored(t).under = LockOf(call[t].name)
    BY LockOfType DEF Stored, Result
  <1>4. m_iLastError' \in [Sockets -> Result]
    BY <1>0, <1>3 DEF STypeOK
  <1>5. HeldByCallers'
    <2>1. \A x, u : u \in Tasks => (Inside(u, x)' <=> Inside(u, x)) /\ call'[u].name = call[u].name
      BY <1>0, <1>1 DEF Inside
    <2>. QED
      BY <1>0, <2>1 DEF STypeOK, HeldByCallers
  <1>6. ResultsOfOneMutex'
    <2>. SUFFICES ASSUME NEW x \in Sockets, NEW u \in Tasks,
                         call'[u].at = "return", call'[u].on = x, call'[u].name # "accept",
                         LockOf(call'[u].name) \in Mutexes
                  PROVE  m_iLastError'[x].by = u \/ m_iLastError'[x].under # LockOf(call'[u].name)
      BY DEF ResultsOfOneMutex, At
    <2>1. CASE u = t
      BY <1>0, <1>1, <1>3, <2>1 DEF STypeOK
    <2>2. CASE u # t /\ x = o /\ m_iLastError' # m_iLastError
      <3>1. lock[o][LockOf(call[u].name)] = u
        BY <1>0, <1>1, <2>2 DEF STypeOK, HeldByCallers, Inside
      <3>2. LockOf(call[t].name) \in Mutexes => lock[o][LockOf(call[t].name)] = t
        BY <1>0 DEF STypeOK, HeldByCallers, Inside
      <3>3. LockOf(call[t].name) # LockOf(call[u].name)
        BY <1>1, <2>2, <3>1, <3>2
      <3>. QED
        BY <1>0, <1>1, <1>3, <2>2, <3>3 DEF STypeOK
    <2>3. CASE u # t /\ (x # o \/ m_iLastError' = m_iLastError)
      <3>1. m_iLastError'[x] = m_iLastError[x] /\ call'[u] = call[u]
        BY <1>0, <1>1, <2>3 DEF STypeOK
      <3>. QED
        BY <3>1 DEF SInv, ResultsOfOneMutex, At
    <2>. QED
      BY <2>1, <2>2, <2>3
  <1>. QED
    BY <1>1, <1>2, <1>4, <1>5, <1>6

LEMMA acceptSafe ==
  ASSUME SInv, NEW t \in Tasks, accept(t)
  PROVE  SInv'
  <1> USE SocketAssumption
  <1>1. At(t, "lwip") /\ Goto(t, "return") /\ call[t].name = "accept"
        /\ UNCHANGED <<m_recvTimeout, closes, lock>>
    BY DEF accept
  <1>2. /\ call' \in [Tasks -> CallRecord]
        /\ m_iLastError' \in [Sockets -> Result]
        /\ \A u \in Tasks : u # t => call'[u] = call[u]
        /\ call'[t].at = "return" /\ call'[t].on = call[t].on /\ call'[t].name = call[t].name
        /\ ~ call'[t].set
        /\ (HeldByCallers /\ ResultsOfOneMutex)'
    BY <1>1, StoreSafe DEF accept
  <1>3. /\ \A u \in Tasks : (Halfway(u)' <=> Halfway(u)) /\ (Halfway(u) => call'[u] = call[u])
        /\ \A u \in Tasks : call'[u].set => call'[u] = call[u]
    BY <1>1, <1>2 DEF Halfway, At
  <1>4. /\ m_iHandle' \in [Sockets -> Descriptors \cup {NoHandle}]
        /\ alive' \in [Sockets -> BOOLEAN] /\ lwip' \in [Descriptors -> Descriptor]
        /\ \A x \in Sockets : alive[x] => alive'[x]
        /\ (OwnersLive /\ ClosedOnceAlive /\ OptionsSet /\ LostByDoubleClose)'
    <2>1. CASE \E n \in Sockets, d \in Descriptors :
                 Lowest(d) /\ Made(n, d) /\ lwip' = [lwip EXCEPT ![d] = Opened(n)]
      BY <1>1, <1>3, <2>1, MadeSafe
    <2>2. CASE UNCHANGED <<m_iHandle, alive, lwip>>
      <3>1. (OwnersLive /\ ClosedOnceAlive /\ LostByDoubleClose)'
        BY <1>1, <2>2 DEF SInv, OwnersLive, ClosedOnceAlive, LostByDoubleClose
      <3>2. OptionsSet'
        BY <1>1, <1>3, <2>2, OptionsKept DEF Shared
      <3>. QED
        BY <2>2, <3>1, <3>2 DEF SInv, STypeOK
    <2>. QED
      BY <2>1, <2>2 DEF accept, ClientHandle
  <1>5. (CallsLive /\ MemberSet)'
    <2>1. CallsLive'
      BY <1>1, <1>2, <1>4 DEF SInv, CallsLive, At
    <2>2. MemberSet'
      BY <1>1, <1>3 DEF SInv, MemberSet
    <2>. QED
      BY <2>1, <2>2
  <1>. QED
    BY <1>1, <1>2, <1>4, <1>5 DEF SInv, STypeOK

LEMMA lwip_callSafe ==
  ASSUME SInv, NEW t \in Tasks, lwip_call(t)
  PROVE  SInv'
  <1> DEFINE o == call[t].on  c == call[t].name  d == m_iHandle[o]
  <1> USE SocketAssumption
  <1>0. STypeOK /\ o \in Sockets /\ alive[o] /\ call[t] \in CallRecord
    BY DEF SInv, CallsLive, STypeOK, lwip_call, At
  <1>1. At(t, "lwip") /\ c # "accept"
        /\ UNCHANGED <<m_iHandle, m_recvTimeout, alive, closes, lock>>
        /\ \/ Goto(t, "return")
           \/ call' = [call EXCEPT ![t].at = "return", ![t].set = (c = "set_options")]
    BY DEF lwip_call, life
  <1>2. /\ call' \in [Tasks -> CallRecord]
        /\ m_iLastError' \in [Sockets -> Result]
        /\ \A u \in Tasks : u # t => call'[u] = call[u]
        /\ call'[t].at = "return" /\ call'[t].on = o /\ call'[t].name = c
        /\ call'[t].value = call[t].value /\ (Goto(t, "return") => ~ call'[t].set)
        /\ (HeldByCallers /\ ResultsOfOneMutex)'
    BY <1>1, StoreSafe DEF lwip_call
  <1>3. /\ lwip' \in [Descriptors -> Descriptor]
        /\ \A e \in Descriptors : lwip'[e].owner = lwip[e].owner
        /\ \A e \in Descriptors : e # d \/ c \notin Setters => lwip'[e].timeout = lwip[e].timeout
        /\ call'[t].set => d \in Descriptors /\ c = "set_options" /\ lwip'[d].timeout = call[t].value
    <2>1. CASE UNCHANGED lwip /\ Goto(t, "return")
      BY <1>0, <1>2, <2>1 DEF STypeOK
    <2>2. CASE /\ IsOpen(d) /\ lwip' = [lwip EXCEPT ![d] = Effect(c, call[t].value, @)]
               /\ call' = [call EXCEPT ![t].at = "return", ![t].set = (c = "set_options")]
      <3>1. d \in Descriptors /\ lwip[d] \in Descriptor /\ call[t].value \in Timeouts
        BY <1>0, <2>2 DEF STypeOK, IsOpen, CallRecord
      <3> DEFINE r == Effect(c, call[t].value, lwip[d])
      <3>2. /\ r \in Descriptor /\ r.owner = lwip[d].owner
            /\ r.timeout = IF c \in Setters THEN call[t].value ELSE lwip[d].timeout
        BY <3>1 DEF Effect, Descriptor, Setters
      <3>3. lwip' = [lwip EXCEPT ![d] = r]
        BY <2>2
      <3>4. call'[t].set => c = "set_options" /\ c \in Setters
        BY <1>0, <2>2 DEF STypeOK, CallRecord, Setters
      <3> HIDE DEF r
      <3>. QED
        BY <1>0, <3>1, <3>2, <3>3, <3>4 DEF STypeOK
    <2>. QED
      BY <2>1, <2>2 DEF lwip_call
  <1>4. (OwnersLive /\ ClosedOnceAlive /\ LostByDoubleClose)'
    <2>1. OwnersLive' /\ ClosedOnceAlive'
      BY <1>1, <1>3 DEF SInv, OwnersLive, ClosedOnceAlive
    <2>2. \A x \in Sockets : m_iHandle[x] # NoHandle => m_iHandle[x] \in Descriptors
      BY <1>0 DEF STypeOK
    <2>3. LostByDoubleClose'
      BY <1>1, <1>3, <2>2 DEF SInv, LostByDoubleClose
    <2>. QED
      BY <2>1, <2>3
  <1>5. CallsLive' /\ MemberSet'
    <2>1. CallsLive'
      BY <1>0, <1>1, <1>2 DEF SInv, CallsLive, At
    <2>2. MemberSet'
      BY <1>1, <1>2 DEF SInv, MemberSet, Halfway, At
    <2>. QED
      BY <2>1, <2>2
  <1>6. OptionsSet'
    <2>. SUFFICES ASSUME NEW u \in Tasks, call'[u].set
                  PROVE  OptionSet(u)'
      BY DEF OptionsSet
    <2>1. CASE u = t
      <3>1. m_recvTimeout[o] = call[t].value
        BY <1>1, <1>3, <2>1 DEF SInv, MemberSet, Halfway
      <3>. QED
        BY <1>1, <1>2, <1>3, <2>1, <3>1 DEF OptionSet, At
    <2>2. CASE u # t
      <3> DEFINE x == call[u].on  e == m_iHandle[x]
      <3>1. call'[u] = call[u] /\ OptionSet(u) /\ x \in Sockets /\ e \in Descriptors
        BY <1>2, <2>2 DEF SInv, OptionsSet, OptionSet, CallsLive, At
      <3>2. Shared(call[u].on)' <=> Shared(x)
        BY <1>1, <3>1 DEF Shared
      <3>3. CASE e = d /\ c \in Setters /\ x = o
        <4>1. LockOf(c) = "m_bLock" /\ LockOf(call[u].name) = "m_bLock" /\ "m_bLock" \in Mutexes
          BY <3>1, <3>3 DEF LockOf, Mutexes, Setters, OptionSet
        <4>2. lock[o]["m_bLock"] = t /\ lock[o]["m_bLock"] = u
          BY <1>0, <1>1, <3>1, <3>3, <4>1 DEF STypeOK, HeldByCallers, Inside, OptionSet, At
        <4>. QED
          BY <2>2, <4>2
      <3>4. CASE e = d /\ x # o
        <4>1. Shared(x)
          BY <1>0, <3>4 DEF Shared
        <4>. QED
          BY <1>1, <1>3, <3>1, <3>2, <4>1 DEF OptionSet, At
      <3>5. CASE e # d \/ c \notin Setters
        BY <1>1, <1>3, <3>1, <3>2, <3>5 DEF OptionSet, At
      <3>. QED
        BY <3>3, <3>4, <3>5
    <2>. QED
      BY <2>1, <2>2
  <1>. QED
    BY <1>0, <1>1, <1>2, <1>3, <1>4, <1>5, <1>6 DEF SInv, STypeOK

LEMMA ReturnSafe ==
  ASSUME SInv, NEW t \in Tasks, Return(t)
  PROVE  SInv'
  <1> DEFINE o == call[t].on  m == LockOf(call[t].name)
  <1> USE SocketAssumption
  <1>0. STypeOK /\ o \in Sockets /\ call[t].at = "return" /\ call[t] \in CallRecord
        /\ UNCHANGED <<m_iHandle, m_recvTimeout, alive, closes>>
    BY DEF SInv, CallsLive, STypeOK, Return, At, life
  <1>1. /\ call' \in [Tasks -> CallRecord]
        /\ \A u \in Tasks : u # t => call'[u] = call[u]
        /\ call'[t].at = "idle" /\ ~ call'[t].set
    <2>1. Idle \in CallRecord /\ Idle.at = "idle" /\ ~ Idle.set
      BY DEF Idle, CallRecord, Calls
    <2>. QED
      BY <1>0, <2>1 DEF Return, STypeOK
  <1>2. /\ lock' \in [Sockets -> [Mutexes -> Tasks \cup {NoTask}]]
        /\ m \in Mutexes => lock'[o][m] = NoTask
        /\ \A x \in Sockets, y \in Mutexes : ~ (x = o /\ y = m) => lock'[x][y] = lock[x][y]
        /\ m \in Mutexes => lock[o][m] = t
    <2>1. m \in Mutexes => [lock[o] EXCEPT ![m] = NoTask] \in [Mutexes -> Tasks \cup {NoTask}]
      BY <1>0 DEF STypeOK
    <2>2. lock' \in [Sockets -> [Mutexes -> Tasks \cup {NoTask}]]
      BY <1>0, <2>1 DEF STypeOK, Return
    <2>3. m \in Mutexes => lock[o][m] = t
      BY <1>0 DEF STypeOK, HeldByCallers, Inside
    <2>4. m \in Mutexes => lock'[o][m] = NoTask
      BY <1>0 DEF STypeOK, Return
    <2>5. \A x \in Sockets, y \in Mutexes : ~ (x = o /\ y = m) => lock'[x][y] = lock[x][y]
      BY <1>0 DEF STypeOK, Return
    <2>. QED
      BY <2>2, <2>3, <2>4, <2>5
  <1>3. /\ m_iLastError' \in [Sockets -> Result]
        /\ \A x \in Sockets : m_iLastError'[x] = m_iLastError[x] \/ m_iLastError'[x] = Past
    <2>1. \A e \in Result : Older(t, e) \in Result /\ (Older(t, e) = e \/ Older(t, e) = Past)
      BY DEF Older, Past, Result
    <2>. QED
      BY <1>0, <2>1 DEF STypeOK, Return
  <1>5. /\ lwip' \in [Descriptors -> Descriptor]
        /\ \A d \in Descriptors : lwip'[d].owner = lwip[d].owner /\ lwip'[d].timeout = lwip[d].timeout
    <2>1. CASE UNCHANGED lwip
      BY <1>0, <2>1 DEF STypeOK
    <2>2. CASE fcntl(m_iHandle[o])
      BY <1>0, <2>2 DEF STypeOK, fcntl, Descriptor, IsOpen
    <2>. QED
      BY <2>1, <2>2 DEF Return
  <1>6. HeldByCallers'
    <2>. SUFFICES ASSUME NEW x \in Sockets, NEW y \in Mutexes, NEW u \in Tasks
                  PROVE  lock'[x][y] = u <=> Inside(u, x)' /\ LockOf(call'[u].name) = y
      BY DEF HeldByCallers
    <2>1. lock[x][y] = u <=> Inside(u, x) /\ LockOf(call[u].name) = y
      BY <1>0 DEF STypeOK, HeldByCallers
    <2>2. CASE u = t
      BY <1>0, <1>1, <1>2, <2>1, <2>2 DEF Inside
    <2>3. CASE u # t
      <3>1. call'[u] = call[u] /\ (Inside(u, x)' <=> Inside(u, x))
        BY <1>1, <2>3 DEF Inside
      <3>. QED
        BY <1>2, <2>1, <2>3, <3>1
    <2>. QED
      BY <2>2, <2>3
  <1>7. \A u \in Tasks : (Halfway(u)' <=> Halfway(u)) /\ (Halfway(u) => call'[u] = call[u])
    BY <1>0, <1>1 DEF Halfway, At
  <1>8. (OwnersLive /\ ClosedOnceAlive /\ CallsLive /\ MemberSet /\ OptionsSet)'
    <2>1. OwnersLive' /\ ClosedOnceAlive'
      BY <1>0, <1>5 DEF SInv, OwnersLive, ClosedOnceAlive
    <2>2. CallsLive'
      BY <1>0, <1>1 DEF SInv, CallsLive, At
    <2>3. MemberSet'
      BY <1>0, <1>7 DEF SInv, MemberSet
    <2>4. \A u \in Tasks : call[u].set => m_iHandle[call[u].on] \in Descriptors
      BY DEF SInv, OptionsSet, OptionSet
    <2>5. OptionsSet'
      BY <1>0, <1>1, <1>5, <2>4, OptionsKept DEF Shared
    <2>. QED
      BY <2>1, <2>2, <2>3, <2>5
  <1>9. LostByDoubleClose'
    <2>1. \A x \in Sockets : m_iHandle[x] # NoHandle => m_iHandle[x] \in Descriptors
      BY <1>0 DEF STypeOK
    <2>. QED
      BY <1>0, <1>5, <2>1 DEF SInv, LostByDoubleClose
  <1>10. ResultsOfOneMutex'
    <2>1. Past.under \notin Mutexes
      BY DEF Past, Mutexes
    <2>. QED
      BY <1>0, <1>1, <1>3, <2>1 DEF SInv, ResultsOfOneMutex, At
  <1>. QED
    BY <1>0, <1>1, <1>2, <1>3, <1>5, <1>6, <1>8, <1>9, <1>10 DEF SInv, STypeOK

(***************************************************************************)
(* The end of a descriptor, for close and delete.  When the number belongs *)
(* to another object by now, this is the second time it is closed here, or *)
(* a third object has closed it twice before.                              *)
(***************************************************************************)
LEMMA ClosedSafe ==
  ASSUME SInv, NEW o \in Sockets, alive[o], UNCHANGED <<m_iHandle, call>>,
         closes' = [closes EXCEPT ![o] = @ + 1], lwip_close(m_iHandle[o]),
         \/ closes[o] = 0 /\ UNCHANGED <<alive, m_recvTimeout>>
         \/ /\ alive' = [alive EXCEPT ![o] = FALSE]
            /\ \A u \in Tasks : At(u, "idle") \/ call[u].on # o
            /\ m_recvTimeout' = [m_recvTimeout EXCEPT ![o] = Never]
  PROVE  /\ closes' \in [Sockets -> 0..2] /\ alive' \in [Sockets -> BOOLEAN]
         /\ m_recvTimeout' \in [Sockets -> Timeouts] /\ lwip' \in [Descriptors -> Descriptor]
         /\ \A x \in Sockets : x # o => alive'[x] = alive[x] /\ m_recvTimeout'[x] = m_recvTimeout[x]
         /\ (OwnersLive /\ ClosedOnceAlive /\ OptionsSet /\ LostByDoubleClose)'
  <1> DEFINE d == m_iHandle[o]
  <1> USE SocketAssumption
  <1>0. STypeOK /\ (closes[o] = 0 \/ closes[o] = 1)
    BY DEF SInv, STypeOK, ClosedOnceAlive
  <1>1. /\ closes' \in [Sockets -> 0..2] /\ closes'[o] = closes[o] + 1
        /\ \A x \in Sockets : x # o => closes'[x] = closes[x]
    BY <1>0 DEF STypeOK
  <1>2. /\ alive' \in [Sockets -> BOOLEAN] /\ m_recvTimeout' \in [Sockets -> Timeouts]
        /\ \A x \in Sockets : x # o => alive'[x] = alive[x] /\ m_recvTimeout'[x] = m_recvTimeout[x]
        /\ \/ closes[o] = 0 /\ alive'[o] /\ m_recvTimeout'[o] = m_recvTimeout[o]
           \/ ~ alive'[o] /\ \A u \in Tasks : At(u, "idle") \/ call[u].on # o
    <2>1. CASE closes[o] = 0 /\ UNCHANGED <<alive, m_recvTimeout>>
      BY <1>0, <2>1 DEF STypeOK
    <2>2. CASE /\ alive' = [alive EXCEPT ![o] = FALSE]
               /\ m_recvTimeout' = [m_recvTimeout EXCEPT ![o] = Never]
               /\ \A u \in Tasks : At(u, "idle") \/ call[u].on # o
      <3>1. /\ alive' \in [Sockets -> BOOLEAN] /\ m_recvTimeout' \in [Sockets -> Timeouts]
            /\ \A x \in Sockets : x # o => alive'[x] = alive[x] /\ m_recvTimeout'[x] = m_recvTimeout[x]
            /\ ~ alive'[o]
        BY <1>0, <2>2 DEF STypeOK
      <3>. QED
        BY <2>2, <3>1
    <2>. QED
      BY <2>1, <2>2
  <1>3. /\ lwip' \in [Descriptors -> Descriptor]
        /\ \A e \in Descriptors :
             \/ lwip'[e] = lwip[e] /\ (e = d => lwip[e].owner = Nobody)
             \/ e = d /\ lwip'[e].owner = Nobody
    <2>1. Closed \in Descriptor /\ Closed.owner = Nobody
      BY DEF Closed, Descriptor
    <2>. QED
      BY <1>0, <2>1 DEF STypeOK, lwip_close, IsOpen
  <1>4. \A e \in Descriptors : lwip'[e].owner # Nobody =>
          lwip'[e] = lwip[e] /\ e # d /\ lwip[e].owner # o
    BY <1>3 DEF SInv, OwnersLive
  <1>5. OwnersLive'
    <2>. SUFFICES ASSUME NEW e \in Descriptors, lwip'[e].owner # Nobody
                  PROVE  alive'[lwip'[e].owner] /\ m_iHandle[lwip'[e].owner] = e
      BY DEF OwnersLive
    <2>1. lwip'[e].owner = lwip[e].owner /\ lwip[e].owner # o
      BY <1>4
    <2>2. lwip[e].owner \in Sockets
      BY <1>0, <2>1 DEF STypeOK, Descriptor
    <2>3. alive[lwip[e].owner] /\ m_iHandle[lwip[e].owner] = e
      BY <2>1 DEF SInv, OwnersLive
    <2>. QED
      BY <1>2, <2>1, <2>2, <2>3
  <1>6. ClosedOnceAlive'
    BY <1>0, <1>1, <1>2 DEF SInv, ClosedOnceAlive
  <1>7. OptionsSet'
    <2>. SUFFICES ASSUME NEW u \in Tasks, call[u].set
                  PROVE  LET x == call[u].on  e == m_iHandle[x] IN
                         /\ m_recvTimeout'[x] = m_recvTimeout[x]
                         /\ lwip'[e] = lwip[e] \/ lwip'[e].owner # x
                         /\ Shared(x) => Shared(x)' \/ lwip'[e].owner # x
      BY OptionsKept
    <2> DEFINE x == call[u].on  e == m_iHandle[x]
    <2>1. OptionSet(u) /\ x \in Sockets /\ e \in Descriptors /\ ~ At(u, "idle") /\ x # Nobody
      BY DEF SInv, OptionsSet, OptionSet, CallsLive, At, Sockets, Nobody
    <2>2. m_recvTimeout'[x] = m_recvTimeout[x]
      BY <1>2, <2>1
    <2>3. e = d => lwip'[e].owner = Nobody
      BY <1>3, <2>1
    <2>4. Shared(x) /\ e # d => Shared(x)'
      BY <1>2 DEF Shared
    <2>. QED
      BY <1>3, <2>1, <2>2, <2>3, <2>4
  <1>8. LostByDoubleClose'
    <2>. SUFFICES ASSUME NEW x \in Sockets, alive'[x], closes'[x] = 0, m_iHandle[x] # NoHandle
                  PROVE  \/ lwip'[m_iHandle[x]].owner = x
                         \/ \E p \in Sockets \ {x} : m_iHandle[p] = m_iHandle[x] /\ closes'[p] = 2
      BY DEF LostByDoubleClose
    <2>1. x # o /\ alive[x] /\ closes[x] = 0 /\ m_iHandle[x] \in Descriptors
      BY <1>0, <1>1, <1>2 DEF STypeOK
    <2>2. \A p \in Sockets : closes[p] = 2 => closes'[p] = 2
      BY <1>0, <1>1
    <2>3. CASE \E p \in Sockets \ {x} : m_iHandle[p] = m_iHandle[x] /\ closes[p] = 2
      BY <2>2, <2>3
    <2>4. CASE lwip[m_iHandle[x]].owner = x /\ m_iHandle[x] # d
      BY <1>3, <2>1, <2>4
    <2>5. CASE lwip[m_iHandle[x]].owner = x /\ m_iHandle[x] = d /\ closes[o] = 0
      <3>1. PICK p \in Sockets \ {o} : m_iHandle[p] = d /\ closes[p] = 2
        BY <2>1, <2>5 DEF SInv, LostByDoubleClose
      <3>. QED
        BY <2>1, <2>2, <2>5, <3>1
    <2>6. CASE m_iHandle[x] = d /\ closes[o] = 1
      BY <1>1, <2>1, <2>6
    <2>. QED
      BY <1>0, <2>1, <2>3, <2>4, <2>5, <2>6 DEF SInv, LostByDoubleClose
  <1>. QED
    BY <1>1, <1>2, <1>3, <1>5, <1>6, <1>7, <1>8

LEMMA closeSafe ==
  ASSUME SInv, NEW t \in Tasks, NEW o \in Sockets, close(t, o)
  PROVE  SInv'
  <1>1. alive[o] /\ closes[o] = 0 /\ lwip_close(m_iHandle[o])
        /\ UNCHANGED <<m_iHandle, m_recvTimeout, m_iLastError, alive, lock, call>>
    BY DEF close, object
  <1>2. closes' = [closes EXCEPT ![o] = @ + 1]
    BY DEF close, SInv, STypeOK
  <1>3. /\ closes' \in [Sockets -> 0..2] /\ lwip' \in [Descriptors -> Descriptor]
        /\ (OwnersLive /\ ClosedOnceAlive /\ OptionsSet /\ LostByDoubleClose)'
    BY <1>1, <1>2, ClosedSafe
  <1>4. STypeOK'
    BY <1>1, <1>3 DEF SInv, STypeOK, HeldByCallers, Inside
  <1>5. (CallsLive /\ ResultsOfOneMutex /\ MemberSet)'
    BY <1>1 DEF SInv, CallsLive, ResultsOfOneMutex, MemberSet, Halfway, At
  <1>. QED
    BY <1>3, <1>4, <1>5 DEF SInv

LEMMA deleteSafe ==
  ASSUME SInv, NEW t \in Tasks, NEW o \in Sockets, delete(t, o)
  PROVE  SInv'
  <1>1. alive[o] /\ lwip_close(m_iHandle[o]) /\ closes' = [closes EXCEPT ![o] = @ + 1]
        /\ alive' = [alive EXCEPT ![o] = FALSE]
        /\ m_recvTimeout' = [m_recvTimeout EXCEPT ![o] = Never]
        /\ UNCHANGED <<m_iHandle, lock, call>>
    BY DEF delete
  <1>2. \A u \in Tasks : call[u].at = "idle" \/ call[u].on # o
    BY DEF delete, At
  <1>3. /\ closes' \in [Sockets -> 0..2] /\ alive' \in [Sockets -> BOOLEAN]
        /\ m_recvTimeout' \in [Sockets -> Timeouts] /\ lwip' \in [Descriptors -> Descriptor]
        /\ \A x \in Sockets : x # o => alive'[x] = alive[x] /\ m_recvTimeout'[x] = m_recvTimeout[x]
        /\ (OwnersLive /\ ClosedOnceAlive /\ OptionsSet /\ LostByDoubleClose)'
    BY <1>1, <1>2, ClosedSafe DEF At
  <1>4. STypeOK'
    <2>1. Past \in Result
      BY DEF Past, Result
    <2>2. m_iLastError' \in [Sockets -> Result]
      BY <2>1 DEF SInv, STypeOK, delete
    <2>. QED
      BY <1>1, <1>3, <2>2 DEF SInv, STypeOK, HeldByCallers, Inside
  <1>5. (CallsLive /\ MemberSet)'
    BY <1>1, <1>2, <1>3 DEF SInv, CallsLive, MemberSet, Halfway, At
  <1>6. ResultsOfOneMutex'
    <2>1. \A x \in Sockets : x # o => m_iLastError'[x] = m_iLastError[x]
      BY DEF delete, SInv, STypeOK
    <2>. QED
      BY <1>1, <1>2, <2>1 DEF SInv, ResultsOfOneMutex, At
  <1>. QED
    BY <1>3, <1>4, <1>5, <1>6 DEF SInv

LEMMA StutterSafe == SInv /\ UNCHANGED svars => SInv'
  <1> SUFFICES ASSUME SInv, UNCHANGED svars PROVE SInv'
    OBVIOUS
  <1>1. UNCHANGED <<m_iHandle, m_recvTimeout, m_iLastError, alive, closes, lock, call, lwip>>
    BY DEF svars, object, life
  <1>2. STypeOK'
    BY <1>1 DEF SInv, STypeOK, HeldByCallers, Inside
  <1>3. (OwnersLive /\ CallsLive /\ ClosedOnceAlive /\ ResultsOfOneMutex)'
    BY <1>1 DEF SInv, OwnersLive, CallsLive, ClosedOnceAlive, ResultsOfOneMutex, At
  <1>4. (MemberSet /\ OptionsSet /\ LostByDoubleClose)'
    BY <1>1 DEF SInv, MemberSet, OptionsSet, OptionSet, Shared, LostByDoubleClose, Halfway, At
  <1>. QED
    BY <1>2, <1>3, <1>4 DEF SInv

LEMMA NextSafe == SInv /\ [SNext]_svars => SInv'
  <1> SUFFICES ASSUME SInv, [SNext]_svars PROVE SInv'
    OBVIOUS
  <1>1. CASE UNCHANGED svars
    BY <1>1, StutterSafe
  <1>2. ASSUME NEW t \in Tasks, New(t) PROVE SInv'
    BY <1>2, NewSafe
  <1>3. ASSUME NEW t \in Tasks, Step(t) PROVE SInv'
    BY <1>3, EnterSafe, lwip_callSafe, acceptSafe, ReturnSafe DEF Step
  <1>4. ASSUME NEW t \in Tasks, NEW o \in Sockets, close(t, o) \/ delete(t, o) PROVE SInv'
    BY <1>4, closeSafe, deleteSafe
  <1>5. ASSUME NEW t \in Tasks, NEW o \in Sockets,
               \/ \E c \in Calls \ Setters : Call(t, o, c, Never)
               \/ \E c \in Setters, v \in Timeouts : Call(t, o, c, v)
        PROVE SInv'
    BY <1>5, CallSafe, SocketAssumption DEF Calls
  <1>. QED
    BY <1>1, <1>2, <1>3, <1>4, <1>5 DEF SNext

(***************************************************************************)
(* Whatever tasks share the sockets: a mutex belongs to the one call that  *)
(* is under it, a call never returns another one's result of its own kind, *)
(* what a set_options has set is in force and told when it returns, and an *)
(* object that was not closed loses its descriptor to a double close only. *)
(***************************************************************************)
THEOREM SocketsAreSafe ==
  SSpec => [](STypeOK /\ ResultsOfOneMutex /\ TimeoutInForce /\ LostByDoubleClose)
  <1>1. SInv => STypeOK /\ ResultsOfOneMutex /\ TimeoutInForce /\ LostByDoubleClose
    <2>. SUFFICES ASSUME SInv PROVE TimeoutInForce
      BY DEF SInv
    <2>. QED
      BY DEF SInv, OptionsSet, OptionSet, TimeoutInForce
  <1>. QED
    BY <1>1, InitSafe, NextSafe, PTL DEF SSpec

(* In particular: every variable keeps its type, and a task holds a mutex of an object *)
(* exactly while a call of it is under that mutex.                                     *)
COROLLARY SocketsAreTyped == SSpec => []STypeOK
  BY SocketsAreSafe, PTL

(* What a call finds in the shared m_iLastError when it returns it has stored itself,  *)
(* or another call under another mutex has: never one of its own kind.                 *)
COROLLARY ResultsStayWithTheirMutex == SSpec => []ResultsOfOneMutex
  BY SocketsAreSafe, PTL

(* A set_options that succeeds leaves its own value in the object and in the stack,    *)
(* however many tasks set timeouts, fail to, or set them behind the object's back.     *)
COROLLARY TimeoutsAreTold == SSpec => []TimeoutInForce
  BY SocketsAreSafe, PTL
=============================================================================
