-------------------------- MODULE AccessPointProofs --------------------------
(***************************************************************************)
(* Theorems about AccessPoint, for any number of calls and events and for  *)
(* any texts.  APInv says what the owner's calls, the event loop and the   *)
(* queue of events have to do with each other; what the texts mean is      *)
(* proved in IpAddressProofs.                                              *)
(***************************************************************************)
EXTENDS AccessPoint, IpAddressProofs

EventNames  == StationEvents \cup {"AP_START", "AP_STOP"}
MethodNames == {"on_start", "on_stop", "on_connected", "on_disconnected",
                "on_probereqrec", "on_ip_event"}

(* The types, without the addresses. *)
ControlTypes ==
  /\ program \in {"runs", "aborted"} /\ object \in {"alive", "destroyed"}
  /\ call \in Calls /\ result \in {"none", "true", "false"}
  /\ loop \in BOOLEAN /\ handlers \in {{}, {"IP_EVENT"}, Bases}
  /\ radio \in {"off", "initialised", "started"}
  /\ dhcps \in BOOLEAN
  /\ begun \in Seq({"start", "stop"}) /\ refused \in BOOLEAN
  /\ events \in Seq(EventNames) /\ ran \in Seq(MethodNames)
  /\ posted \in Nat /\ Len(ran) + Len(events) =< posted

(* The event loop is there once the owner has got through a start. *)
Begun == {begun[i] : i \in 1..Len(begun)}

LoopOnceStarted ==
  program = "runs" =>
    /\ call = "setup" =>
         begun # << >> /\ Last(begun) = "start" /\ (loop <=> "start" \in Earlier)
    /\ call \in {"wifi_stop", "desetup", "desetup_ip"} =>
         begun # << >> /\ Last(begun) = "stop" /\ (loop <=> "start" \in Earlier)
    /\ call \notin {"setup", "wifi_stop", "desetup", "desetup_ip"} =>
         (loop <=> "start" \in Begun)

(* Nothing has happened before there is an event loop, and nothing but the *)
(* setup before the Wi-Fi is started.                                      *)
Quiet == events = << >> /\ ran = << >>

QuietBefore ==
  /\ ~ loop => handlers = {} /\ radio = "off" /\ Quiet
  /\ program = "runs" /\ call = "wifi_start" =>
       loop /\ handlers = Bases /\ radio = "initialised" /\ Quiet

DeadIsDeaf == object = "destroyed" => handlers = {} /\ call = "none"

(* One handler without the other: only between the two steps of a stop. *)
HalfDeaf ==
  program = "runs" =>
    /\ handlers = {"IP_EVENT"} => call = "desetup_ip"
    /\ call = "desetup_ip" => "WIFI_EVENT" \notin handlers

(* As long as the handlers are registered, what waits goes on where what   *)
(* ran has stopped; nothing waits behind on_stop as long as one of them is.*)
EventsInOrder ==
  /\ handlers = Bases =>
       /\ radio = "started" => ~ Quiet
       /\ ran # << >> => ran[1] = "on_start"
       /\ \A i \in 1..Len(events) : events[i] = "AP_START" <=> i = 1 /\ ran = << >>
       /\ \A i \in 1..Len(events) : events[i] = "AP_STOP" => i = Len(events) /\ radio # "started"
  /\ handlers # {} =>
       \A i \in 1..Len(ran) : ran[i] = "on_stop" => events = << >> /\ radio # "started"

(* What set_ipinfo works on. *)
AddressSet ==
  program = "runs" =>
    /\ call \in {"set_ip_info", "dhcps_option", "dhcps_start"} => arg \in Texts
    /\ call \in {"dhcps_option", "dhcps_start"} => ip = ip4_address(arg)

APInv ==
  /\ ControlTypes /\ LoopOnceStarted /\ QuietBefore /\ DeadIsDeaf /\ HalfDeaf
  /\ EventsInOrder /\ MethodsInOrder /\ AbortIsMisuse /\ AddressSet

-----------------------------------------------------------------------------
LEMMA BegunAfter ==
  ASSUME ControlTypes, NEW x \in {"start", "stop"}, begun' = Append(begun, x)
  PROVE  /\ begun' \in Seq({"start", "stop"}) /\ begun' # << >>
         /\ Last(begun') = x /\ Earlier' = Begun
         /\ Range(begun) \subseteq Range(begun')
  <1>1. /\ begun' \in Seq({"start", "stop"}) /\ begun' # << >>
        /\ Len(begun') = Len(begun) + 1 /\ Len(begun) \in Nat
        /\ \A i \in 1..Len(begun) : begun'[i] = begun[i]
        /\ begun'[Len(begun) + 1] = x
    <2>1. begun \in Seq({"start", "stop"})
      BY DEF ControlTypes
    <2>2. Len(begun) \in Nat
      BY <2>1, LenProperties
    <2>. QED
      BY <2>1, <2>2, AppendProperties
  <1>2. Last(begun') = x
    BY <1>1 DEF Last
  <1>3. Earlier' = Begun
    <2>1. 1..(Len(begun') - 1) = 1..Len(begun)
      BY <1>1
    <2>. QED
      BY <1>1, <2>1 DEF Earlier, Begun
  <1>4. Range(begun) \subseteq Range(begun')
    <2>1. DOMAIN begun = 1..Len(begun) /\ DOMAIN begun' = 1..Len(begun')
      BY <1>1 DEF ControlTypes
    <2>2. 1..Len(begun) \subseteq 1..Len(begun')
      BY <1>1
    <2>. QED
      BY <1>1, <2>1, <2>2 DEF Range
  <1>. QED
    BY <1>1, <1>2, <1>3, <1>4

LEMMA BegunIs ==
  ASSUME ControlTypes, begun # << >>
  PROVE  Begun = Earlier \cup {Last(begun)}
  <1>1. Len(begun) \in Nat \ {0}
    BY EmptySeq DEF ControlTypes
  <1>2. 1..Len(begun) = 1..(Len(begun) - 1) \cup {Len(begun)}
    BY <1>1
  <1>. QED
    BY <1>2 DEF Begun, Earlier, Last

LEMMA PostedAfter ==
  ASSUME ControlTypes, NEW e \in EventNames, Post(e)
  PROVE  /\ events' \in Seq(EventNames) /\ posted' \in Nat
         /\ Len(events') = Len(events) + 1 /\ Len(events) \in Nat
         /\ Len(ran) + Len(events') =< posted'
         /\ \A i \in 1..Len(events) : events'[i] = events[i]
         /\ events'[Len(events) + 1] = e /\ events' # << >>
         /\ \A i \in 1..Len(events') : i \in 1..Len(events) \/ i = Len(events) + 1
  <1>1. /\ events' \in Seq(EventNames)
        /\ Len(events') = Len(events) + 1 /\ Len(events) \in Nat
        /\ \A i \in 1..Len(events) : events'[i] = events[i]
        /\ events'[Len(events) + 1] = e /\ events' # << >>
    BY AppendProperties DEF ControlTypes, Post
  <1>2. posted' \in Nat /\ Len(ran) + Len(events') =< posted' /\ Len(ran) \in Nat
    BY <1>1 DEF ControlTypes, Post
  <1>. QED
    BY <1>1, <1>2

-----------------------------------------------------------------------------
LEMMA APInvInit == APInit => APInv
  <1>. SUFFICES ASSUME APInit PROVE APInv
    OBVIOUS
  <1>1. Len(<< >>) = 0 /\ Begun = {}
    BY DEF APInit, Begun
  <1>2. ControlTypes
    <2>1. /\ begun \in Seq({"start", "stop"}) /\ events \in Seq(EventNames)
          /\ ran \in Seq(MethodNames) /\ Len(ran) + Len(events) =< posted /\ posted \in Nat
      BY <1>1 DEF APInit
    <2>. QED
      BY <2>1 DEF APInit, ControlTypes, Calls
  <1>3. LoopOnceStarted /\ QuietBefore /\ DeadIsDeaf /\ HalfDeaf
    BY <1>1 DEF APInit, LoopOnceStarted, QuietBefore, Quiet, DeadIsDeaf, HalfDeaf
  <1>4. EventsInOrder /\ MethodsInOrder /\ AbortIsMisuse /\ AddressSet
    BY <1>1 DEF APInit, EventsInOrder, MethodsInOrder, AbortIsMisuse, AddressSet, Bases
  <1>. QED
    BY <1>2, <1>3, <1>4 DEF APInv

(* An abort leaves everything but the program as it was. *)
LEMMA AbortKeeps ==
  ASSUME APInv, program = "runs", Abort, refused' \in BOOLEAN,
         ~ refused' => begun # << >> /\ ((Last(begun) = "start") <=> ("start" \in Earlier))
  PROVE  APInv'
  <1>1. program' = "aborted" /\ UNCHANGED <<object, call, arg, result, loop, handlers, radio,
                                            dhcps, ip, lease, events, posted, ran, begun>>
    BY DEF Abort, owner, espidf
  <1>2. ControlTypes'
    BY <1>1 DEF APInv, ControlTypes
  <1>3. LoopOnceStarted' /\ AddressSet' /\ QuietBefore' /\ DeadIsDeaf' /\ HalfDeaf'
    BY <1>1 DEF APInv, LoopOnceStarted, AddressSet, QuietBefore, DeadIsDeaf, HalfDeaf, Quiet
  <1>4. EventsInOrder' /\ MethodsInOrder'
    BY <1>1 DEF APInv, EventsInOrder, MethodsInOrder, Quiet
  <1>5. AbortIsMisuse'
    BY <1>1 DEF AbortIsMisuse, Earlier
  <1>. QED
    BY <1>2, <1>3, <1>4, <1>5 DEF APInv

(* Steps that touch neither the events nor what they depend on. *)
LEMMA EventsAlone ==
  ASSUME APInv, UNCHANGED <<loop, handlers, radio, events, ran>>,
         Range(begun) \subseteq Range(begun')
  PROVE  EventsInOrder' /\ MethodsInOrder'
  BY DEF APInv, EventsInOrder, MethodsInOrder, Quiet

LEMMA BeginKeeps ==
  ASSUME APInv,
         \/ \E ssid \in {"empty", "named"} : start(ssid)
         \/ \E how \in {"keep", "wifioff", "destroy"} : stop(how)
         \/ \E local \in Texts : set_ipinfo(local)
  PROVE  APInv'
  <1>0. /\ program = "runs" /\ program' = "runs" /\ call = "none" /\ object = "alive"
        /\ UNCHANGED <<object, loop, handlers, radio, ip, events, posted, ran, refused>>
        /\ call' # "desetup_ip"
        /\ ControlTypes /\ LoopOnceStarted /\ QuietBefore /\ DeadIsDeaf /\ HalfDeaf
    BY DEF APInv, start, stop, set_ipinfo, Idle, At, Goto, Return, espidf
  <1>1. EventsInOrder' /\ MethodsInOrder'
    <2>1. begun' = begun \/ \E x \in {"start", "stop"} : begun' = Append(begun, x)
      BY DEF start, stop, set_ipinfo
    <2>2. Range(begun) \subseteq Range(begun')
      BY <1>0, <2>1, BegunAfter
    <2>. QED
      BY <1>0, <2>2, EventsAlone
  <1>2. AbortIsMisuse' /\ DeadIsDeaf' /\ HalfDeaf'
    BY <1>0 DEF AbortIsMisuse, DeadIsDeaf, HalfDeaf
  <1>3. ASSUME NEW ssid \in {"empty", "named"}, start(ssid) PROVE APInv'
    <2>1. CASE ssid = "empty"
      <3>1. call' = "none" /\ result' = "false" /\ UNCHANGED <<begun, dhcps>>
        BY <1>3, <2>1 DEF start, Return, espidf
      <3>2. ControlTypes' /\ LoopOnceStarted' /\ QuietBefore' /\ AddressSet'
        BY <1>0, <3>1 DEF ControlTypes, LoopOnceStarted, QuietBefore, AddressSet, Quiet, Begun, Earlier
      <3>. QED
        BY <1>1, <1>2, <3>2 DEF APInv
    <2>2. CASE ssid # "empty"
      <3>1. call' = "setup" /\ begun' = Append(begun, "start") /\ UNCHANGED <<result, dhcps>>
        BY <1>3, <2>2 DEF start, Goto, espidf
      <3>2. ControlTypes'
        BY <1>0, <3>1, BegunAfter DEF ControlTypes, Calls
      <3>3. LoopOnceStarted' /\ QuietBefore' /\ AddressSet'
        BY <1>0, <3>1, BegunAfter DEF LoopOnceStarted, QuietBefore, AddressSet, Quiet
      <3>. QED
        BY <1>1, <1>2, <3>2, <3>3 DEF APInv
    <2>. QED
      BY <2>1, <2>2
  <1>4. ASSUME NEW how \in {"keep", "wifioff", "destroy"}, stop(how) PROVE APInv'
    <2>1. call' = "wifi_stop" /\ begun' = Append(begun, "stop") /\ result' \in {"true", "false"}
          /\ dhcps' = dhcps
      BY <1>4 DEF stop, Goto, espidf
    <2>2. ControlTypes'
      BY <1>0, <2>1, BegunAfter DEF ControlTypes, Calls
    <2>3. LoopOnceStarted' /\ QuietBefore' /\ AddressSet'
      BY <1>0, <2>1, BegunAfter DEF LoopOnceStarted, QuietBefore, AddressSet, Quiet
    <2>. QED
      BY <1>1, <1>2, <2>2, <2>3 DEF APInv
  <1>5. ASSUME NEW local \in Texts, set_ipinfo(local) PROVE APInv'
    <2>1. call' = "set_ip_info" /\ arg' = local /\ dhcps' \in BOOLEAN /\ UNCHANGED <<begun, result>>
      BY <1>0, <1>5 DEF set_ipinfo, Goto, ControlTypes
    <2>2. ControlTypes'
      BY <1>0, <2>1 DEF ControlTypes, Calls
    <2>3. LoopOnceStarted' /\ QuietBefore' /\ AddressSet'
      BY <1>0, <2>1 DEF LoopOnceStarted, QuietBefore, AddressSet, Quiet, Begun, Earlier
    <2>. QED
      BY <1>1, <1>2, <2>2, <2>3 DEF APInv
  <1>. QED
    BY <1>3, <1>4, <1>5

LEMMA SetupKeeps ==
  ASSUME APInv, setup
  PROVE  APInv'
  <1>0. /\ program = "runs" /\ call = "setup" /\ begun # << >> /\ Last(begun) = "start"
        /\ loop <=> "start" \in Earlier
        /\ ControlTypes /\ QuietBefore /\ DeadIsDeaf /\ LoopOnceStarted
    BY DEF APInv, setup, At, LoopOnceStarted
  <1>1. ASSUME loop, Abort, UNCHANGED refused PROVE APInv'
    BY <1>0, <1>1, AbortKeeps DEF ControlTypes
  <1>2. ASSUME Refusal PROVE APInv'
    BY <1>0, <1>2, AbortKeeps DEF Refusal
  <1>3. ASSUME ~ loop, loop' = TRUE, handlers' = Registered, radio' = "initialised",
               Goto("wifi_start"),
               UNCHANGED <<program, object, arg, result, dhcps, ip, lease, events,
                           posted, ran, begun, refused>>
        PROVE  APInv'
    <2>1. Quiet /\ call' = "wifi_start"
      BY <1>0, <1>3 DEF QuietBefore, Goto
    <2>2. ControlTypes'
      BY <1>0, <1>3, <2>1 DEF ControlTypes, Calls, Registered
    <2>3. "start" \in Begun
      BY <1>0, BegunIs
    <2>4. LoopOnceStarted' /\ QuietBefore' /\ AddressSet'
      BY <1>3, <2>1, <2>3 DEF LoopOnceStarted, QuietBefore, AddressSet, Quiet, Begun, Registered
    <2>5. DeadIsDeaf' /\ AbortIsMisuse' /\ HalfDeaf'
      BY <1>0, <1>3, <2>1 DEF DeadIsDeaf, AbortIsMisuse, HalfDeaf, Registered, Bases
    <2>6. EventsInOrder' /\ MethodsInOrder'
      <3>1. events' = << >> /\ ran' = << >> /\ Len(events') = 0 /\ Len(ran') = 0
        BY <1>3, <2>1 DEF Quiet
      <3>. QED
        BY <1>3, <3>1 DEF EventsInOrder, MethodsInOrder
    <2>. QED
      BY <2>2, <2>4, <2>5, <2>6 DEF APInv
  <1>. QED
    BY <1>1, <1>2, <1>3 DEF setup

LEMMA WifiStartKeeps ==
  ASSUME APInv, wifi_start
  PROVE  APInv'
  <1>0. /\ program = "runs" /\ call = "wifi_start" /\ loop /\ Quiet
        /\ handlers = Bases /\ ControlTypes /\ LoopOnceStarted /\ DeadIsDeaf
    BY DEF APInv, wifi_start, At, QuietBefore
  <1>1. ASSUME Refusal PROVE APInv'
    BY <1>0, <1>1, AbortKeeps DEF Refusal
  <1>2. ASSUME radio' = "started", Post("AP_START"), Return("true"),
               UNCHANGED <<program, object, arg, loop, handlers, dhcps, ip, lease,
                           ran, begun, refused>>
        PROVE  APInv'
    <2>1. call' = "none" /\ result' = "true"
      BY <1>2 DEF Return
    <2>2. /\ events' \in Seq(EventNames) /\ posted' \in Nat /\ Len(ran) + Len(events') =< posted'
          /\ Len(events') = 1 /\ events'[1] = "AP_START" /\ events' # << >>
      <3>1. "AP_START" \in EventNames
        BY DEF EventNames
      <3>2. Len(events) = 0
        BY <1>0 DEF Quiet
      <3>. QED
        BY <1>0, <1>2, <3>1, <3>2, PostedAfter
    <2>3. ControlTypes'
      BY <1>0, <1>2, <2>1, <2>2 DEF ControlTypes, Calls
    <2>4. /\ LoopOnceStarted' /\ QuietBefore' /\ AddressSet' /\ DeadIsDeaf' /\ AbortIsMisuse'
          /\ HalfDeaf'
      BY <1>0, <1>2, <2>1 DEF LoopOnceStarted, QuietBefore, AddressSet, DeadIsDeaf, AbortIsMisuse,
         HalfDeaf, Bases, Begun
    <2>5. EventsInOrder' /\ MethodsInOrder'
      <3>1. Len(ran') = 0 /\ ran' = << >>
        BY <1>0, <1>2 DEF Quiet
      <3>2. \A i \in 1..Len(events') : i = 1 /\ events'[i] = "AP_START"
        BY <2>2
      <3>. QED
        BY <2>2, <3>1, <3>2 DEF EventsInOrder, MethodsInOrder, Quiet
    <2>. QED
      BY <2>3, <2>4, <2>5 DEF APInv
  <1>. QED
    BY <1>1, <1>2 DEF wifi_start

LEMMA SetIpKeeps ==
  ASSUME APInv, set_ip_info \/ dhcps_option \/ dhcps_start
  PROVE  APInv'
  <1>0. /\ program = "runs" /\ call \in {"set_ip_info", "dhcps_option", "dhcps_start"}
        /\ UNCHANGED <<program, object, arg, loop, handlers, radio, events, posted, ran, begun, refused>>
        /\ ControlTypes /\ LoopOnceStarted /\ QuietBefore /\ DeadIsDeaf /\ HalfDeaf /\ AddressSet
    BY DEF APInv, set_ip_info, dhcps_option, dhcps_start, At
  <1>1. /\ call' \in {"none", "dhcps_option", "dhcps_start"} /\ result' \in {"none", "true", "false"}
        /\ dhcps' \in BOOLEAN
    BY <1>0 DEF set_ip_info, dhcps_option, dhcps_start, Return, Goto, ControlTypes
  <1>2. ControlTypes'
    BY <1>0, <1>1 DEF ControlTypes, Calls
  <1>3. LoopOnceStarted' /\ QuietBefore' /\ DeadIsDeaf' /\ AbortIsMisuse' /\ HalfDeaf'
    BY <1>0, <1>1 DEF LoopOnceStarted, QuietBefore, DeadIsDeaf, AbortIsMisuse, HalfDeaf, Quiet, Begun
  <1>4. EventsInOrder' /\ MethodsInOrder'
    BY <1>0, EventsAlone
  <1>5. AddressSet'
    BY <1>0 DEF AddressSet, set_ip_info, dhcps_option, dhcps_start, At, Return, Goto
  <1>. QED
    BY <1>2, <1>3, <1>4, <1>5 DEF APInv

LEMMA WifiStopKeeps ==
  ASSUME APInv, wifi_stop
  PROVE  APInv'
  <1>0. /\ program = "runs" /\ call = "wifi_stop" /\ call' = "desetup"
        /\ UNCHANGED <<program, object, arg, result, loop, handlers, dhcps, ip, lease, ran, begun, refused>>
        /\ ControlTypes /\ LoopOnceStarted /\ QuietBefore /\ DeadIsDeaf /\ HalfDeaf /\ EventsInOrder
    BY DEF APInv, wifi_stop, At, Goto
  <1>1. LoopOnceStarted' /\ AddressSet' /\ DeadIsDeaf' /\ AbortIsMisuse' /\ HalfDeaf'
    BY <1>0 DEF LoopOnceStarted, AddressSet, DeadIsDeaf, AbortIsMisuse, HalfDeaf, Earlier
  <1>2. ASSUME UNCHANGED <<radio, events, posted>> PROVE APInv'
    <2>1. ControlTypes' /\ QuietBefore'
      BY <1>0, <1>2 DEF ControlTypes, QuietBefore, Quiet, Calls
    <2>. QED
      BY <1>0, <1>1, <1>2, <2>1, EventsAlone DEF APInv
  <1>3. ASSUME radio = "started", radio' = "initialised", Post("AP_STOP") PROVE APInv'
    <2>1. /\ events' \in Seq(EventNames) /\ posted' \in Nat /\ Len(ran) + Len(events') =< posted'
          /\ Len(events') = Len(events) + 1 /\ Len(events) \in Nat
          /\ \A i \in 1..Len(events) : events'[i] = events[i]
          /\ events'[Len(events) + 1] = "AP_STOP" /\ events' # << >>
          /\ \A i \in 1..Len(events') : i \in 1..Len(events) \/ i = Len(events) + 1
      <3>1. "AP_STOP" \in EventNames
        BY DEF EventNames
      <3>. QED
        BY <1>0, <1>3, <3>1, PostedAfter
    <2>2. ControlTypes' /\ QuietBefore'
      BY <1>0, <1>3, <2>1 DEF ControlTypes, QuietBefore, Calls
    <2>3. EventsInOrder'
      <3>. SUFFICES ASSUME handlers = Bases
                    PROVE  /\ \A i \in 1..Len(ran) : ran[i] # "on_stop"
                           /\ \A i \in 1..Len(events') :
                                events'[i] = "AP_START" <=> i = 1 /\ ran = << >>
                           /\ \A i \in 1..Len(events') :
                                events'[i] = "AP_STOP" => i = Len(events')
        BY <1>0, <1>3 DEF EventsInOrder, HalfDeaf, ControlTypes, Quiet
      <3>1. ~ Quiet /\ \A i \in 1..Len(ran) : ran[i] # "on_stop"
        BY <1>0, <1>3 DEF EventsInOrder, Bases
      <3>2. Len(events) = 0 => ran # << >>
        <4>1. Len(events) = 0 => events = << >>
          BY <1>0, EmptySeq DEF ControlTypes
        <4>. QED
          BY <3>1, <4>1 DEF Quiet
      <3>3. ASSUME NEW i \in 1..Len(events')
            PROVE  /\ events'[i] = "AP_START" <=> i = 1 /\ ran = << >>
                   /\ events'[i] = "AP_STOP" => i = Len(events')
        <4>1. CASE i \in 1..Len(events)
          <5>1. events'[i] = events[i] /\ events[i] # "AP_STOP"
            BY <1>0, <1>3, <2>1, <4>1 DEF EventsInOrder
          <5>. QED
            BY <1>0, <4>1, <5>1 DEF EventsInOrder
        <4>2. CASE i = Len(events) + 1
          BY <2>1, <3>2, <4>2
        <4>. QED
          BY <2>1, <4>1, <4>2
      <3>. QED
        BY <3>1, <3>3
    <2>4. MethodsInOrder'
      BY <1>0 DEF APInv, MethodsInOrder
    <2>. QED
      BY <1>1, <2>2, <2>3, <2>4 DEF APInv
  <1>. QED
    BY <1>2, <1>3 DEF wifi_stop

LEMMA DesetupKeeps ==
  ASSUME APInv, desetup
  PROVE  APInv'
  <1>0. /\ program = "runs" /\ call = "desetup" /\ begun # << >> /\ Last(begun) = "stop"
        /\ loop <=> "start" \in Earlier
        /\ ControlTypes /\ QuietBefore /\ DeadIsDeaf /\ HalfDeaf /\ LoopOnceStarted
        /\ EventsInOrder /\ MethodsInOrder
    BY DEF APInv, desetup, At, LoopOnceStarted
  <1>1. ASSUME ~ loop, Abort, UNCHANGED refused PROVE APInv'
    BY <1>0, <1>1, AbortKeeps DEF ControlTypes
  <1>2. ASSUME Refusal PROVE APInv'
    BY <1>0, <1>2, AbortKeeps DEF Refusal
  <1>3. ASSUME loop, Unregister("WIFI_EVENT"), Goto("desetup_ip"),
               UNCHANGED <<program, object, arg, result, loop, radio, dhcps, ip, lease,
                           events, posted, ran, begun, refused>>
        PROVE  APInv'
    <2>1. /\ handlers' = handlers \ {"WIFI_EVENT"} /\ call' = "desetup_ip"
          /\ handlers' \in {{}, {"IP_EVENT"}} /\ (handlers' # {} => handlers # {})
          /\ handlers' # Bases
      BY <1>0, <1>3 DEF ControlTypes, Unregister, Goto, Bases
    <2>2. ControlTypes'
      BY <1>0, <1>3, <2>1 DEF ControlTypes, Calls
    <2>3. LoopOnceStarted' /\ QuietBefore' /\ AddressSet' /\ AbortIsMisuse'
      BY <1>0, <1>3, <2>1 DEF LoopOnceStarted, QuietBefore, Quiet, AddressSet, AbortIsMisuse, Earlier
    <2>4. DeadIsDeaf' /\ HalfDeaf'
      BY <1>0, <1>3, <2>1 DEF DeadIsDeaf, HalfDeaf
    <2>5. EventsInOrder' /\ MethodsInOrder'
      BY <1>0, <1>3, <2>1 DEF EventsInOrder, MethodsInOrder
    <2>. QED
      BY <2>2, <2>3, <2>4, <2>5 DEF APInv
  <1>. QED
    BY <1>1, <1>2, <1>3 DEF desetup

LEMMA DesetupIpKeeps ==
  ASSUME APInv, desetup_ip
  PROVE  APInv'
  <1>0. /\ program = "runs" /\ call = "desetup_ip" /\ begun # << >> /\ Last(begun) = "stop"
        /\ loop <=> "start" \in Earlier
        /\ ControlTypes /\ QuietBefore /\ HalfDeaf /\ LoopOnceStarted /\ MethodsInOrder
    BY DEF APInv, desetup_ip, At, LoopOnceStarted
  <1>1. ASSUME Refusal PROVE APInv'
    BY <1>0, <1>1, AbortKeeps DEF Refusal
  <1>2. ASSUME Unregister("IP_EVENT"), object' \in {"destroyed", "alive"}, Goto("none"),
               UNCHANGED <<program, arg, result, loop, radio, dhcps, ip, lease,
                           events, posted, ran, begun, refused>>
        PROVE  APInv'
    <2>1. handlers' = {} /\ call' = "none"
      BY <1>0, <1>2 DEF ControlTypes, HalfDeaf, Unregister, Goto, Bases
    <2>2. ControlTypes'
      BY <1>0, <1>2, <2>1 DEF ControlTypes, Calls
    <2>3. "start" \in Begun <=> "start" \in Earlier
      BY <1>0, BegunIs
    <2>4. /\ LoopOnceStarted' /\ QuietBefore' /\ AddressSet' /\ DeadIsDeaf' /\ HalfDeaf'
          /\ AbortIsMisuse'
      BY <1>0, <1>2, <2>1, <2>3 DEF LoopOnceStarted, QuietBefore, Quiet, AddressSet, DeadIsDeaf,
         HalfDeaf, AbortIsMisuse, Begun
    <2>5. EventsInOrder' /\ MethodsInOrder'
      BY <1>0, <1>2, <2>1 DEF EventsInOrder, MethodsInOrder, Bases
    <2>. QED
      BY <2>2, <2>4, <2>5 DEF APInv
  <1>. QED
    BY <1>1, <1>2 DEF desetup_ip

LEMMA StationKeeps ==
  ASSUME APInv, NEW e \in StationEvents, Station(e)
  PROVE  APInv'
  <1>0. /\ program = "runs" /\ radio = "started" /\ Post(e)
        /\ UNCHANGED <<program, object, call, arg, result, loop, handlers, radio, dhcps, ip, lease,
                       ran, begun, refused>>
        /\ ControlTypes /\ LoopOnceStarted /\ QuietBefore /\ DeadIsDeaf /\ HalfDeaf
        /\ EventsInOrder /\ e # "AP_START" /\ e # "AP_STOP"
    BY DEF APInv, Station, owner, StationEvents
  <1>1. /\ events' \in Seq(EventNames) /\ posted' \in Nat /\ Len(ran) + Len(events') =< posted'
        /\ Len(events') = Len(events) + 1 /\ Len(events) \in Nat
        /\ \A i \in 1..Len(events) : events'[i] = events[i]
        /\ events'[Len(events) + 1] = e /\ events' # << >>
        /\ \A i \in 1..Len(events') : i \in 1..Len(events) \/ i = Len(events) + 1
    <2>1. e \in EventNames
      BY DEF EventNames
    <2>. QED
      BY <1>0, <2>1, PostedAfter
  <1>2. ControlTypes' /\ QuietBefore'
    BY <1>0, <1>1 DEF ControlTypes, QuietBefore, Calls
  <1>3. LoopOnceStarted' /\ AddressSet' /\ DeadIsDeaf' /\ HalfDeaf' /\ AbortIsMisuse' /\ MethodsInOrder'
    BY <1>0 DEF APInv, LoopOnceStarted, AddressSet, DeadIsDeaf, HalfDeaf, AbortIsMisuse,
       MethodsInOrder, Begun, Earlier
  <1>4. EventsInOrder'
    <2>0. handlers # {} => \A i \in 1..Len(ran) : ran[i] # "on_stop"
      BY <1>0 DEF EventsInOrder
    <2>. SUFFICES ASSUME handlers = Bases
                  PROVE  /\ \A i \in 1..Len(events') :
                              events'[i] = "AP_START" <=> i = 1 /\ ran = << >>
                         /\ \A i \in 1..Len(events') : events'[i] # "AP_STOP"
      BY <1>0, <1>1, <2>0 DEF EventsInOrder, Quiet
    <2>1. ~ Quiet
      BY <1>0 DEF EventsInOrder
    <2>2. Len(events) = 0 => ran # << >>
      <3>1. Len(events) = 0 => events = << >>
        BY <1>0, EmptySeq DEF ControlTypes
      <3>. QED
        BY <2>1, <3>1 DEF Quiet
    <2>3. ASSUME NEW i \in 1..Len(events')
          PROVE  /\ events'[i] = "AP_START" <=> i = 1 /\ ran = << >>
                 /\ events'[i] # "AP_STOP"
      <3>1. CASE i \in 1..Len(events)
        <4>1. events'[i] = events[i] /\ events[i] # "AP_STOP"
          BY <1>0, <1>1, <3>1 DEF EventsInOrder
        <4>. QED
          BY <1>0, <3>1, <4>1 DEF EventsInOrder
      <3>2. CASE i = Len(events) + 1
        BY <1>0, <1>1, <2>2, <3>2
      <3>. QED
        BY <1>1, <3>1, <3>2
    <2>. QED
      BY <2>3
  <1>. QED
    BY <1>2, <1>3, <1>4 DEF APInv

(* Which method an event runs. *)
LEMMA OnEvent ==
  ASSUME NEW e \in EventNames
  PROVE  /\ on_event(e) \in MethodNames /\ Base(e) \in Bases
         /\ on_event(e) = "on_start" <=> e = "AP_START"
         /\ on_event(e) = "on_stop" <=> e = "AP_STOP"
         /\ Base(e) = "IP_EVENT" => on_event(e) = "on_ip_event"
  BY DEF EventNames, StationEvents, MethodNames, on_event, Base, Bases

LEMMA DispatchKeeps ==
  ASSUME APInv, Dispatch
  PROVE  APInv'
  <1> DEFINE e == Head(events)
  <1>0. /\ program = "runs" /\ events # << >> /\ events' = Tail(events)
        /\ UNCHANGED <<program, object, call, arg, result, loop, handlers, radio, ip, lease,
                       posted, begun, refused>>
        /\ dhcps' \in BOOLEAN
        /\ ran' = IF Base(e) \in handlers THEN Append(ran, on_event(e)) ELSE ran
        /\ ControlTypes /\ LoopOnceStarted /\ QuietBefore /\ DeadIsDeaf /\ HalfDeaf
        /\ EventsInOrder /\ MethodsInOrder
    BY DEF APInv, ControlTypes, Dispatch, Run, owner
  <1>1. /\ e \in EventNames /\ e = events[1] /\ Len(events) \in Nat \ {0} /\ 1 \in 1..Len(events)
        /\ events' \in Seq(EventNames) /\ Len(events') = Len(events) - 1
        /\ \A i \in 1..Len(events') : events'[i] = events[i + 1] /\ i + 1 \in 1..Len(events)
    <2>1. events \in Seq(EventNames)
      BY <1>0 DEF ControlTypes
    <2>. QED
      BY <1>0, <2>1, HeadTailProperties, EmptySeq
  <1>2. on_event(e) \in MethodNames /\ Base(e) \in Bases
        /\ (on_event(e) = "on_start" <=> e = "AP_START")
        /\ (on_event(e) = "on_stop" <=> e = "AP_STOP")
        /\ (Base(e) = "IP_EVENT" => on_event(e) = "on_ip_event")
    BY <1>1, OnEvent
  <1> HIDE DEF e
  <1>3. LoopOnceStarted' /\ AddressSet' /\ DeadIsDeaf' /\ HalfDeaf' /\ AbortIsMisuse'
    BY <1>0 DEF APInv, LoopOnceStarted, AddressSet, DeadIsDeaf, HalfDeaf, AbortIsMisuse, Begun, Earlier
  <1>4. QuietBefore'
    BY <1>0 DEF QuietBefore, Quiet
  <1>5. /\ Len(ran) \in Nat /\ (ran = << >> <=> Len(ran) = 0)
        /\ handlers # {} => \A i \in 1..Len(ran) : ran[i] # "on_stop"
    BY <1>0, EmptySeq, LenProperties DEF ControlTypes, EventsInOrder
  <1>6. CASE Base(e) \notin handlers
    <2>1. ran' = ran /\ handlers # Bases
      BY <1>0, <1>2, <1>6
    <2>2. ControlTypes'
      BY <1>0, <1>1, <2>1 DEF ControlTypes
    <2>3. EventsInOrder' /\ MethodsInOrder'
      BY <1>0, <1>5, <2>1 DEF EventsInOrder, MethodsInOrder
    <2>. QED
      BY <1>3, <1>4, <2>2, <2>3 DEF APInv
  <1>7. CASE Base(e) \in handlers
    <2>1. /\ ran' \in Seq(MethodNames) /\ ran' # << >>
          /\ Len(ran') = Len(ran) + 1
          /\ \A i \in 1..Len(ran) : ran'[i] = ran[i]
          /\ ran'[Len(ran) + 1] = on_event(e)
      <3>1. ran \in Seq(MethodNames) /\ ran' = Append(ran, on_event(e))
        BY <1>0, <1>2, <1>7 DEF ControlTypes
      <3>. QED
        BY <1>2, <1>5, <3>1, AppendProperties
    <2>2. \A i \in 1..Len(ran') : i \in 1..Len(ran) \/ i = Len(ran) + 1
      BY <1>5, <2>1
    <2>3. ControlTypes'
      BY <1>0, <1>1, <2>1 DEF ControlTypes
    <2>4. \A i \in 1..Len(ran) : ran'[i] # "on_stop"
      BY <1>5, <1>7, <2>1
    <2>5. handlers = Bases \/ (handlers = {"IP_EVENT"} /\ on_event(e) = "on_ip_event")
      BY <1>0, <1>2, <1>7 DEF ControlTypes
    <2>6. e = "AP_START" /\ handlers = Bases => ran = << >>
      BY <1>0, <1>1 DEF EventsInOrder
    <2>7. e = "AP_STOP" => Len(events) = 1 /\ radio # "started"
      BY <1>0, <1>1, <1>2, <2>5 DEF EventsInOrder
    <2>8. ASSUME NEW i \in 1..Len(ran')
          PROVE  (ran'[i] = "on_start" => i = 1) /\ (ran'[i] = "on_stop" => i = Len(ran'))
      <3>1. CASE i \in 1..Len(ran)
        BY <1>0, <2>1, <2>4, <3>1 DEF MethodsInOrder
      <3>2. CASE i = Len(ran) + 1
        <4>1. ran'[i] = "on_start" => e = "AP_START" /\ handlers = Bases
          BY <1>2, <2>1, <2>5, <3>2
        <4>. QED
          BY <1>5, <2>1, <2>6, <3>2, <4>1
      <3>. QED
        BY <2>2, <3>1, <3>2
    <2>9. CASE handlers = Bases
      <3>1. ran'[1] = "on_start"
        <4>1. CASE ran = << >>
          <5>1. events[1] = "AP_START"
            BY <1>0, <1>1, <2>9, <4>1 DEF EventsInOrder
          <5>2. Len(ran) + 1 = 1
            BY <1>5, <4>1
          <5>. QED
            BY <1>1, <1>2, <2>1, <5>1, <5>2
        <4>2. CASE ran # << >>
          <5>1. ran[1] = "on_start" /\ 1 \in 1..Len(ran)
            BY <1>0, <1>5, <2>9, <4>2 DEF EventsInOrder
          <5>. QED
            BY <2>1, <5>1
        <4>. QED
          BY <4>1, <4>2
      <3>2. MethodsInOrder'
        BY <2>8, <3>1 DEF MethodsInOrder
      <3>3. \A i \in 1..Len(ran') : ran'[i] = "on_stop" => events' = << >> /\ radio' # "started"
        <4>. SUFFICES ASSUME NEW i \in 1..Len(ran'), ran'[i] = "on_stop"
                      PROVE  events' = << >> /\ radio' # "started"
          OBVIOUS
        <4>1. e = "AP_STOP"
          BY <1>2, <2>1, <2>2, <2>4
        <4>2. Len(events) = 1 /\ radio # "started"
          BY <2>7, <4>1
        <4>3. events' = << >>
          BY <1>1, <4>2, EmptySeq
        <4>. QED
          BY <1>0, <4>2, <4>3
      <3>4. \A i \in 1..Len(events') : events'[i] # "AP_START"
        <4>. TAKE i \in 1..Len(events')
        <4>1. events'[i] = events[i + 1] /\ i + 1 \in 1..Len(events) /\ i + 1 # 1
          BY <1>1
        <4>. QED
          BY <1>0, <2>9, <4>1 DEF EventsInOrder
      <3>5. \A i \in 1..Len(events') : events'[i] = "AP_STOP" => i = Len(events') /\ radio' # "started"
        <4>. TAKE i \in 1..Len(events')
        <4>1. /\ events'[i] = events[i + 1] /\ i + 1 \in 1..Len(events)
              /\ i + 1 = Len(events) => i = Len(events')
          BY <1>1
        <4>. QED
          BY <1>0, <2>9, <4>1 DEF EventsInOrder
      <3>6. EventsInOrder'
        BY <2>1, <3>1, <3>3, <3>4, <3>5 DEF EventsInOrder, Quiet
      <3>. QED
        BY <1>3, <1>4, <2>3, <3>2, <3>6 DEF APInv
    <2>10. CASE handlers = {"IP_EVENT"} /\ on_event(e) = "on_ip_event"
      <3>1. \A i \in 1..Len(ran') : ran'[i] # "on_stop"
        BY <2>1, <2>2, <2>4, <2>10
      <3>2. EventsInOrder'
        BY <1>0, <2>10, <3>1 DEF EventsInOrder, Bases
      <3>3. "stop" \in Range(begun')
        <4>1. begun # << >> /\ Last(begun) = "stop"
          BY <1>0, <2>10 DEF HalfDeaf, LoopOnceStarted
        <4>2. Len(begun) \in DOMAIN begun
          BY <1>0, <4>1, EmptySeq, LenProperties DEF ControlTypes
        <4>. QED
          BY <1>0, <4>1, <4>2 DEF Last, Range
      <3>4. ran'[1] # "on_start" => Range(ran') = {"on_ip_event"}
        <4>. SUFFICES ASSUME ran'[1] # "on_start" PROVE Range(ran') = {"on_ip_event"}
          OBVIOUS
        <4>1. \A i \in 1..Len(ran) : ran[i] = "on_ip_event"
          <5>1. CASE ran = << >>
            BY <1>5, <5>1
          <5>2. CASE ran # << >>
            <6>1. ran[1] # "on_start" /\ DOMAIN ran = 1..Len(ran)
              BY <1>0, <1>5, <2>1, <5>2 DEF ControlTypes
            <6>2. Range(ran) = {"on_ip_event"}
              BY <1>0, <5>2, <6>1 DEF MethodsInOrder
            <6>. QED
              BY <6>1, <6>2 DEF Range
          <5>. QED
            BY <5>1, <5>2
        <4>2. DOMAIN ran' = 1..Len(ran') /\ Len(ran') \in 1..Len(ran')
          BY <1>5, <2>1
        <4>3. \A i \in 1..Len(ran') : ran'[i] = "on_ip_event"
          BY <2>1, <2>2, <2>10, <4>1
        <4>. QED
          BY <4>2, <4>3 DEF Range
      <3>5. MethodsInOrder'
        BY <2>8, <3>3, <3>4 DEF MethodsInOrder
      <3>. QED
        BY <1>3, <1>4, <2>3, <3>2, <3>5 DEF APInv
    <2>. QED
      BY <2>5, <2>9, <2>10
  <1>. QED
    BY <1>6, <1>7

LEMMA APInvNext == APInv /\ [APNext]_apvars => APInv'
  <1>1. ASSUME APInv, UNCHANGED apvars PROVE APInv'
    <2>1. UNCHANGED <<program, object, call, arg, result, loop, handlers, radio, dhcps, ip, lease,
                      events, posted, ran, begun, refused>>
      BY <1>1 DEF apvars, owner, espidf
    <2>2. ControlTypes' /\ LoopOnceStarted' /\ QuietBefore' /\ DeadIsDeaf' /\ HalfDeaf'
      BY <1>1, <2>1 DEF APInv, ControlTypes, LoopOnceStarted, QuietBefore, DeadIsDeaf, HalfDeaf,
         Quiet, Begun, Earlier
    <2>3. EventsInOrder' /\ MethodsInOrder'
      BY <1>1, <2>1, EventsAlone
    <2>4. AbortIsMisuse' /\ AddressSet'
      BY <1>1, <2>1 DEF APInv, AbortIsMisuse, AddressSet, Earlier
    <2>. QED
      BY <2>2, <2>3, <2>4 DEF APInv
  <1>2. ASSUME APInv, Owner PROVE APInv'
    BY <1>2, BeginKeeps, SetupKeeps, WifiStartKeeps, SetIpKeeps, WifiStopKeeps, DesetupKeeps,
       DesetupIpKeeps DEF Owner
  <1>. QED
    BY <1>1, <1>2, StationKeeps, DispatchKeeps DEF APNext

LEMMA APInvHolds == APSpec => []APInv
  BY APInvInit, APInvNext, PTL DEF APSpec

(***************************************************************************)
(* For any number of calls, in any order, and any refusals: ESP_ERROR_CHECK*)
(* aborts the program only if ESP-IDF refused, or on a second start, or on *)
(* a stop before the first start.                                          *)
(***************************************************************************)
THEOREM AbortsAreMisuse == APSpec => []AbortIsMisuse
  <1>1. APInv => AbortIsMisuse
    BY DEF APInv
  <1>. QED
    BY <1>1, APInvHolds, PTL

(***************************************************************************)
(* For any number of calls and events, even with the event loop between    *)
(* the two steps in which a stop takes the handlers: on_start is the first *)
(* method that runs and on_stop the last, or else nothing but on_ip_event  *)
(* ever runs, and a stop was begun.                                        *)
(***************************************************************************)
THEOREM MethodsRunInOrder == APSpec => []MethodsInOrder
  <1>1. APInv => MethodsInOrder
    BY DEF APInv
  <1>. QED
    BY <1>1, APInvHolds, PTL

(***************************************************************************)
(* However many events wait when the object is destroyed: none of them     *)
(* runs one of its methods.                                                *)
(***************************************************************************)
THEOREM DeadMethodsRest == APSpec => NoMethodOnDead
  <1>1. ASSUME APInv, [APNext]_apvars, object = "destroyed" PROVE UNCHANGED ran
    <2>1. handlers = {} /\ call = "none"
      BY <1>1 DEF APInv, DeadIsDeaf
    <2>2. CASE Owner
      BY <2>2 DEF Owner, start, set_ipinfo, stop, setup, wifi_start, set_ip_info, dhcps_option,
         dhcps_start, wifi_stop, desetup, desetup_ip, Refusal, Abort
    <2>3. CASE Dispatch
      BY <2>1, <2>3 DEF Dispatch
    <2>4. CASE (\E e \in StationEvents : Station(e)) \/ UNCHANGED apvars
      BY <2>4 DEF Station, apvars
    <2>. QED
      BY <1>1, <2>2, <2>3, <2>4 DEF APNext
  <1>2. APInv /\ [APNext]_apvars => [object = "destroyed" => UNCHANGED ran]_apvars
    BY <1>1
  <1>. QED
    BY <1>2, APInvHolds, PTL DEF APSpec, NoMethodOnDead

-----------------------------------------------------------------------------
(***************************************************************************)
(* The addresses.                                                          *)
(***************************************************************************)
LEMMA TextsAreRead ==
  \A text \in Texts : ip4_address(text) = Says(text) /\ ip4_address(text) \in Address
  BY AccessPointAssumption, TextIsRead

AddressesOK ==
  ip \in Address /\ (lease = NoLease \/ (Len(lease) = 2 /\ Range(lease) \subseteq Address))

(* Adding to the last byte of an address wraps there and changes nothing else. *)
LEMMA PlusInRange ==
  ASSUME NEW a \in Address, NEW n \in Nat
  PROVE  /\ Plus(a, n) \in Address
         /\ \A k \in 1..3 : Plus(a, n)[k] = a[k]
         /\ Plus(a, n)[4] = (a[4] + n) % 256
  <1>1. a \in [1..4 -> 0..255] /\ 4 \in 1..4
    BY DEF Address, Byte
  <1>2. a[4] + n \in Nat
    BY <1>1
  <1>3. (a[4] + n) % 256 \in 0..255
    BY <1>2
  <1>4. Plus(a, n) = [a EXCEPT ![4] = (a[4] + n) % 256]
    BY DEF Plus
  <1> DEFINE v == (a[4] + n) % 256
  <1>5. v \in 0..255 /\ Plus(a, n) = [a EXCEPT ![4] = v]
    BY <1>3, <1>4
  <1> HIDE DEF v
  <1>6. /\ Plus(a, n) \in [1..4 -> 0..255]
        /\ \A k \in 1..3 : Plus(a, n)[k] = a[k]
        /\ Plus(a, n)[4] = v
    BY <1>1, <1>5
  <1>. QED
    BY <1>6 DEF Address, Byte, v

(* A network is the first three bytes. *)
LEMMA SameNetwork ==
  ASSUME NEW a, NEW b, \A k \in 1..3 : a[k] = b[k]
  PROVE  Network(a) = Network(b)
  BY DEF Network

(* Below the end of its network an address plus n is n further on in it. *)
LEMMA PlusInNetwork ==
  ASSUME NEW a \in Address, NEW n \in Nat, a[4] + n < 256
  PROVE  Plus(a, n)[4] = a[4] + n /\ Network(Plus(a, n)) = Network(a)
  <1>1. /\ \A k \in 1..3 : Plus(a, n)[k] = a[k]
        /\ Plus(a, n)[4] = (a[4] + n) % 256
    BY PlusInRange
  <1>2. a[4] \in 0..255
    BY DEF Address, Byte
  <1>3. (a[4] + n) % 256 = a[4] + n
    <2>1. \A m \in 0..255 : \A k \in Nat : m + k < 256 => (m + k) % 256 = m + k
      OBVIOUS
    <2>. QED
      BY <1>2, <2>1, Zenon
  <1>4. Network(Plus(a, n)) = Network(a)
    BY <1>1, SameNetwork
  <1>. QED
    BY <1>1, <1>3, <1>4

(* No step makes anything but addresses. *)
LEMMA AddressesStay ==
  ASSUME APInv, AddressesOK, [APNext]_apvars
  PROVE  AddressesOK'
  <1>1. CASE set_ip_info
    <2>1. ip' = ip \/ ip' = ip4_address(arg)
      BY <1>1 DEF set_ip_info
    <2>2. arg \in Texts /\ lease' = lease
      BY <1>1 DEF APInv, AddressSet, set_ip_info, At
    <2>. QED
      BY <2>1, <2>2, TextsAreRead DEF AddressesOK
  <1>2. CASE dhcps_option
    <2>1. ip' = ip /\ ip4_address(arg) \in Address
      BY <1>2, TextsAreRead DEF APInv, AddressSet, dhcps_option, At
    <2>2. CASE lease' = lease
      BY <2>1, <2>2 DEF AddressesOK
    <2>3. CASE lease' = <<Plus(ip4_address(arg), 1), Plus(ip4_address(arg), 11)>>
      <3>1. Plus(ip4_address(arg), 1) \in Address /\ Plus(ip4_address(arg), 11) \in Address
        BY <2>1, PlusInRange
      <3>2. Len(lease') = 2 /\ Range(lease') \subseteq Address
        BY <2>3, <3>1 DEF Range
      <3>. QED
        BY <2>1, <3>2 DEF AddressesOK
    <2>. QED
      BY <1>2, <2>2, <2>3 DEF dhcps_option
  <1>3. CASE Owner /\ ~ set_ip_info /\ ~ dhcps_option
    <2>1. UNCHANGED <<ip, lease>>
      BY <1>3 DEF Owner, start, set_ipinfo, stop, setup, wifi_start, dhcps_start, wifi_stop,
         desetup, desetup_ip, Refusal, Abort, espidf
    <2>. QED
      BY <2>1 DEF AddressesOK
  <1>4. CASE (\E e \in StationEvents : Station(e)) \/ Dispatch \/ UNCHANGED apvars
    <2>1. UNCHANGED <<ip, lease>>
      BY <1>4 DEF Station, Dispatch, apvars, espidf
    <2>. QED
      BY <2>1 DEF AddressesOK
  <1>. QED
    BY <1>1, <1>2, <1>3, <1>4 DEF APNext

(* So every address is one. *)
LEMMA AddressesHold == APSpec => []AddressesOK
  <1>1. APInit => AddressesOK
    BY DEF APInit, AddressesOK, AddressAny, Address, Byte
  <1>2. APInv /\ AddressesOK /\ [APNext]_apvars => AddressesOK'
    BY AddressesStay
  <1>. QED
    BY <1>1, <1>2, APInvHolds, PTL DEF APSpec

(***************************************************************************)
(* Types, whatever the owner writes and in any order of calls: at most one *)
(* method for each event that was posted.                                  *)
(***************************************************************************)
THEOREM TypesOfAccessPoint == APSpec => []APTypeOK
  <1>1. APInv /\ AddressesOK => APTypeOK
    BY DEF APInv, ControlTypes, AddressesOK, APTypeOK, Bases
  <1>. QED
    BY <1>1, APInvHolds, AddressesHold, PTL

(***************************************************************************)
(* Whatever the text, whatever ESP-IDF refuses and whenever the access     *)
(* point comes up: set_ipinfo returns true only with the address the text  *)
(* says and a running server.                                              *)
(***************************************************************************)
THEOREM TrueIsServed == APSpec => TrueMeansServed
  <1>1. ASSUME APInv, [APNext]_apvars, call = "dhcps_start", call' = "none", result' = "true"
        PROVE  dhcps' /\ ip' = Says(arg)
    <2>1. dhcps_start
      BY <1>1 DEF APNext, Owner, start, set_ipinfo, stop, setup, wifi_start, set_ip_info,
         dhcps_option, wifi_stop, desetup, desetup_ip, Idle, At, Station, Dispatch, apvars, owner
    <2>2. ip = ip4_address(arg) /\ arg \in Texts
      BY <1>1, <2>1 DEF APInv, AddressSet, dhcps_start, At
    <2>3. dhcps' = TRUE /\ ip' = ip
      BY <1>1, <2>1 DEF dhcps_start, Return
    <2>. QED
      BY <2>2, <2>3, TextsAreRead
  <1>2. APInv /\ [APNext]_apvars =>
          [call = "dhcps_start" /\ call' = "none" /\ result' = "true" => dhcps' /\ ip' = Says(arg)]_apvars
    BY <1>1
  <1>. QED
    BY <1>2, APInvHolds, PTL DEF APSpec, TrueMeansServed

(***************************************************************************)
(* Up to eleven stations, any address below 244: the leases lie in its     *)
(* network, are enough, and exclude it and the broadcast address.          *)
(***************************************************************************)
THEOREM LeasesAreUsable ==
  ASSUME max_connection =< 11
  PROVE  APSpec => LeaseUsable
  <1>0. max_connection =< 11
    OBVIOUS
  <1>1. ASSUME APInv, AddressesOK, [APNext]_apvars, lease' # lease, ip[4] < 244
        PROVE  Usable(lease'[1], lease'[2], ip)
    <2>1. dhcps_option
      BY <1>1 DEF APNext, Owner, start, set_ipinfo, stop, setup, wifi_start, set_ip_info,
         dhcps_start, wifi_stop, desetup, desetup_ip, Refusal, Abort, Station, Dispatch, apvars, espidf
    <2>2. ip = ip4_address(arg) /\ ip \in Address
      BY <1>1, <2>1 DEF APInv, AddressSet, dhcps_option, At, AddressesOK
    <2>3. lease' = <<Plus(ip, 1), Plus(ip, 11)>>
      BY <1>1, <2>1, <2>2 DEF dhcps_option
    <2>4. ip[4] \in 0..243
      BY <1>1, <2>2 DEF Address, Byte
    <2>5. /\ Plus(ip, 1)[4] = ip[4] + 1 /\ Network(Plus(ip, 1)) = Network(ip)
          /\ Plus(ip, 11)[4] = ip[4] + 11 /\ Network(Plus(ip, 11)) = Network(ip)
      <3>1. 1 \in Nat /\ ip[4] + 1 < 256
        BY <2>4
      <3>2. 11 \in Nat /\ ip[4] + 11 < 256
        BY <2>4
      <3>3. Plus(ip, 1)[4] = ip[4] + 1 /\ Network(Plus(ip, 1)) = Network(ip)
        BY <2>2, <3>1, PlusInNetwork, Zenon
      <3>4. Plus(ip, 11)[4] = ip[4] + 11 /\ Network(Plus(ip, 11)) = Network(ip)
        BY <2>2, <3>2, PlusInNetwork, Zenon
      <3>. QED
        BY <3>3, <3>4
    <2>6. /\ lease'[1] = Plus(ip, 1) /\ lease'[2] = Plus(ip, 11)
      BY <2>3
    <2>7. /\ lease'[1][4] = ip[4] + 1 /\ lease'[2][4] = ip[4] + 11
          /\ Network(lease'[1]) = Network(ip) /\ Network(lease'[2]) = Network(ip)
      BY <2>5, <2>6
    <2> DEFINE b == ip[4]
    <2>8. b \in 0..243 /\ lease'[1][4] = b + 1 /\ lease'[2][4] = b + 11
      BY <2>4, <2>7
    <2> HIDE DEF b
    <2>9. /\ b \notin (b + 1)..(b + 11) /\ 255 \notin (b + 1)..(b + 11)
          /\ (b + 11) - (b + 1) + 1 >= max_connection
      BY <1>0, <2>8, AccessPointAssumption
    <2>. QED
      BY <2>7, <2>8, <2>9 DEF Usable
  <1>2. APInv /\ AddressesOK /\ [APNext]_apvars =>
          [lease' # lease /\ ip[4] < 244 => Usable(lease'[1], lease'[2], ip)]_apvars
    BY <1>1
  <1>. QED
    BY <1>2, APInvHolds, AddressesHold, PTL DEF APSpec, LeaseUsable

(***************************************************************************)
(* For every text of any length: the address of the interface changes only *)
(* to the one the text says, which to_string prints within its 16          *)
(* characters and the constructor reads back.                              *)
(***************************************************************************)
THEOREM InterfaceIsAsWritten == APSpec => InterfaceAsWritten
  <1>1. ASSUME APInv, [APNext]_apvars, ip' # ip
        PROVE  /\ ip' = Says(arg)
               /\ ip4_address(to_string(ip')) = ip'
               /\ Len(to_string(ip')) < 16
    <2>1. set_ip_info
      BY <1>1 DEF APNext, Owner, start, set_ipinfo, stop, setup, wifi_start, dhcps_option,
         dhcps_start, wifi_stop, desetup, desetup_ip, Refusal, Abort, Station, Dispatch, apvars, espidf
    <2>2. ip' = ip4_address(arg) /\ arg \in Texts
      BY <1>1, <2>1 DEF APInv, AddressSet, set_ip_info, At
    <2>3. ip' = Says(arg) /\ ip' \in Address
      BY <2>2, TextsAreRead
    <2>. QED
      BY <2>3, PrintedIsRead
  <1>2. APInv /\ [APNext]_apvars =>
          [ip' # ip => /\ ip' = Says(arg)
                       /\ ip4_address(to_string(ip')) = ip'
                       /\ Len(to_string(ip')) < 16]_apvars
    BY <1>1
  <1>. QED
    BY <1>2, APInvHolds, PTL DEF APSpec, InterfaceAsWritten
=============================================================================
