------------------------------ MODULE AccessPoint ------------------------------
(***************************************************************************)
(* basic_wifi_ap with its bases (src/basic_wifi_ap.cpp, src/basic_wifi.cpp,*)
(* src/if_interface.cpp): its owner may call start, set_ipinfo and stop in *)
(* any order and destroy it, while the task of the event loop of ESP-IDF   *)
(* hands out events.  ESP-IDF is outside the repository; it may refuse any *)
(* call, and a refusal under ESP_ERROR_CHECK aborts the program.  So does  *)
(* a second event loop.                                                    *)
(***************************************************************************)
EXTENDS IpAddress, Integers

CONSTANTS
  Texts,          \* addresses the owner writes
  max_connection, \* stations the access point admits
  MaxCalls,       \* bound: calls of the owner
  MaxEvents       \* bound: events posted

ASSUME AccessPointAssumption ==
  /\ Texts \subseteq Seq(Characters)
  /\ max_connection \in Nat /\ MaxCalls \in Nat /\ MaxEvents \in Nat

VARIABLES
  program,                  \* "runs", or "aborted" by ESP_ERROR_CHECK
  object,                   \* "alive", or "destroyed"
  call, arg, result,        \* the owner: where he is, with what; last result
  loop, handlers, radio,    \* ESP-IDF: event loop, handlers on it, Wi-Fi
  dhcps, ip, lease,         \* ESP-IDF: DHCP server, address, leases
  events,                   \* posted and not yet handed out
  ran,                      \* history: methods run by events
  begun, refused, posted    \* histories: starts and stops, refusals, events

espidf == <<loop, handlers, radio, dhcps, ip, lease, events, posted>>
owner  == <<object, call, arg, result>>
apvars == <<program, owner, espidf, ran, begun, refused>>

NoLease == << >>
Bases   == {"WIFI_EVENT", "IP_EVENT"}

APInit ==
  /\ program = "runs" /\ object = "alive"
  /\ call = "none" /\ arg = "none" /\ result = "none"
  /\ loop = FALSE /\ handlers = {} /\ radio = "off"
  /\ dhcps = FALSE /\ ip = AddressAny /\ lease = NoLease
  /\ events = << >> /\ ran = << >>
  /\ begun = << >> /\ refused = FALSE /\ posted = 0

-------------------------------------------------------------------------------
Abort == program' = "aborted" /\ UNCHANGED <<owner, espidf, ran, begun>>

Refusal == refused' = TRUE /\ Abort

At(label)    == program = "runs" /\ call = label
Goto(label)  == call' = label
Idle         == At("none") /\ object = "alive" /\ Len(begun) < MaxCalls
Post(e)      == events' = Append(events, e) /\ posted' = posted + 1
Return(r)    == call' = "none" /\ result' = r

(***************************************************************************)
(* start: an empty name is refused before anything is touched; then setup, *)
(* configuration and start of the Wi-Fi.  get_mode() is WIFI_MODE_AP for   *)
(* this class, so its tests against WIFI_MODE_NULL never return early.     *)
(* The configuration is not initialised: ESP-IDF may refuse it.            *)
(***************************************************************************)
start_SetsUpFirst(ssid) ==             \* fault: the name is looked at after setup
  /\ Idle
  /\ arg' = ssid /\ Goto("setup")
  /\ begun' = IF ssid = "empty" THEN begun ELSE Append(begun, "start")
  /\ UNCHANGED <<program, object, result, espidf, ran, refused>>

start(ssid) ==
  /\ Idle
  /\ arg' = ssid
  /\ IF ssid = "empty" THEN Return("false") /\ UNCHANGED begun
     ELSE Goto("setup") /\ begun' = Append(begun, "start") /\ UNCHANGED result
  /\ UNCHANGED <<program, object, espidf, ran, refused>>

Registered_Half == {"IP_EVENT"}        \* fault: one handler is not registered
Registered      == Bases

setup ==
  /\ At("setup")
  /\ \/ loop /\ Abort /\ UNCHANGED refused
     \/ ~loop /\ Refusal
     \/ /\ ~loop
        /\ loop' = TRUE /\ handlers' = Registered /\ radio' = "initialised"
        /\ Goto("wifi_start")
        /\ UNCHANGED <<program, object, arg, result, dhcps, ip, lease, events,
                       posted, ran, begun, refused>>

wifi_start ==
  /\ At("wifi_start")
  /\ \/ Refusal
     \/ /\ radio' = "started" /\ Post("AP_START") /\ Return("true")
        /\ UNCHANGED <<program, object, arg, loop, handlers, dhcps, ip, lease,
                       ran, begun, refused>>

(***************************************************************************)
(* set_ipinfo(local, ...): four calls; the results of the one that stops   *)
(* the server and of the one that sets the leases are not looked at.       *)
(* ESP-IDF changes the address and the leases only while the server is     *)
(* stopped, and starts it only then.                                       *)
(***************************************************************************)
set_ipinfo(local) ==
  /\ Idle
  /\ arg' = local /\ dhcps' \in {FALSE, dhcps} /\ Goto("set_ip_info")
  /\ UNCHANGED <<program, object, result, loop, handlers, radio, ip, lease,
                 events, posted, ran, begun, refused>>

set_ip_info_Unasked ==                 \* fault: the result is not asked
  /\ At("set_ip_info")
  /\ ip' \in IF radio = "off" \/ dhcps THEN {ip} ELSE {ip, ip4_address(arg)}
  /\ Goto("dhcps_option")
  /\ UNCHANGED <<program, object, arg, result, loop, handlers, radio, dhcps,
                 lease, events, posted, ran, begun, refused>>

set_ip_info ==
  /\ At("set_ip_info")
  /\ \/ Return("false") /\ UNCHANGED ip
     \/ /\ radio # "off" /\ ~dhcps
        /\ ip' = ip4_address(arg)
        /\ Goto("dhcps_option") /\ UNCHANGED result
  /\ UNCHANGED <<program, object, arg, loop, handlers, radio, dhcps, lease,
                 events, posted, ran, begun, refused>>

dhcps_option ==
  /\ At("dhcps_option")
  /\ \/ UNCHANGED lease
     \/ /\ ~dhcps
        /\ lease' = <<Plus(ip4_address(arg), 1), Plus(ip4_address(arg), 11)>>
  /\ Goto("dhcps_start")
  /\ UNCHANGED <<program, object, arg, result, loop, handlers, radio, dhcps, ip,
                 events, posted, ran, begun, refused>>

dhcps_start ==
  /\ At("dhcps_start")
  /\ \/ Return("false") /\ UNCHANGED dhcps
     \/ ~dhcps /\ dhcps' = TRUE /\ Return("true")
  /\ UNCHANGED <<program, object, arg, loop, handlers, radio, ip, lease, events,
                 posted, ran, begun, refused>>

(***************************************************************************)
(* stop(wifioff) and the destructor, which is stop(true): an empty         *)
(* configuration (refused without Wi-Fi), perhaps the end of the Wi-Fi,    *)
(* whose refusal goes unnoticed, and desetup, which fails without an event *)
(* loop.  The handlers go one after the other, and the event loop may run  *)
(* in between.  One that is not registered is no error to unregister.      *)
(***************************************************************************)
stop(how) ==
  /\ Idle
  /\ arg' = how /\ begun' = Append(begun, "stop") /\ Goto("wifi_stop")
  /\ result' \in IF radio = "off" THEN {"false"} ELSE {"true", "false"}
  /\ UNCHANGED <<program, object, espidf, ran, refused>>

wifi_stop ==
  /\ At("wifi_stop")
  /\ Goto("desetup")
  /\ \/ /\ arg \in {"wifioff", "destroy"} /\ radio = "started"
        /\ radio' = "initialised" /\ Post("AP_STOP")
     \/ UNCHANGED <<radio, events, posted>>
  /\ UNCHANGED <<program, object, arg, result, loop, handlers, dhcps, ip, lease,
                 ran, begun, refused>>

Unregister_IpOnly(base) ==             \* fault: the other handler stays
  handlers' = handlers \ {"IP_EVENT"}
Unregister(base) == handlers' = handlers \ {base}

desetup ==
  /\ At("desetup")
  /\ \/ ~loop /\ Abort /\ UNCHANGED refused
     \/ loop /\ Refusal
     \/ /\ loop
        /\ Unregister("WIFI_EVENT") /\ Goto("desetup_ip")
        /\ UNCHANGED <<program, object, arg, result, loop, radio, dhcps, ip, lease,
                       events, posted, ran, begun, refused>>

desetup_ip ==
  /\ At("desetup_ip")
  /\ \/ Refusal
     \/ /\ Unregister("IP_EVENT")
        /\ object' = IF arg = "destroy" THEN "destroyed" ELSE "alive"
        /\ Goto("none")
        /\ UNCHANGED <<program, arg, result, loop, radio, dhcps, ip, lease,
                       events, posted, ran, begun, refused>>

Owner ==
  \/ \E ssid \in {"empty", "named"} : start(ssid)
  \/ \E local \in Texts : set_ipinfo(local)
  \/ \E how \in {"keep", "wifioff", "destroy"} : stop(how)
  \/ setup \/ wifi_start \/ set_ip_info \/ dhcps_option \/ dhcps_start
  \/ wifi_stop \/ desetup \/ desetup_ip

-------------------------------------------------------------------------------
(***************************************************************************)
(* The Wi-Fi posts events; the event loop hands them out one by one, first *)
(* to ESP-IDF's own handlers, which start and stop the DHCP server with    *)
(* the access point, then to ours, which run a method of the object.       *)
(***************************************************************************)
StationEvents == {"AP_STACONNECTED", "AP_STADISCONNECTED", "AP_PROBEREQRECVED",
                  "AP_STAIPASSIGNED"}

Station(e) ==
  /\ program = "runs" /\ radio = "started" /\ posted < MaxEvents
  /\ Post(e)
  /\ UNCHANGED <<program, owner, loop, handlers, radio, dhcps, ip, lease, ran,
                 begun, refused>>

Base(e) == IF e = "AP_STAIPASSIGNED" THEN "IP_EVENT" ELSE "WIFI_EVENT"

on_event(e) ==
  CASE e = "AP_START"           -> "on_start"
    [] e = "AP_STOP"            -> "on_stop"
    [] e = "AP_STACONNECTED"    -> "on_connected"
    [] e = "AP_STADISCONNECTED" -> "on_disconnected"
    [] e = "AP_PROBEREQRECVED"  -> "on_probereqrec"
    [] e = "AP_STAIPASSIGNED"   -> "on_ip_event"

Run_Twice(method) == ran \o <<method, method>>   \* fault: every handler for both bases
Run(method) == Append(ran, method)

Dispatch ==
  /\ program = "runs" /\ events # << >>
  /\ events' = Tail(events)
  /\ dhcps' = CASE Head(events) = "AP_START" -> TRUE
                [] Head(events) = "AP_STOP"  -> FALSE
                [] OTHER -> dhcps
  /\ ran' = IF Base(Head(events)) \in handlers
            THEN Run(on_event(Head(events))) ELSE ran
  /\ UNCHANGED <<program, owner, loop, handlers, radio, ip, lease, posted, begun,
                 refused>>

APNext == Owner \/ (\E e \in StationEvents : Station(e)) \/ Dispatch

APSpec == APInit /\ [][APNext]_apvars
-------------------------------------------------------------------------------
(***************************************************************************)
(* Types.                                                                  *)
(***************************************************************************)
Calls == {"none", "setup", "wifi_start", "set_ip_info", "dhcps_option",
          "dhcps_start", "wifi_stop", "desetup", "desetup_ip"}

APTypeOK ==
  /\ program \in {"runs", "aborted"} /\ object \in {"alive", "destroyed"}
  /\ call \in Calls /\ result \in {"none", "true", "false"}
  /\ loop \in BOOLEAN /\ handlers \subseteq Bases
  /\ radio \in {"off", "initialised", "started"}
  /\ dhcps \in BOOLEAN /\ ip \in Address
  /\ lease = NoLease \/ (Len(lease) = 2 /\ Range(lease) \subseteq Address)
  /\ begun \in Seq({"start", "stop"}) /\ refused \in BOOLEAN
  /\ Len(ran) + Len(events) =< posted

(***************************************************************************)
(* An owner is aborted only by a refusal of ESP-IDF, or if he starts twice *)
(* (even after a stop), or stops or destroys what he has not started: no   *)
(* other order of calls runs into an ESP_ERROR_CHECK.  A start with an     *)
(* empty name does not count.                                              *)
(***************************************************************************)
Earlier == {begun[i] : i \in 1..(Len(begun) - 1)}

AbortIsMisuse ==
  program = "aborted" /\ ~refused =>
    /\ begun # << >>
    /\ (Last(begun) = "start") <=> ("start" \in Earlier)

(***************************************************************************)
(* The static handlers hold a pointer to the object: whatever events are   *)
(* still queued, none of its methods runs once it is destroyed.            *)
(***************************************************************************)
NoMethodOnDead == [][object = "destroyed" => UNCHANGED ran]_apvars

(***************************************************************************)
(* The methods see the life of the access point in order: on_start first,  *)
(* on_stop last.  There is one way out: a stop that takes the handler for  *)
(* the Wi-Fi before AP_START is handed out, and the other one too late.    *)
(* Then on_ip_event may run for an object that was never told on_start,    *)
(* and no other method will ever run.                                      *)
(***************************************************************************)
MethodsInOrder ==
  /\ \A i \in 1..Len(ran) :
       /\ ran[i] = "on_start" => i = 1
       /\ ran[i] = "on_stop" => i = Len(ran)
  /\ ran # << >> /\ ran[1] # "on_start" =>
       Range(ran) = {"on_ip_event"} /\ "stop" \in Range(begun)

(***************************************************************************)
(* The interface gets the address the text says, for every text, and       *)
(* 0.0.0.0, never a part of it, for a text that is not an address.  What   *)
(* to_string prints of it fits its buffer of 16 characters with the final  *)
(* zero, and is read back as the same address.                             *)
(***************************************************************************)
InterfaceAsWritten ==
  [][ip' # ip => /\ ip' = Says(arg)
                 /\ ip4_address(to_string(ip')) = ip'
                 /\ Len(to_string(ip')) < 16]_apvars

(***************************************************************************)
(* Below 244 as its last byte, an address gets leases in its own network,  *)
(* enough for the stations that are admitted, without itself and without   *)
(* the broadcast address.                                                  *)
(***************************************************************************)
Network(a) == SubSeq(a, 1, 3)

Usable(first, last, local) ==
  /\ Network(first) = Network(local) /\ Network(last) = Network(local)
  /\ last[4] - first[4] + 1 >= max_connection
  /\ local[4] \notin first[4]..last[4]
  /\ 255 \notin first[4]..last[4]

LeaseUsable ==
  [][lease' # lease /\ ip[4] < 244 => Usable(lease'[1], lease'[2], ip)]_apvars

(***************************************************************************)
(* When set_ipinfo returns true, the address is the one asked for and the  *)
(* server runs, even if the access point comes up in the middle and ESP-IDF*)
(* starts the server between the calls.                                    *)
(***************************************************************************)
TrueMeansServed ==
  [][call = "dhcps_start" /\ call' = "none" /\ result' = "true"
       => dhcps' /\ ip' = Says(arg)]_apvars
===============================================================================
