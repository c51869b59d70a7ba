------------------------------ MODULE UsbDevice ------------------------------
(***************************************************************************)
(* The USB device state machine and the EP0 control pipe (usbcore/usb_ctrl.c,*)
(* usb_ep.c, usb_ep_stream.c and the class requests of usb_hid.c).  A SETUP *)
(* packet is fetched and served by the main loop in several steps, with busy*)
(* waits for the host; the bus-event interrupt (suspend, resume, reset) may *)
(* run between any two of them.  The host is modelled as the other party of *)
(* every control transfer; it may abandon one by sending a new SETUP.       *)
(***************************************************************************)
EXTENDS Naturals

CONSTANTS
  Address,    \* nonzero device addresses the host assigns
  NoAddr,     \* the host has not reset the device yet
  Unsure,     \* the host abandoned a SET_CONFIGURATION
  NoSetup     \* no SETUP pending, no transfer in progress

ASSUME DeviceAssumption ==
  /\ Address \subseteq Nat \ {0}
  /\ NoAddr \notin Nat /\ Unsure \notin Nat

Config == {0, 1}      \* the only configuration value is 1 (usb_desc.c:192)

(* Requests by what their handler does.  A class request is taken by
   usb_event_ctrl_request() without a second look at the SETUP flag; an IN
   reply whose length is a multiple of the EP0 size is followed by a ZLP. *)
SetAddress(a)       == [kind |-> "SET_ADDRESS", addr |-> a]
SetConfiguration(n) == [kind |-> "SET_CONFIGURATION", num |-> n]
GetRequest          == [kind: {"GET"}, class: BOOLEAN, zlp: BOOLEAN]
SetIdle             == [kind |-> "SET_IDLE"]
SetFeature          == [kind |-> "SET_FEATURE"]
SetReport           == [kind |-> "SET_REPORT"]
Unsupported         == [kind |-> "UNSUPPORTED"]

Request ==
  {SetAddress(a) : a \in Address} \cup {SetConfiguration(n) : n \in Config}
    \cup GetRequest \cup {SetIdle, SetFeature, SetReport, Unsupported}

ASSUME RequestAssumption == NoSetup \notin Request

ClassRequest(r) == r.kind \in {"SET_IDLE", "SET_REPORT"} \/ (r.kind = "GET" /\ r.class)

VARIABLES
  usb_device_state,
  usb_config_num,
  usb_addr,       \* USB0.ADDR
  ep_enabled,     \* EP1 and EP2 configured (hid_configure, ep_clear_all)
  setup,          \* the SETUP packet pending in EP0 OUT, or NoSetup
  ep0_in,         \* EP0 IN bank: free (BUSNAK), or armed with data or a ZLP
  ep0_out,        \* EP0 OUT bank: empty, or full (TRNCOMPL)
  ep0_stall,      \* DOSTALL
  pc,             \* where the main loop stands in usb_ctrl_poll()
  usb_ctrl_req,   \* the request being served
  next_state,     \* usb_device_state computed, not stored yet
  bus,            \* the bus as the host drives it
  host_addr,      \* the address the host uses
  host_config,    \* the configuration the host believes in
  host_xfer,      \* the host's control transfer in progress, or NoSetup
  host_stage,     \* its stage
  overtaken       \* (ghost) a bus event ran before a request was done with

device   == <<usb_device_state, usb_config_num, usb_addr, ep_enabled>>
ep0      == <<setup, ep0_in, ep0_out, ep0_stall>>
handler  == <<pc, usb_ctrl_req, next_state>>
host     == <<host_addr, host_config, host_xfer, host_stage>>
usbvars  == <<device, ep0, handler, bus, host, overtaken>>

DevState == {"UNATTACHED", "POWERED", "DEFAULT", "ADDRESSED", "CONFIGURED", "SUSPENDED"}

UsbInit ==
  /\ usb_device_state = "UNATTACHED" /\ usb_config_num = 0 /\ usb_addr = 0
  /\ ep_enabled = FALSE
  /\ setup = NoSetup /\ ep0_in = "free" /\ ep0_out = "empty" /\ ep0_stall = FALSE
  /\ pc = "poll" /\ usb_ctrl_req = SetIdle /\ next_state = "DEFAULT"
  /\ bus = "active"
  /\ host_addr = NoAddr /\ host_config = 0 /\ host_xfer = NoSetup /\ host_stage = "idle"
  /\ overtaken = FALSE

------------------------------------------------------------------------------
(* The main loop: usb_ctrl_poll() and the request handlers. *)

Goto(here, there) == pc = here /\ pc' = there

(* usb_ctrl_poll and the SETUP copy of usb_process_ctrl_request. *)
FetchSetup ==
  /\ Goto("poll", "dispatch")
  /\ usb_device_state # "UNATTACHED"
  /\ setup # NoSetup
  /\ usb_ctrl_req' = setup
  /\ UNCHANGED <<device, ep0, next_state, bus, host, overtaken>>

(* Mutant: a stall outlives the next SETUP. *)
StallStays ==
  /\ setup' = NoSetup /\ ep0_in' = "free" /\ ep0_out' = "empty" /\ UNCHANGED ep0_stall

(* ep_clear_setup: SETUP and stall flags off, both banks emptied. *)
ep_clear_setup ==
  /\ setup' = NoSetup /\ ep0_in' = "free" /\ ep0_out' = "empty" /\ ep0_stall' = FALSE

(* Mutant: the data stage is forgotten. *)
StatusAtOnce(r) == "status_in"

(* The stage that follows ep_clear_setup() in the handler of r. *)
AfterClear(r) ==
  CASE r.kind = "GET"        -> "data_in"
    [] r.kind = "SET_REPORT" -> "data_out"
    [] OTHER                 -> "status_in"

(* Class requests go to the application first; the standard dispatcher runs
   only if a SETUP is still pending, and returns otherwise. *)
Dispatch ==
  /\ \/ /\ ~ClassRequest(usb_ctrl_req) /\ setup = NoSetup
        /\ Goto("dispatch", "poll")
     \/ /\ usb_ctrl_req.kind = "UNSUPPORTED" /\ setup # NoSetup
        /\ Goto("dispatch", "tail")
     \/ /\ usb_ctrl_req.kind # "UNSUPPORTED"
        /\ ClassRequest(usb_ctrl_req) \/ setup # NoSetup
        /\ Goto("dispatch", IF usb_ctrl_req.kind = "SET_CONFIGURATION" THEN "cfg_number"
                                                                     ELSE "clear")
  /\ UNCHANGED <<device, ep0, usb_ctrl_req, next_state, bus, host, overtaken>>

(* ctrl_set_configuration stores the number before it clears the SETUP. *)
StoreNumber ==
  /\ Goto("cfg_number", "clear")
  /\ usb_config_num' = usb_ctrl_req.num
  /\ UNCHANGED <<usb_device_state, usb_addr, ep_enabled, ep0, usb_ctrl_req, next_state,
                 bus, host, overtaken>>

(* The handler clears the SETUP, whichever it is by then. *)
ClearSetup ==
  /\ Goto("clear", AfterClear(usb_ctrl_req))
  /\ ep_clear_setup
  /\ UNCHANGED <<device, usb_ctrl_req, next_state, bus, host, overtaken>>

(* ep_write_ctrl_stream: arm the data, then perhaps a ZLP behind it.  The
   wait for the ZLP's turn looks at no SETUP (usb_ep_stream.c:77,111). *)
SendData ==
  /\ Goto("data_in", IF usb_ctrl_req.zlp THEN "zlp_wait" ELSE "status_out")
  /\ ep0_in' = "data"
  /\ UNCHANGED <<device, setup, ep0_out, ep0_stall, usb_ctrl_req, next_state, bus, host,
                 overtaken>>

SendZlp ==
  /\ Goto("zlp_wait", "status_out")
  /\ ep0_in = "free"
  /\ ep0_in' = "zlp"
  /\ UNCHANGED <<device, setup, ep0_out, ep0_stall, usb_ctrl_req, next_state, bus, host,
                 overtaken>>

(* Mutant: no way out of the wait but the host's packet. *)
SetupEndsWaitNever == FALSE

(* "host aborted, new SETUP pending": the other way out of a busy wait. *)
SetupEndsWait == setup # NoSetup

(* ep_complete_ctrl_status after IN data: wait for the host's ZLP. *)
WaitStatusOut ==
  /\ Goto("status_out", "tail")
  /\ \/ ep0_out = "full" /\ ep0_out' = "empty"
     \/ ep0_out # "full" /\ SetupEndsWait /\ UNCHANGED ep0_out
  /\ UNCHANGED <<device, setup, ep0_in, ep0_stall, usb_ctrl_req, next_state, bus, host,
                 overtaken>>

(* ep_read_ctrl_stream for SET_REPORT; its result is not looked at. *)
WaitDataOut ==
  /\ Goto("data_out", "status_in")
  /\ \/ ep0_out = "full" /\ ep0_out' = "empty"
     \/ ep0_out # "full" /\ SetupEndsWait /\ UNCHANGED ep0_out
  /\ UNCHANGED <<device, setup, ep0_in, ep0_stall, usb_ctrl_req, next_state, bus, host,
                 overtaken>>

(* ep_complete_ctrl_status with no IN data: the bank is free, arm the ZLP. *)
SendStatus ==
  /\ Goto("status_in", CASE usb_ctrl_req.kind = "SET_ADDRESS"       -> "addr_wait"
                         [] usb_ctrl_req.kind = "SET_CONFIGURATION" -> "cfg_state"
                         [] OTHER                                   -> "tail")
  /\ ep0_in' = "zlp"
  /\ UNCHANGED <<device, setup, ep0_out, ep0_stall, usb_ctrl_req, next_state, bus, host,
                 overtaken>>

(* Mutant: the address is written without waiting for the status packet. *)
AddressAtOnce ==
  /\ pc = "addr_wait"
  /\ usb_addr' = usb_ctrl_req.addr /\ pc' = "addr_state"
  /\ UNCHANGED <<usb_device_state, usb_config_num, ep_enabled, ep0, usb_ctrl_req,
                 next_state, bus, host, overtaken>>

(* ctrl_set_address: wait until the status packet has left the bank. *)
WaitAddress ==
  /\ pc = "addr_wait"
  /\ \/ ep0_in = "free" /\ usb_addr' = usb_ctrl_req.addr /\ pc' = "addr_state"
     \/ ep0_in # "free" /\ SetupEndsWait /\ pc' = "tail" /\ UNCHANGED usb_addr
  /\ UNCHANGED <<usb_device_state, usb_config_num, ep_enabled, ep0, usb_ctrl_req,
                 next_state, bus, host, overtaken>>

StoreAddressed ==
  /\ Goto("addr_state", "tail")
  /\ usb_device_state' = IF usb_ctrl_req.addr = 0 THEN "DEFAULT" ELSE "ADDRESSED"
  /\ UNCHANGED <<usb_config_num, usb_addr, ep_enabled, ep0, usb_ctrl_req, next_state,
                 bus, host, overtaken>>

(* Mutant: resume and SET_CONFIGURATION(0) look at the address only. *)
StateByAddress(num, addr) == IF addr # 0 THEN "ADDRESSED" ELSE "POWERED"

(* The state that a configuration number and an address amount to. *)
StateFor(num, addr) ==
  IF num # 0 THEN "CONFIGURED" ELSE IF addr # 0 THEN "ADDRESSED" ELSE "POWERED"

(* ctrl_set_configuration reads both and stores the result: two steps. *)
ComputeConfigured ==
  /\ Goto("cfg_state", "cfg_store")
  /\ next_state' = StateFor(usb_config_num, usb_addr)
  /\ UNCHANGED <<device, ep0, usb_ctrl_req, bus, host, overtaken>>

StoreConfigured ==
  /\ Goto("cfg_store", "cfg_changed")
  /\ usb_device_state' = next_state
  /\ UNCHANGED <<usb_config_num, usb_addr, ep_enabled, ep0, usb_ctrl_req, next_state,
                 bus, host, overtaken>>

(* usb_event_config_changed -> hid_configure: the endpoints come up. *)
ConfigChanged ==
  /\ Goto("cfg_changed", "tail")
  /\ ep_enabled' = TRUE
  /\ UNCHANGED <<usb_device_state, usb_config_num, usb_addr, ep0, usb_ctrl_req, next_state,
                 bus, host, overtaken>>

(* The dispatcher's last lines: a SETUP still pending is cleared and
   stalled. *)
StallLeftover ==
  /\ Goto("tail", "poll")
  /\ IF setup = NoSetup THEN UNCHANGED ep0
     ELSE /\ setup' = NoSetup /\ ep0_in' = "free" /\ ep0_out' = "empty"
          /\ ep0_stall' = TRUE
  /\ UNCHANGED <<device, usb_ctrl_req, next_state, bus, host, overtaken>>

Serve ==
  \/ Dispatch \/ StoreNumber \/ ClearSetup \/ SendData \/ SendZlp
  \/ WaitStatusOut \/ WaitDataOut \/ SendStatus \/ WaitAddress \/ StoreAddressed
  \/ ComputeConfigured \/ StoreConfigured \/ ConfigChanged \/ StallLeftover

------------------------------------------------------------------------------
(* USB0_BUSEVENT_vect. *)

Overtake == overtaken' = (overtaken \/ pc # "poll" \/ setup # NoSetup)

Suspend ==
  /\ bus = "active" /\ bus' = "suspended"
  /\ usb_device_state' = "SUSPENDED"
  /\ Overtake
  /\ UNCHANGED <<usb_config_num, usb_addr, ep_enabled, ep0, handler, host>>

Resume ==
  /\ bus = "suspended" /\ bus' = "active"
  /\ usb_device_state' = StateFor(usb_config_num, usb_addr)
  /\ Overtake
  /\ UNCHANGED <<usb_config_num, usb_addr, ep_enabled, ep0, handler, host>>

(* Mutant: the configuration survives the reset. *)
ResetKeepsConfig == usb_addr' = 0 /\ UNCHANGED usb_config_num

ResetNumbers == usb_addr' = 0 /\ usb_config_num' = 0

(* Bus reset: default state, endpoints off, EP0 configured afresh. *)
Reset ==
  /\ bus' = "active"
  /\ usb_device_state' = "DEFAULT" /\ ResetNumbers
  /\ ep_enabled' = FALSE
  /\ setup' = NoSetup /\ ep0_in' = "free" /\ ep0_out' = "empty" /\ ep0_stall' = FALSE
  /\ host_addr' = 0 /\ host_config' = 0 /\ host_xfer' = NoSetup /\ host_stage' = "idle"
  /\ overtaken' = (pc # "poll")
  /\ UNCHANGED handler

BusEvent == Suspend \/ Resume \/ Reset

------------------------------------------------------------------------------
(* The host.  It reaches the device only at the address the device answers
   to; a pending SETUP makes the device NAK everything but another reset. *)
Reachable == bus = "active" /\ host_addr = usb_addr /\ setup = NoSetup

Reading == host_xfer # NoSetup /\ host_xfer.kind = "GET"
Writing == host_xfer # NoSetup /\ host_xfer.kind # "GET"

(* A new transfer, after the last one or instead of it. *)
HostSetup(r) ==
  /\ Reachable
  /\ r.kind = "SET_ADDRESS" => host_addr = 0
  /\ r.kind = "SET_CONFIGURATION" => host_addr # 0
  /\ setup' = r
  /\ host_xfer' = r
  /\ host_stage' = IF r.kind \in {"GET", "SET_REPORT"} THEN "data" ELSE "status"
  /\ host_config' = IF Writing /\ host_xfer.kind = "SET_CONFIGURATION"
                    THEN Unsure ELSE host_config
  /\ UNCHANGED <<device, ep0_in, ep0_out, ep0_stall, handler, bus, host_addr, overtaken>>

HostReadsData ==
  /\ Reachable /\ Reading /\ host_stage = "data"
  /\ ep0_in = "data" /\ ep0_in' = "free"
  /\ host_stage' = "status"
  /\ UNCHANGED <<device, setup, ep0_out, ep0_stall, handler, bus, host_addr, host_config,
                 host_xfer, overtaken>>

HostSendsData ==
  /\ Reachable /\ Writing /\ host_stage = "data"
  /\ ep0_out = "empty" /\ ep0_out' = "full"
  /\ host_stage' = "status"
  /\ UNCHANGED <<device, setup, ep0_in, ep0_stall, handler, bus, host_addr, host_config,
                 host_xfer, overtaken>>

HostSendsStatus ==
  /\ Reachable /\ Reading /\ host_stage = "status"
  /\ ep0_out = "empty" /\ ep0_out' = "full"
  /\ host_xfer' = NoSetup /\ host_stage' = "idle"
  /\ UNCHANGED <<device, setup, ep0_in, ep0_stall, handler, bus, host_addr, host_config,
                 overtaken>>

HostReadsStatus ==
  /\ Reachable /\ Writing /\ host_stage = "status"
  /\ ep0_in = "zlp" /\ ep0_in' = "free"
  /\ host_addr' = IF host_xfer.kind = "SET_ADDRESS" THEN host_xfer.addr ELSE host_addr
  /\ host_config' = IF host_xfer.kind = "SET_CONFIGURATION" THEN host_xfer.num
                                                           ELSE host_config
  /\ host_xfer' = NoSetup /\ host_stage' = "idle"
  /\ UNCHANGED <<device, setup, ep0_out, ep0_stall, handler, bus, overtaken>>

HostSeesStall ==
  /\ Reachable /\ host_xfer # NoSetup /\ ep0_stall
  /\ host_config' = IF host_xfer.kind = "SET_CONFIGURATION" THEN Unsure ELSE host_config
  /\ host_xfer' = NoSetup /\ host_stage' = "idle"
  /\ UNCHANGED <<device, ep0, handler, bus, host_addr, overtaken>>

HostTransfer ==
  HostReadsData \/ HostSendsData \/ HostSendsStatus \/ HostReadsStatus \/ HostSeesStall

UsbNext ==
  \/ FetchSetup \/ Serve \/ BusEvent \/ HostTransfer
  \/ \E r \in Request : HostSetup(r)

UsbSpec == UsbInit /\ [][UsbNext]_usbvars

(* The main loop keeps running.  A host that is there again and again goes on
   with its transfer and enumerates the device (USB 2.0, 9.1.2), ends a
   suspend, and resets a device with which nothing can happen any more. *)
AtRest == ~ENABLED (FetchSetup \/ Serve)

NoProgress ==
  /\ bus = "active" /\ AtRest
  /\ host_addr # usb_addr \/ (host_xfer # NoSetup /\ ~ENABLED HostTransfer)

HostGivesUp == NoProgress /\ Reset

HostEnumerates ==
  /\ host_xfer = NoSetup
  /\ \/ \E a \in Address : HostSetup(SetAddress(a))
     \/ host_config # 1 /\ HostSetup(SetConfiguration(1))

UsbFairness ==
  /\ WF_usbvars(FetchSetup \/ Serve)
  /\ SF_usbvars(HostTransfer)
  /\ SF_usbvars(HostEnumerates)
  /\ SF_usbvars(HostGivesUp)
  /\ WF_usbvars(Resume)

FairUsbSpec == UsbSpec /\ UsbFairness

(* A patient host: no suspend, a reset only when nothing else is left, a new
   request only after the last and when the main loop has come to rest, no
   configuration undone. *)
PatientHost ==
  /\ ~Suspend
  /\ Reset => NoProgress
  /\ \A r \in Request :
       HostSetup(r) => host_xfer = NoSetup /\ AtRest /\ r # SetConfiguration(0)

------------------------------------------------------------------------------
InStage      == {"data_in", "zlp_wait", "status_out"}
AddressStage == {"addr_wait", "addr_state"}
ConfigStage  == {"cfg_state", "cfg_store", "cfg_changed"}

(* Types, and the request that each stage of a handler serves. *)
UsbTypeOK ==
  /\ usb_device_state \in DevState
  /\ usb_config_num \in Config /\ usb_addr \in {0} \cup Address
  /\ ep_enabled \in BOOLEAN
  /\ setup \in Request \cup {NoSetup} /\ usb_ctrl_req \in Request
  /\ ep0_in \in {"free", "data", "zlp"} /\ ep0_out \in {"empty", "full"}
  /\ ep0_stall \in BOOLEAN
  /\ pc \in {"poll", "dispatch", "cfg_number", "clear", "data_out", "status_in", "tail"}
               \cup InStage \cup AddressStage \cup ConfigStage
  /\ pc \in InStage => usb_ctrl_req.kind = "GET"
  /\ pc = "status_in" => usb_ctrl_req.kind # "GET"
  /\ pc = "data_out" => usb_ctrl_req.kind = "SET_REPORT"
  /\ pc \in AddressStage => usb_ctrl_req.kind = "SET_ADDRESS"
  /\ pc \in ConfigStage \cup {"cfg_number"} => usb_ctrl_req.kind = "SET_CONFIGURATION"
  /\ next_state \in DevState
  /\ bus \in {"active", "suspended"}
  /\ host_addr \in {NoAddr, 0} \cup Address /\ host_config \in Config \cup {Unsure}
  /\ host_xfer \in Request \cup {NoSetup} /\ host_stage \in {"idle", "data", "status"}
  /\ overtaken \in BOOLEAN

Settled == pc = "poll" /\ ~overtaken /\ host_addr # NoAddr

(* Between requests, unless a bus event overtook a handler, the state is the
   one that the bus, the configuration number and the address amount to, and
   a configured device has its endpoints (usb_ctrl.c:109-132, 366-399). *)
StateAgrees ==
  Settled =>
    /\ (usb_device_state = "SUSPENDED") <=> (bus = "suspended")
    /\ usb_device_state = "CONFIGURED" => usb_config_num # 0 /\ ep_enabled
    /\ usb_device_state = "ADDRESSED" => usb_config_num = 0 /\ usb_addr # 0
    /\ usb_device_state \in {"POWERED", "DEFAULT"} => usb_config_num = 0 /\ usb_addr = 0

(* Between requests the device and the host agree on address and
   configuration, through aborted transfers and stalls. *)
HostAgrees ==
  (Settled /\ host_xfer = NoSetup) =>
    /\ usb_addr = host_addr
    /\ host_config = Unsure \/ host_config = usb_config_num

(* With a patient host the main loop is never lost in a busy wait on EP0
   (usb_ep.c:248-259, usb_ep_stream.c): usb_ctrl_poll() returns again and
   again, and the scan of the matrix goes on. *)
PollReturns == <>[][PatientHost]_usbvars => []<>(pc = "poll")

(* Whatever went before (suspends, resets in the middle of a request, aborted
   transfers), a host that has become patient gets the device configured. *)
Recovers ==
  <>[][PatientHost]_usbvars =>
    <>[](usb_device_state = "CONFIGURED" /\ usb_config_num = 1 /\ ep_enabled)

==============================================================================
