-------------------------- MODULE UsbDevice_proofs --------------------------
(***************************************************************************)
(* Proofs about the device state machine and the control pipe, for every   *)
(* set of addresses: the variables keep their types and every stage serves *)
(* the request it belongs to; between requests the device state agrees     *)
(* with bus, configuration and address, and the host agrees with both.     *)
(***************************************************************************)
EXTENDS UsbDevice, TLAPS

(* What the record of a request holds, by its kind. *)
LEMMA RequestFacts ==
  ASSUME NEW r \in Request
  PROVE  /\ r.kind \in {"SET_ADDRESS", "SET_CONFIGURATION", "GET", "SET_IDLE", "SET_FEATURE",
                        "SET_REPORT", "UNSUPPORTED"}
         /\ r.kind = "SET_ADDRESS" => r.addr \in Address /\ r.addr # 0
         /\ r.kind = "SET_CONFIGURATION" => r.num \in Config
         /\ r # NoSetup
BY DeviceAssumption, RequestAssumption
   DEF Request, SetAddress, SetConfiguration, GetRequest, SetIdle, SetFeature, SetReport,
       Unsupported

(* The state computed from configuration and address is a device state, and
   neither the suspended nor the default one. *)
LEMMA StateForFacts ==
  ASSUME NEW num, NEW addr
  PROVE  /\ StateFor(num, addr) \in DevState \ {"SUSPENDED", "DEFAULT", "UNATTACHED"}
         /\ StateFor(num, addr) = "CONFIGURED" <=> num # 0
         /\ StateFor(num, addr) = "ADDRESSED" <=> num = 0 /\ addr # 0
BY DEF StateFor, DevState

------------------------------------------------------------------------------
(* One step of each party keeps the types. *)
LEMMA ServeType == UsbTypeOK /\ (FetchSetup \/ Serve) => UsbTypeOK'
<1> SUFFICES ASSUME UsbTypeOK, FetchSetup \/ Serve PROVE UsbTypeOK'
  OBVIOUS
<1>1. \A r \in Request : /\ r.kind = "SET_ADDRESS" => r.addr \in Address
                         /\ r.kind = "SET_CONFIGURATION" => r.num \in Config
  BY RequestFacts
<1> USE DEF UsbTypeOK, InStage, AddressStage, ConfigStage, device, ep0, handler, host, Goto
<1>2. CASE FetchSetup
  BY <1>2 DEF FetchSetup
<1>3. CASE Dispatch
  BY <1>3 DEF Dispatch
<1>3a. CASE StoreNumber
  BY <1>1, <1>3a DEF StoreNumber
<1>3b. CASE ClearSetup
  <2>1. /\ setup' \in {setup, NoSetup}
        /\ ep0_in' \in {ep0_in, "free"} /\ ep0_out' \in {ep0_out, "empty"}
        /\ ep0_stall' \in BOOLEAN
    BY <1>3b DEF ClearSetup, ep_clear_setup
  <2>2. /\ pc' \in {"data_in", "data_out", "status_in"}
        /\ pc' = "data_in" => usb_ctrl_req.kind = "GET"
        /\ pc' = "data_out" => usb_ctrl_req.kind = "SET_REPORT"
        /\ pc' = "status_in" => usb_ctrl_req.kind # "GET"
    BY <1>3b DEF ClearSetup, AfterClear
  <2>3. QED BY <1>3b, <2>1, <2>2 DEF ClearSetup
<1>4. CASE SendData
  BY <1>4 DEF SendData
<1>5. CASE SendZlp
  BY <1>5 DEF SendZlp
<1>6. CASE WaitStatusOut
  BY <1>6 DEF WaitStatusOut
<1>7. CASE WaitDataOut
  BY <1>7 DEF WaitDataOut
<1>8. CASE SendStatus
  BY <1>8 DEF SendStatus
<1>9. CASE WaitAddress
  BY <1>1, <1>9 DEF WaitAddress
<1>10. CASE StoreAddressed
  BY <1>10 DEF StoreAddressed, DevState
<1>11. CASE ComputeConfigured
  BY <1>11, StateForFacts DEF ComputeConfigured
<1>12. CASE StoreConfigured
  BY <1>12 DEF StoreConfigured
<1>13. CASE ConfigChanged
  BY <1>13 DEF ConfigChanged
<1>14. CASE StallLeftover
  <2>1. /\ setup' \in {setup, NoSetup}
        /\ ep0_in' \in {ep0_in, "free"} /\ ep0_out' \in {ep0_out, "empty"}
        /\ ep0_stall' \in BOOLEAN
    BY <1>14 DEF StallLeftover
  <2>2. QED BY <1>14, <2>1 DEF StallLeftover
<1>15. QED
  BY <1>2, <1>3, <1>3a, <1>3b, <1>4, <1>5, <1>6, <1>7, <1>8, <1>9, <1>10, <1>11, <1>12,
     <1>13, <1>14 DEF Serve

(* So does the interrupt. *)
LEMMA BusType == UsbTypeOK /\ BusEvent => UsbTypeOK'
<1> SUFFICES ASSUME UsbTypeOK, BusEvent PROVE UsbTypeOK'
  OBVIOUS
<1> USE DEF UsbTypeOK, InStage, AddressStage, ConfigStage, device, ep0, handler, host
<1>1. CASE Suspend
  BY <1>1 DEF Suspend, Overtake, DevState
<1>2. CASE Resume
  BY <1>2, StateForFacts DEF Resume, Overtake
<1>3. CASE Reset
  BY <1>3 DEF Reset, ResetNumbers, DevState, Config
<1>4. QED
  BY <1>1, <1>2, <1>3 DEF BusEvent

(* So does the host. *)
LEMMA HostType ==
  UsbTypeOK /\ (HostTransfer \/ \E r \in Request : HostSetup(r)) => UsbTypeOK'
<1> SUFFICES ASSUME UsbTypeOK, HostTransfer \/ \E r \in Request : HostSetup(r) PROVE UsbTypeOK'
  OBVIOUS
<1>1. \A r \in Request : /\ r.kind = "SET_ADDRESS" => r.addr \in Address
                         /\ r.kind = "SET_CONFIGURATION" => r.num \in Config
  BY RequestFacts
<1> USE DEF UsbTypeOK, InStage, AddressStage, ConfigStage, device, ep0, handler, host, Reading,
            Writing
<1>2. ASSUME NEW r \in Request, HostSetup(r) PROVE UsbTypeOK'
  BY <1>2 DEF HostSetup
<1>3. CASE HostReadsData
  BY <1>3 DEF HostReadsData
<1>4. CASE HostSendsData
  BY <1>4 DEF HostSendsData
<1>5. CASE HostSendsStatus
  BY <1>5 DEF HostSendsStatus
<1>6. CASE HostReadsStatus
  BY <1>1, <1>6 DEF HostReadsStatus
<1>7. CASE HostSeesStall
  BY <1>7 DEF HostSeesStall
<1>8. QED
  BY <1>2, <1>3, <1>4, <1>5, <1>6, <1>7 DEF HostTransfer

(* The device starts unattached, with the types. *)
LEMMA TypeInit == UsbInit => UsbTypeOK
<1>1. SetIdle \in Request /\ SetIdle.kind = "SET_IDLE"
  BY DEF Request, SetIdle
<1>2. QED
  BY <1>1 DEF UsbInit, UsbTypeOK, DevState, Config, InStage, AddressStage, ConfigStage

(* Every step keeps the types. *)
LEMMA TypeStep == UsbTypeOK /\ [UsbNext]_usbvars => UsbTypeOK'
<1>1. UsbTypeOK /\ UNCHANGED usbvars => UsbTypeOK'
  BY DEF usbvars, device, ep0, handler, host, UsbTypeOK
<1>2. QED
  BY <1>1, ServeType, BusType, HostType DEF UsbNext

(* Types, and the request each stage of a handler serves: usb_ctrl.c never
   reaches the address or configuration stage of another request. *)
THEOREM UsbTypeCorrect == UsbSpec => []UsbTypeOK
BY TypeInit, TypeStep, PTL DEF UsbSpec

------------------------------------------------------------------------------
(* The device as every request leaves it: its state is the one that
   configuration and address amount to, and its endpoints are up. *)
Agrees ==
  /\ usb_device_state = "CONFIGURED" => usb_config_num # 0
  /\ usb_device_state = "ADDRESSED" => usb_config_num = 0 /\ usb_addr # 0
  /\ usb_device_state \in {"POWERED", "DEFAULT"} => usb_config_num = 0 /\ usb_addr = 0
  /\ usb_config_num # 0 => ep_enabled

Serves(kind) == usb_ctrl_req.kind = kind

(* The number is stored, the state and the endpoints not yet. *)
Configuring ==
  pc \in ConfigStage \/ (pc \in {"clear", "status_in"} /\ Serves("SET_CONFIGURATION"))

(* No suspend came between the steps of a request. *)
BusInv ==
  /\ usb_device_state = "SUSPENDED" <=> bus = "suspended"
  /\ bus = "suspended" => pc = "poll" /\ setup = NoSetup

(* Only a device without an address is given one, only one with an address is
   configured: from the packet's arrival to its last step. *)
NumberInv ==
  /\ usb_config_num # 0 => usb_addr # 0
  /\ setup # NoSetup /\ setup.kind = "SET_ADDRESS" => usb_addr = 0
  /\ setup # NoSetup /\ setup.kind = "SET_CONFIGURATION" => usb_addr # 0
  /\ pc \in {"dispatch", "clear", "status_in", "addr_wait"} /\ Serves("SET_ADDRESS") =>
       usb_addr = 0
  /\ pc = "addr_state" => usb_addr = usb_ctrl_req.addr /\ usb_config_num = 0
  /\ pc \in {"dispatch", "cfg_number"} /\ Serves("SET_CONFIGURATION") => usb_addr # 0
  /\ Configuring => usb_addr # 0

(* The state follows in the last steps of the two requests. *)
StateInv ==
  /\ pc = "cfg_store" => next_state = StateFor(usb_config_num, usb_addr)
  /\ pc = "cfg_changed" => usb_device_state = StateFor(usb_config_num, usb_addr)
  /\ ~Configuring /\ pc # "addr_state" => Agrees

DeviceInv == ~overtaken => BusInv /\ NumberInv /\ StateInv

(* The request served is the one of the host's transfer, until the host sends
   another; what the device has left of that one is then cleared. *)
XferInv ==
  /\ setup # NoSetup => host_xfer = setup
  /\ pc \in {"dispatch", "cfg_number", "clear"} => setup = usb_ctrl_req
  /\ setup = NoSetup /\ host_xfer \notin {NoSetup, usb_ctrl_req} => pc = "poll" /\ ep0_in = "free"

(* The status packet of SET_ADDRESS is out while the device waits for the
   host to take it; when it has, nothing reaches the old address. *)
AddressInv ==
  /\ setup = NoSetup /\ ep0_in = "zlp" /\ Serves("SET_ADDRESS") => pc = "addr_wait"
  /\ pc = "addr_wait" /\ ep0_in = "free" =>
       setup = NoSetup /\ host_xfer = NoSetup /\ host_addr = usb_ctrl_req.addr
  /\ host_addr \in {NoAddr, usb_addr} \/ (pc = "addr_wait" /\ ep0_in = "free")

(* A configuration the host takes for set is the one stored. *)
ConfigInv ==
  /\ /\ Serves("SET_CONFIGURATION")
     /\ pc \in {"clear", "status_in"} \/ (setup = NoSetup /\ ep0_in = "zlp")
     => usb_config_num = usb_ctrl_req.num
  /\ \/ host_config \in {Unsure, usb_config_num}
     \/ host_xfer # NoSetup /\ host_xfer.kind = "SET_CONFIGURATION"

HostInv == ~overtaken => XferInv /\ AddressInv /\ ConfigInv

(* The steps of a handler keep the device's part of the invariant. *)
LEMMA DeviceServe == UsbTypeOK /\ DeviceInv /\ HostInv /\ (FetchSetup \/ Serve) => DeviceInv'
<1> SUFFICES ASSUME UsbTypeOK, DeviceInv, HostInv, FetchSetup \/ Serve, ~overtaken'
             PROVE  (BusInv /\ NumberInv /\ StateInv)'
  BY DEF DeviceInv
<1>1. /\ usb_ctrl_req \in Request /\ setup \in Request \cup {NoSetup}
      /\ pc \in AddressStage => Serves("SET_ADDRESS")
      /\ pc \in ConfigStage \cup {"cfg_number"} => Serves("SET_CONFIGURATION")
      /\ pc \in InStage => Serves("GET")
      /\ pc = "data_out" => Serves("SET_REPORT")
      /\ \A r \in Request : r.kind = "SET_ADDRESS" => r.addr # 0
  BY RequestFacts DEF UsbTypeOK, Serves
<1>2. UNCHANGED <<bus, overtaken>>
  BY DEF FetchSetup, Serve, Dispatch, StoreNumber, ClearSetup, ep_clear_setup, SendData, SendZlp,
         WaitStatusOut, WaitDataOut, SendStatus, WaitAddress, StoreAddressed,
         ComputeConfigured, StoreConfigured, ConfigChanged, StallLeftover, host, ep0,
         device, handler
<1>3. BusInv /\ NumberInv /\ StateInv
  BY <1>2 DEF DeviceInv
<1> USE <1>1, <1>2, <1>3
    DEF BusInv, NumberInv, StateInv, Agrees, Configuring, Serves, InStage, AddressStage,
        ConfigStage, device, ep0, Goto
<1>4. CASE FetchSetup
  BY <1>4 DEF FetchSetup
<1>5. CASE Dispatch
  BY <1>5 DEF Dispatch
<1>5a. CASE StoreNumber
  BY <1>5a DEF StoreNumber
<1>5b. CASE ClearSetup
  BY <1>5b DEF ClearSetup, ep_clear_setup, AfterClear
<1>6. CASE SendData
  BY <1>6 DEF SendData
<1>7. CASE SendZlp
  BY <1>7 DEF SendZlp
<1>8. CASE WaitStatusOut
  BY <1>8 DEF WaitStatusOut
<1>9. CASE WaitDataOut
  BY <1>9 DEF WaitDataOut
<1>10. CASE SendStatus
  BY <1>10 DEF SendStatus
<1>11. CASE WaitAddress
  <2>1. ep0_in = "free" => setup = NoSetup
    BY <1>11 DEF HostInv, AddressInv, WaitAddress
  <2>2. QED BY <1>11, <2>1 DEF WaitAddress
<1>12. CASE StoreAddressed
  BY <1>12 DEF StoreAddressed
<1>13. CASE ComputeConfigured
  BY <1>13 DEF ComputeConfigured
<1>14. CASE StoreConfigured
  BY <1>14, StateForFacts DEF StoreConfigured
<1>15. CASE ConfigChanged
  BY <1>15, StateForFacts DEF ConfigChanged
<1>16. CASE StallLeftover
  BY <1>16 DEF StallLeftover
<1>17. QED
  BY <1>4, <1>5, <1>5a, <1>5b, <1>6, <1>7, <1>8, <1>9, <1>10, <1>11, <1>12, <1>13, <1>14, <1>15,
     <1>16 DEF Serve

(* So does a bus event; one that overtakes a request gives it up. *)
LEMMA DeviceBus == UsbTypeOK /\ DeviceInv /\ BusEvent => DeviceInv'
<1> SUFFICES ASSUME UsbTypeOK, DeviceInv, BusEvent, ~overtaken'
             PROVE  (BusInv /\ NumberInv /\ StateInv)'
  BY DEF DeviceInv
<1> USE DEF BusInv, NumberInv, StateInv, Agrees, Configuring, Serves, InStage, AddressStage,
            ConfigStage, device, ep0, handler, host
<1>1. CASE Suspend
  BY <1>1 DEF Suspend, Overtake, DeviceInv
<1>2. CASE Resume
  BY <1>2, StateForFacts DEF Resume, Overtake, DeviceInv
<1>3. CASE Reset
  BY <1>3 DEF Reset, ResetNumbers
<1>4. QED
  BY <1>1, <1>2, <1>3 DEF BusEvent

(* So does the host. *)
LEMMA DeviceHost ==
  UsbTypeOK /\ DeviceInv /\ (HostTransfer \/ \E r \in Request : HostSetup(r)) => DeviceInv'
<1> SUFFICES ASSUME UsbTypeOK, DeviceInv, HostTransfer \/ \E r \in Request : HostSetup(r),
                    ~overtaken'
             PROVE  (BusInv /\ NumberInv /\ StateInv)'
  BY DEF DeviceInv
<1> USE DEF BusInv, NumberInv, StateInv, Agrees, Configuring, Serves, InStage, AddressStage,
            ConfigStage, device, ep0, handler, Reachable
<1>1. ASSUME NEW r \in Request, HostSetup(r) PROVE (BusInv /\ NumberInv /\ StateInv)'
  BY <1>1 DEF HostSetup, DeviceInv
<1>2. CASE HostReadsData
  BY <1>2 DEF HostReadsData, DeviceInv
<1>3. CASE HostSendsData
  BY <1>3 DEF HostSendsData, DeviceInv
<1>4. CASE HostSendsStatus
  BY <1>4 DEF HostSendsStatus, DeviceInv
<1>5. CASE HostReadsStatus
  BY <1>5 DEF HostReadsStatus, DeviceInv
<1>6. CASE HostSeesStall
  BY <1>6 DEF HostSeesStall, DeviceInv
<1>7. QED
  BY <1>1, <1>2, <1>3, <1>4, <1>5, <1>6 DEF HostTransfer

------------------------------------------------------------------------------
(* The steps of a handler keep the host's part of the invariant. *)
LEMMA HostServe == UsbTypeOK /\ DeviceInv /\ HostInv /\ (FetchSetup \/ Serve) => HostInv'
<1> SUFFICES ASSUME UsbTypeOK, DeviceInv, HostInv, FetchSetup \/ Serve, ~overtaken'
             PROVE  (XferInv /\ AddressInv /\ ConfigInv)'
  BY DEF HostInv
<1>1. /\ usb_ctrl_req \in Request /\ setup \in Request \cup {NoSetup}
      /\ pc \in AddressStage => Serves("SET_ADDRESS")
      /\ pc \in ConfigStage \cup {"cfg_number"} => Serves("SET_CONFIGURATION")
      /\ pc \in InStage => Serves("GET")
      /\ pc = "data_out" => Serves("SET_REPORT")
      /\ NoSetup \notin Request
  BY RequestAssumption DEF UsbTypeOK, Serves
<1>2. UNCHANGED <<bus, host_addr, host_config, host_xfer, overtaken>>
  BY DEF FetchSetup, Serve, Dispatch, StoreNumber, ClearSetup, ep_clear_setup, SendData, SendZlp,
         WaitStatusOut, WaitDataOut, SendStatus, WaitAddress, StoreAddressed,
         ComputeConfigured, StoreConfigured, ConfigChanged, StallLeftover, host, ep0,
         device, handler
<1>3. XferInv /\ AddressInv /\ ConfigInv
  BY <1>2 DEF HostInv
<1> USE <1>1, <1>2, <1>3 DEF XferInv, AddressInv, ConfigInv, Serves, InStage, AddressStage,
        ConfigStage, device, ep0, Goto
<1>4. CASE FetchSetup
  BY <1>4 DEF FetchSetup
<1>5. CASE Dispatch
  BY <1>5 DEF Dispatch
<1>5a. CASE StoreNumber
  BY <1>5a DEF StoreNumber
<1>5b. CASE ClearSetup
  <2>1. setup = usb_ctrl_req /\ setup # NoSetup /\ host_xfer = setup
    BY <1>5b DEF ClearSetup
  <2>2. pc' \notin {"dispatch", "cfg_number", "clear", "addr_wait"}
    BY <1>5b DEF ClearSetup, AfterClear
  <2>3. QED BY <1>5b, <2>1, <2>2 DEF ClearSetup, ep_clear_setup
<1>6. CASE SendData
  BY <1>6 DEF SendData
<1>7. CASE SendZlp
  BY <1>7 DEF SendZlp
<1>8. CASE WaitStatusOut
  BY <1>8 DEF WaitStatusOut
<1>9. CASE WaitDataOut
  BY <1>9 DEF WaitDataOut
<1>10. CASE SendStatus
  BY <1>10 DEF SendStatus
<1>11. CASE WaitAddress
  <2>1. UNCHANGED <<setup, ep0_in, usb_ctrl_req, usb_config_num>> /\ pc = "addr_wait"
    BY <1>11 DEF WaitAddress
  <2>2. CASE ep0_in = "free"
    <3>1. usb_addr' = usb_ctrl_req.addr /\ pc' = "addr_state"
      BY <1>11, <2>2 DEF WaitAddress
    <3>2. QED BY <2>1, <2>2, <3>1
  <2>3. CASE ep0_in # "free"
    <3>1. setup # NoSetup /\ pc' = "tail" /\ UNCHANGED usb_addr
      BY <1>11, <2>3 DEF WaitAddress, SetupEndsWait
    <3>2. QED BY <2>1, <2>3, <3>1
  <2>4. QED BY <2>2, <2>3
<1>12. CASE StoreAddressed
  BY <1>12 DEF StoreAddressed
<1>13. CASE ComputeConfigured
  BY <1>13 DEF ComputeConfigured
<1>14. CASE StoreConfigured
  BY <1>14 DEF StoreConfigured
<1>15. CASE ConfigChanged
  BY <1>15 DEF ConfigChanged
<1>16. CASE StallLeftover
  BY <1>16 DEF StallLeftover
<1>17. QED
  BY <1>4, <1>5, <1>5a, <1>5b, <1>6, <1>7, <1>8, <1>9, <1>10, <1>11, <1>12, <1>13, <1>14, <1>15,
     <1>16 DEF Serve

(* So does a bus event. *)
LEMMA HostBus == UsbTypeOK /\ HostInv /\ BusEvent => HostInv'
<1> SUFFICES ASSUME UsbTypeOK, HostInv, BusEvent, ~overtaken'
             PROVE  (XferInv /\ AddressInv /\ ConfigInv)'
  BY DEF HostInv
<1> USE DEF XferInv, AddressInv, ConfigInv, Serves, device, ep0, handler, host
<1>1. CASE Suspend
  BY <1>1 DEF Suspend, Overtake, HostInv
<1>2. CASE Resume
  BY <1>2 DEF Resume, Overtake, HostInv
<1>3. CASE Reset
  BY <1>3 DEF Reset, ResetNumbers
<1>4. QED
  BY <1>1, <1>2, <1>3 DEF BusEvent

(* So does the host: it goes on only with the transfer that is served. *)
LEMMA HostHost ==
  /\ UsbTypeOK /\ DeviceInv /\ HostInv
  /\ HostTransfer \/ \E r \in Request : HostSetup(r)
  => HostInv'
<1> SUFFICES ASSUME UsbTypeOK, DeviceInv, HostInv,
                    HostTransfer \/ \E r \in Request : HostSetup(r), ~overtaken'
             PROVE  (XferInv /\ AddressInv /\ ConfigInv)'
  BY DEF HostInv
<1>1. UNCHANGED <<device, handler, bus, overtaken>>
  BY DEF HostTransfer, HostSetup, HostReadsData, HostSendsData, HostSendsStatus, HostReadsStatus,
         HostSeesStall
<1>2. XferInv /\ AddressInv /\ ConfigInv /\ NumberInv
  BY <1>1 DEF HostInv, DeviceInv
<1>3. /\ NoSetup \notin Request /\ usb_addr \in Nat /\ NoAddr \notin Nat
      /\ pc = "addr_wait" => Serves("SET_ADDRESS") /\ usb_ctrl_req.addr # 0
      /\ usb_ctrl_req \in Request
  BY RequestAssumption, DeviceAssumption, RequestFacts DEF UsbTypeOK, AddressStage, Serves
<1>4. host_addr = usb_addr => ~(pc = "addr_wait" /\ ep0_in = "free")
  BY <1>2, <1>3 DEF AddressInv, NumberInv
<1> USE <1>1, <1>2, <1>3, <1>4
        DEF XferInv, AddressInv, ConfigInv, Serves, device, ep0, handler, Reachable, Reading,
            Writing
<1>5. ASSUME NEW r \in Request, HostSetup(r) PROVE (XferInv /\ AddressInv /\ ConfigInv)'
  BY <1>5 DEF HostSetup
<1>6. CASE HostReadsData
  BY <1>6 DEF HostReadsData
<1>7. CASE HostSendsData
  BY <1>7 DEF HostSendsData
<1>8. CASE HostSendsStatus
  BY <1>8 DEF HostSendsStatus
<1>9. CASE HostReadsStatus
  BY <1>9 DEF HostReadsStatus
<1>10. CASE HostSeesStall
  BY <1>10 DEF HostSeesStall
<1>11. QED
  BY <1>5, <1>6, <1>7, <1>8, <1>9, <1>10 DEF HostTransfer

(* Both parts hold of every behaviour. *)
LEMMA InvHolds == UsbSpec => [](UsbTypeOK /\ DeviceInv /\ HostInv)
<1>1. UsbInit => DeviceInv /\ HostInv
  BY DEF UsbInit, DeviceInv, BusInv, NumberInv, StateInv, Agrees, Configuring, Serves, SetIdle,
         ConfigStage, HostInv, XferInv, AddressInv, ConfigInv
<1>2. UsbTypeOK /\ DeviceInv /\ HostInv /\ [UsbNext]_usbvars => (DeviceInv /\ HostInv)'
  <2>1. DeviceInv /\ HostInv /\ UNCHANGED usbvars => (DeviceInv /\ HostInv)'
    BY DEF usbvars, device, ep0, handler, host, DeviceInv, BusInv, NumberInv, StateInv, Agrees,
           Configuring, Serves, HostInv, XferInv, AddressInv, ConfigInv
  <2>2. QED
    BY <2>1, DeviceServe, DeviceBus, DeviceHost, HostServe, HostBus, HostHost DEF UsbNext
<1>3. QED
  BY <1>1, <1>2, UsbTypeCorrect, PTL DEF UsbSpec

(* Between requests that no bus event overtook, the device state is the one
   that the bus, the configuration number and the address amount to, and a
   configured device has its endpoints (usb_ctrl.c:109-132, 366-399). *)
THEOREM StateAlwaysAgrees == UsbSpec => []StateAgrees
<1>1. DeviceInv => StateAgrees
  BY DEF DeviceInv, BusInv, StateInv, Agrees, Configuring, ConfigStage, StateAgrees, Settled
<1>2. QED
  BY <1>1, InvHolds, PTL

(* Between requests device and host agree on address and configuration,
   through aborted transfers and stalls. *)
THEOREM HostAlwaysAgrees == UsbSpec => []HostAgrees
<1>1. HostInv => HostAgrees
  BY DEF HostInv, AddressInv, ConfigInv, HostAgrees, Settled
<1>2. QED
  BY <1>1, InvHolds, PTL

==============================================================================
