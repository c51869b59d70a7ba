----------------------------- MODULE Enumeration -----------------------------
(***************************************************************************)
(* A host enumerates the application or the bootloader and then uses its   *)
(* endpoints: the descriptors of Descriptors read through EP0 packet by    *)
(* packet (usb_ctrl.c, usb_ep_stream.c), and the pipes of Endpoints.       *)
(*                                                                         *)
(* Addresses, suspend and the device states are in UsbDevice; a request is *)
(* fetched and its SETUP cleared in one step here, as nothing but a reset  *)
(* can come between.                                                       *)
(***************************************************************************)
EXTENDS Endpoints, Descriptors, TLC

CONSTANTS
  None,
  Driven        \* the pipes that a driver of the host uses

ASSUME EnumAssumption == Driven \subseteq Pipe

(* Mutant: the endpoint of the second interface is forgotten. *)
hid_endpoints_kbd ==
  (HID_EP_KBD_IN :> HID_EP_SIZE_KBD) @@ (HID_EP_KBD_OUT :> HID_EP_SIZE_KBD)

(* hid_configure: the endpoints it brings up. *)
hid_endpoints ==
  (HID_EP_KBD_IN :> HID_EP_SIZE_KBD) @@ (HID_EP_KBD_OUT :> HID_EP_SIZE_KBD)
    @@ (HID_EP_CONSUMER_IN :> HID_EP_SIZE_CONSUMER)

------------------------------------------------------------------------------
(* Requests. *)

Descriptor(type) == [type |-> type]
String(index)    == [type |-> "STRING", index |-> index]
OfInterface(type, n) == [type |-> type, w_index |-> n]

Get(d, w_length)    == [kind |-> "GET", desc |-> d, w_length |-> w_length]
SetAddress          == [kind |-> "SET_ADDRESS"]
SetConfiguration    == [kind |-> "SET_CONFIGURATION"]
SetIdle             == [kind |-> "SET_IDLE"]
SetReport           == [kind |-> "SET_REPORT"]
SetFeature(e)       == [kind |-> "SET_FEATURE", ep |-> e]
ClearFeature(e)     == [kind |-> "CLEAR_FEATURE", ep |-> e]

ClassRequest(r) ==
  \/ r.kind \in {"SET_IDLE", "SET_REPORT"}
  \/ r.kind = "GET" /\ r.desc.type \in {"GET_REPORT", "GET_IDLE"}

InUse == 8     \* the last step of the plan: the host polls the pipes

(* What the host asks for, step after step; it may ask for any request of a
   step, and again, before it goes on.  Lengths are those that hosts use. *)
Plan(i, n) ==
  CASE n = 1 -> {Get(Descriptor("DEVICE"), length) : length \in {8, 64}}
    [] n = 2 -> {SetAddress}
    [] n = 3 -> {Get(Descriptor("DEVICE"), 18), Get(Descriptor("CONFIGURATION"), 9)}
    [] n = 4 -> {Get(Descriptor("CONFIGURATION"), cfg_desc[i][1].w_total_length)}
    [] n = 5 -> {Get(String(index), 255) : index \in {0, 1, 2, INTERNAL_SERIAL, 5}}
    [] n = 6 -> {SetConfiguration}
    [] n = 7 /\ i = "app" ->
         {SetIdle, Get(OfInterface("GET_REPORT", 0), 8)}
           \cup {Get(OfInterface("REPORT", m - 1), ReportSize[m]) : m \in {1, 2}}
           \cup {Get(OfInterface("HID", m), 9) : m \in {1, 2}}
    [] n = InUse /\ i = "app" ->
         {SetConfiguration, SetReport} \cup {SetFeature(e) : e \in Pipe}
           \cup {ClearFeature(e) : e \in Pipe}
    [] n = 7 /\ i = "bl"     -> {Get(Descriptor("DEVICE"), 18), SetIdle}
    [] n = InUse /\ i = "bl" -> {Get(Descriptor("DEVICE"), 18)}

Request == UNION {Plan(i, n) : i \in Image, n \in 1..InUse}

(* The size of what a GET request is answered with, by image; the bootloader
   knows no class. *)
Answer(i, r) ==
  CASE r.desc.type = "GET_REPORT" ->
         IF i = "bl" THEN NO_DESCRIPTOR
         ELSE Total(<<hid_kbd_report_t, hid_consumer_report_t>>[r.desc.w_index + 1])
    [] OTHER -> DescriptorSize(i, r.desc)

(* A packet of EP0 IN: bytes of a descriptor, or none for a status stage. *)
Packet == [of: {r.desc : r \in {g \in Request : g.kind = "GET"}} \cup {None},
           from: Nat, upto: Nat]

(* None is no request and no packet; the sizes that the descriptor tables sum
   up to are numbers, and so are the lengths asked for. *)
ASSUME NoneAssumption == None \notin Request /\ None \notin Packet

ASSUME SizeAssumption ==
  \A i \in Image, n \in 1..InUse : \A r \in Plan(i, n) :
    r.kind = "GET" => r.w_length \in Nat \ {0} /\ Answer(i, r) \in Nat

VARIABLES
  image,       \* which of the two programs runs
  setup,       \* the SETUP packet pending in EP0, or None
  bank,        \* EP0 IN: what is committed and not sent yet, or None
  out0,        \* EP0 OUT holds a packet
  stall0,      \* EP0 answers STALL
  pc,          \* where the main loop stands
  req,         \* usb_ctrl_req while it is served, None when it is done with
  sent,        \* bytes committed for it
  step,        \* the step of the plan
  xfer,        \* the host's transfer, or None
  stage,       \* its stage
  got,         \* bytes of its data stage that the host has
  torn         \* (ghost) the host was sent bytes of something else

ep0      == <<setup, bank, out0, stall0>>
handler  == <<pc, req, sent>>
host     == <<step, xfer, stage, got, torn>>
enumvars == <<epvars, image, ep0, handler, host>>

EnumInit ==
  /\ EpInit
  /\ image \in Image
  /\ setup = None /\ bank = None /\ out0 = FALSE /\ stall0 = FALSE
  /\ pc = "poll" /\ req = None /\ sent = 0
  /\ step = 1 /\ xfer = None /\ stage = "idle" /\ got = 0 /\ torn = FALSE

------------------------------------------------------------------------------
(* The device: usb_ctrl_poll and the handlers. *)

Least(a, b) == IF a < b THEN a ELSE b

Size(r) == Answer(image, r)

Answered(r) ==
  /\ r.kind = "GET" => Size(r) # NO_DESCRIPTOR
  /\ ClassRequest(r) => image = "app"

ep_clear_setup ==
  setup' = None /\ bank' = None /\ out0' = FALSE /\ stall0' = FALSE

StallSetup ==
  setup' = None /\ bank' = None /\ out0' = FALSE /\ stall0' = TRUE

(* usb_process_ctrl_request: a request nobody answers is stalled. *)
Process ==
  /\ pc = "poll" /\ setup # None
  /\ sent' = 0
  /\ IF ~Answered(setup) THEN StallSetup /\ req' = None /\ pc' = "poll"
     ELSE /\ ep_clear_setup /\ req' = setup
          /\ pc' = CASE setup.kind = "GET"        -> "data_in"
                     [] setup.kind = "SET_REPORT" -> "data_out"
                     [] OTHER                     -> "status_in"
  /\ CASE setup.kind = "SET_FEATURE"   -> SetHalt(setup.ep)
       [] setup.kind = "CLEAR_FEATURE" -> ClearHalt(setup.ep)
       [] OTHER                        -> UNCHANGED epvars
  /\ UNCHANGED <<image, host>>

(* The host never asked for more than the shorter of the two. *)
Goal == Least(Size(req), req.w_length)

(* Mutant: no zero-length packet behind a full last one. *)
NeverZlp == FALSE

(* Sizes of whole packets get a zero-length packet behind them. *)
NeedsZlp == Size(req) % dev_desc.b_max_packet_size0 = 0

(* Mutant: the batch is not bounded by the bank. *)
CommitAll ==
  /\ pc = "data_in" /\ bank = None
  /\ bank' = [of |-> req.desc, from |-> sent, upto |-> Goal]
  /\ sent' = Goal
  /\ pc' = IF NeedsZlp THEN "zlp_wait" ELSE "status_out"
  /\ UNCHANGED <<epvars, image, setup, out0, stall0, req, host>>

(* ep_write_ctrl_stream: batches of up to EP_MAX_SIZE bytes. *)
Commit ==
  /\ pc = "data_in" /\ bank = None
  /\ LET batch == Least(Goal - sent, EP_MAX_SIZE)
     IN  /\ bank' = [of |-> req.desc, from |-> sent, upto |-> sent + batch]
         /\ sent' = sent + batch
         /\ pc' = IF sent + batch < Goal THEN "data_in"
                  ELSE IF NeedsZlp THEN "zlp_wait" ELSE "status_out"
  /\ UNCHANGED <<epvars, image, setup, out0, stall0, req, host>>

(* A new SETUP ends the wait for the bank, but for the one of the ZLP. *)
Aborted ==
  /\ pc = "data_in" /\ bank # None /\ setup # None
  /\ pc' = "status_out"
  /\ UNCHANGED <<epvars, image, ep0, req, sent, host>>

CommitZlp ==
  /\ pc = "zlp_wait" /\ bank = None
  /\ bank' = [of |-> req.desc, from |-> Goal, upto |-> Goal]
  /\ pc' = "status_out"
  /\ UNCHANGED <<epvars, image, setup, out0, stall0, req, sent, host>>

(* ep_complete_ctrl_status and the data stage of SET_REPORT: a packet of the
   host, or a new SETUP, ends the wait. *)
WaitOut ==
  /\ \/ pc = "status_out" /\ pc' = "tail"
     \/ pc = "data_out" /\ pc' = "status_in"
  /\ out0 \/ setup # None
  /\ out0' = FALSE
  /\ UNCHANGED <<epvars, image, setup, bank, stall0, req, sent, host>>

(* ep_complete_ctrl_status without data: the bank is free here. *)
CommitStatus ==
  /\ pc = "status_in"
  /\ bank' = [of |-> None, from |-> 0, upto |-> 0]
  /\ pc' = IF req.kind = "SET_CONFIGURATION" THEN "configure" ELSE "tail"
  /\ UNCHANGED <<epvars, image, setup, out0, stall0, req, sent, host>>

(* usb_event_config_changed; the bootloader has nothing to configure. *)
ConfigChanged ==
  /\ pc = "configure" /\ pc' = "tail"
  /\ IF image = "app" THEN hid_configure ELSE UNCHANGED epvars
  /\ UNCHANGED <<image, ep0, req, sent, host>>

(* A SETUP that came before the dispatcher returns is stalled unread. *)
StallLeftover ==
  /\ pc = "tail" /\ pc' = "poll"
  /\ IF setup = None THEN UNCHANGED ep0 ELSE StallSetup
  /\ req' = None /\ sent' = 0
  /\ UNCHANGED <<epvars, image, host>>

Serve ==
  \/ Process \/ Commit \/ Aborted \/ CommitZlp \/ WaitOut \/ CommitStatus
  \/ ConfigChanged \/ StallLeftover

(* hid_flush: a report into a free IN bank, an LED report out of EP1 OUT. *)
hid_flush ==
  /\ pc = "poll"
  /\ \E e \in Driven : ep_clear_in(e) \/ ep_clear_out(e)
  /\ UNCHANGED <<image, ep0, handler, host>>

(* USB0_BUSEVENT_vect, in the middle of whatever the main loop does. *)
Reset ==
  /\ ep_clear_all
  /\ ep_clear_setup
  /\ step' = 1 /\ xfer' = None /\ stage' = "idle" /\ got' = 0
  /\ UNCHANGED <<image, handler, torn>>

------------------------------------------------------------------------------
(* The host.  A pending SETUP is not interrupted but by a reset. *)

Reading == xfer # None /\ xfer.kind = "GET"

Idle == xfer' = None /\ stage' = "idle" /\ got' = 0

GoOn == step' \in {step, Least(step + 1, InUse)}

(* A request, after the last one or, when that takes too long, instead. *)
HostSetup(r) ==
  /\ setup = None /\ r \in Plan(image, step)
  /\ r.kind \in {"SET_FEATURE", "CLEAR_FEATURE"} => sending = {}
  /\ setup' = r /\ xfer' = r /\ got' = 0
  /\ stage' = IF r.kind \in {"GET", "SET_REPORT"} THEN "data" ELSE "status"
  /\ UNCHANGED <<epvars, image, bank, out0, stall0, handler, step, torn>>

Listening == setup = None /\ ~stall0

(* A packet of up to eight bytes; one that is shorter, or the last byte asked
   for, ends the data stage. *)
HostReadsData ==
  /\ Listening /\ Reading /\ stage = "data" /\ bank # None
  /\ LET n == Least(bank.upto - bank.from, dev_desc.b_max_packet_size0)
     IN  /\ got' = got + n
         /\ torn' = (torn \/ bank.of # xfer.desc \/ bank.from # got)
         /\ bank' = IF bank.from + n = bank.upto THEN None
                    ELSE [bank EXCEPT !.from = @ + n]
         /\ stage' = IF n < dev_desc.b_max_packet_size0 \/ got + n >= xfer.w_length
                     THEN "status" ELSE "data"
  /\ UNCHANGED <<epvars, image, setup, out0, stall0, handler, step, xfer>>

HostSendsStatus ==
  /\ Listening /\ Reading /\ stage = "status" /\ ~out0
  /\ out0' = TRUE
  /\ Idle /\ GoOn
  /\ UNCHANGED <<epvars, image, setup, bank, stall0, handler, torn>>

HostSendsData ==
  /\ Listening /\ xfer # None /\ ~Reading /\ stage = "data" /\ ~out0
  /\ out0' = TRUE
  /\ stage' = "status"
  /\ UNCHANGED <<epvars, image, setup, bank, stall0, handler, step, xfer, got, torn>>

HostReadsStatus ==
  /\ Listening /\ xfer # None /\ ~Reading /\ stage = "status"
  /\ bank # None /\ bank.from = bank.upto
  /\ bank' = None
  /\ Idle /\ GoOn
  /\ CASE xfer.kind = "SET_CONFIGURATION" -> HostConfigured
       [] xfer.kind = "CLEAR_FEATURE"     -> HostHaltCleared(xfer.ep)
       [] OTHER                           -> UNCHANGED epvars
  /\ UNCHANGED <<image, setup, out0, stall0, handler, torn>>

HostSeesStall ==
  /\ setup = None /\ stall0 /\ xfer # None
  /\ Idle
  /\ UNCHANGED <<epvars, image, ep0, handler, step, torn>>

(* The host leaves a pipe alone while it changes its halt feature. *)
HostPolls ==
  /\ step = InUse
  /\ \E e \in Driven :
       /\ xfer # None /\ xfer.kind \in {"SET_FEATURE", "CLEAR_FEATURE"} => xfer.ep # e
       /\ Transaction(e)
  /\ UNCHANGED <<image, ep0, handler, host>>

HostTransfer ==
  HostReadsData \/ HostSendsStatus \/ HostSendsData \/ HostReadsStatus \/ HostSeesStall

EnumNext ==
  \/ Serve \/ hid_flush \/ Reset \/ HostTransfer \/ HostPolls
  \/ \E r \in Plan(image, step) : HostSetup(r)

EnumSpec == EnumInit /\ [][EnumNext]_enumvars

------------------------------------------------------------------------------
EnumTypeOK ==
  /\ EpTypeOK
  /\ image \in Image
  /\ setup \in Request \cup {None}
  /\ bank # None => bank.from <= bank.upto /\ bank.upto - bank.from <= EP_MAX_SIZE
  /\ {out0, stall0, torn} \subseteq BOOLEAN
  /\ pc \in {"poll", "data_in", "zlp_wait", "status_out", "data_out", "status_in",
             "configure", "tail"}
  /\ req \in Request \cup {None} /\ sent \in Nat
  /\ step \in 1..InUse /\ xfer \in Request \cup {None}
  /\ stage \in {"idle", "data", "status"} /\ got \in Nat

(* Every read of a descriptor, report or serial number ends with exactly the
   bytes asked for, in order and of that object, or with a stall, through
   aborted transfers, resets, batches and zero-length packets; and when the
   device goes on to the status stage, what the host still waits for is on its
   way (usb_ep_stream.c:31-119). *)
ReadsExact ==
  /\ ~torn
  /\ (Reading /\ stage = "status") => got = Least(Size(xfer), xfer.w_length)
  /\ (Reading /\ stage = "data" /\ Listening /\ pc = "status_out") => bank # None

(* A program's endpoint descriptors name the endpoints that are up in r, with
   banks for the packets declared, and the packets hold the reports. *)
EndpointsFit(i, r) ==
  LET cfg == cfg_desc[i]
      Number(n) == cfg[InterfaceOf(cfg, n)].b_interface_number + 1
      Main(n) == IF cfg[n].b_endpoint_address.dir = "IN" THEN "input" ELSE "output"
  IN  /\ {cfg[n].b_endpoint_address : n \in EndpointsOf(cfg)}
           = {e \in Endpoint : r[e].type # "off"}
      /\ \A n \in EndpointsOf(cfg) :
           /\ ReportBytes[Main(n)][Number(n)] <= cfg[n].w_max_packet_size
           /\ cfg[n].w_max_packet_size <= r[cfg[n].b_endpoint_address].size

(* What the host learns from the descriptors is what the firmware does: the
   report descriptors hold every usage sent and give each report its length,
   counts and lengths agree, and when a configured device is at rest the
   endpoints declared are those that are up, with banks for the packets
   declared (usb_desc.c:46-265, usb_hid.c:53-56, usb_hid.h:14-34). *)
EndpointsAsDeclared ==
  DescriptorsAgree /\ (step = InUse /\ pc = "poll" => EndpointsFit(image, ep))

==============================================================================
