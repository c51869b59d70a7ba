------------------------------ MODULE Endpoints ------------------------------
(***************************************************************************)
(* The endpoints beside EP0 (usbcore/usb_ep.c): the registers the firmware *)
(* writes, the requests of usb_ctrl.c that reach them, and the packets on a*)
(* wire that loses handshakes.  Each pipe keeps a data toggle at both ends;*)
(* a packet with the wrong one is acknowledged and thrown away.            *)
(*                                                                         *)
(* Either end may set its toggle back to DATA0, and the other has to do so *)
(* before the next packet.  The history variables follow that, so that what*)
(* goes wrong with a toggle is told from what the host brought about.      *)
(***************************************************************************)
EXTENDS Naturals

CONSTANTS
  EP_TABLE_COUNT,    \* endpoint numbers in the table of the hardware, EP0 too
  EpTable            \* the endpoints that hid_configure() names, with their sizes

EP_MAX_SIZE == 64

Out(n) == [num |-> n, dir |-> "OUT"]
In(n)  == [num |-> n, dir |-> "IN"]

Endpoint == [num: 1..(EP_TABLE_COUNT - 1), dir: {"OUT", "IN"}]
Pipe     == DOMAIN EpTable

ASSUME EndpointsAssumption ==
  /\ EP_TABLE_COUNT \in Nat \ {0}
  /\ Pipe \subseteq Endpoint /\ EpTable \in [Pipe -> 1..EP_MAX_SIZE]

VARIABLES
  ep,           \* CTRL, STATUS and the bank of each endpoint
  host_toggle,  \* the host's toggle of each pipe
  sending,      \* OUT pipes with a packet the host has no handshake for
  taken,        \* (ghost) the packet under way has been taken once
  host_reset,   \* (ghost) pipes the host has set back, with no packet since
  dev_reset,    \* (ghost) pipes the device has set back, with no packet since
  apart,        \* (ghost) pipes with a packet between the one and the other
  lost, twice   \* (ghost) pipes, not apart, that lost or doubled a packet

pipes  == <<ep, host_toggle, sending, taken>>
resets == <<host_reset, dev_reset, apart>>
epvars == <<pipes, resets, lost, twice>>

BankSize == {8, 16, 32, 64}

Register ==
  [type: {"off", "bulkint"}, size: BankSize \cup {0}, stall: BOOLEAN,
   toggle: {0, 1}, full: BOOLEAN]

Disabled == [type |-> "off", size |-> 0, stall |-> FALSE, toggle |-> 0, full |-> FALSE]

EpInit ==
  /\ ep = [e \in Endpoint |-> Disabled]
  /\ host_toggle = [e \in Endpoint |-> 0]
  /\ sending = {} /\ taken = [e \in Endpoint |-> FALSE]
  /\ host_reset = Pipe /\ dev_reset = {} /\ apart = {}
  /\ lost = {} /\ twice = {}

------------------------------------------------------------------------------
(* The device. *)

(* ep_size_to_mask: the smallest bank that holds size bytes. *)
BankFor(size) == CHOOSE b \in BankSize : b >= size /\ \A c \in BankSize : c >= size => b <= c

(* The ends that are set back; a pipe with both, and no packet in between, is
   together again. *)
SetBack(by_host, by_dev) ==
  /\ host_reset' = host_reset \cup by_host
  /\ dev_reset' = dev_reset \cup by_dev
  /\ apart' = apart \ (host_reset' \cap dev_reset')

(* Mutant: the toggle and the bank are left as they were. *)
ConfigureCtrlOnly(e) ==
  [ep[e] EXCEPT !.type = "bulkint", !.size = BankFor(EpTable[e]), !.stall = FALSE]

(* ep_configure: DATA0, an IN bank for the firmware, an OUT bank for the host. *)
ep_configure(e) ==
  [type |-> "bulkint", size |-> BankFor(EpTable[e]), stall |-> FALSE, toggle |-> 0,
   full |-> FALSE]

hid_configure ==
  /\ ep' = [e \in Endpoint |-> IF e \in Pipe THEN ep_configure(e) ELSE ep[e]]
  /\ taken' = [e \in Endpoint |-> taken[e] /\ e \in sending]
  /\ SetBack({}, Pipe)
  /\ UNCHANGED <<host_toggle, sending, lost, twice>>

(* ep_clear_in: commit a packet; ep_in_ready came first. *)
ep_clear_in(e) ==
  /\ e \in Pipe /\ e.dir = "IN"
  /\ ep[e].type # "off" /\ ~ep[e].full
  /\ ep' = [ep EXCEPT ![e].full = TRUE]
  /\ taken' = [taken EXCEPT ![e] = FALSE]
  /\ UNCHANGED <<host_toggle, sending, resets, lost, twice>>

(* ep_clear_out: the bank is given back; ep_out_received came first. *)
ep_clear_out(e) ==
  /\ e \in Pipe /\ e.dir = "OUT" /\ ep[e].full
  /\ ep' = [ep EXCEPT ![e].full = FALSE]
  /\ UNCHANGED <<host_toggle, sending, taken, resets, lost, twice>>

(* ctrl_clear_set_feature selects w_index & EP_NUM_MASK: the OUT endpoint,
   whichever direction the host names. *)
Selected(e) == Out(e.num)

SetHalt(e) ==
  /\ ep' = [ep EXCEPT ![Selected(e)].stall = TRUE]
  /\ UNCHANGED <<host_toggle, sending, taken, resets, lost, twice>>

(* Mutant: the halt ends, the toggle stays. *)
ClearStallOnly(e) ==
  /\ ep' = [ep EXCEPT ![Selected(e)].stall = FALSE]
  /\ SetBack({}, {Selected(e)})
  /\ UNCHANGED <<host_toggle, sending, taken, lost, twice>>

ClearHalt(e) ==
  /\ ep' = [ep EXCEPT ![Selected(e)].stall = FALSE, ![Selected(e)].toggle = 0]
  /\ SetBack({}, {Selected(e)})
  /\ UNCHANGED <<host_toggle, sending, taken, lost, twice>>

(* A bus reset: the endpoints go off and the host starts afresh.  (STATUS keeps
   its bits; ep_configure clears them before anything looks at them.) *)
ep_clear_all ==
  /\ ep' = [e \in Endpoint |-> Disabled]
  /\ host_toggle' = [e \in Endpoint |-> 0]
  /\ sending' = {} /\ taken' = [e \in Endpoint |-> FALSE]
  /\ host_reset' = Pipe /\ dev_reset' = {} /\ apart' = {}
  /\ UNCHANGED <<lost, twice>>

------------------------------------------------------------------------------
(* The host (USB 2.0, 8.6 and 9.4.5). *)

(* A SET_CONFIGURATION was answered: all pipes start with DATA0. *)
HostConfigured ==
  /\ host_toggle' = [e \in Endpoint |-> 0]
  /\ sending' = {}
  /\ taken' = [e \in Endpoint |-> taken[e] /\ e.dir = "IN"]
  /\ SetBack(Pipe, {})
  /\ UNCHANGED <<ep, lost, twice>>

(* A CLEAR_FEATURE(HALT) was answered: the pipe starts with DATA0. *)
HostHaltCleared(e) ==
  /\ host_toggle' = [host_toggle EXCEPT ![e] = 0]
  /\ sending' = sending \ {e}
  /\ taken' = [taken EXCEPT ![e] = @ /\ e.dir = "IN"]
  /\ SetBack({e}, {})
  /\ UNCHANGED <<ep, lost, twice>>

(* Mutant: whoever receives a packet twice takes it twice. *)
AnyToggle(e) == TRUE

(* The receiver takes a packet for a new one. *)
IsNew(e) == ep[e].toggle = host_toggle[e]

Flip(t, change) == IF change THEN 1 - t ELSE t

(* A packet and its handshake, which may get lost.  The receiver's toggle
   changes with a new packet, the sender's with the handshake. *)
Transaction(e) ==
  /\ ep[e].type # "off" /\ ~ep[e].stall
  /\ ep[e].full <=> e.dir = "IN"
  /\ host_reset' = host_reset \ {e} /\ dev_reset' = dev_reset \ {e}
  /\ apart' = IF e \in host_reset <=> e \in dev_reset THEN apart ELSE apart \cup {e}
  /\ \E acked \in BOOLEAN :
       /\ ep' = [ep EXCEPT
            ![e].toggle = Flip(@, IF e.dir = "IN" THEN acked ELSE IsNew(e)),
            ![e].full = IF e.dir = "IN" THEN ~acked ELSE IsNew(e)]
       /\ host_toggle' = [host_toggle EXCEPT
            ![e] = Flip(@, IF e.dir = "IN" THEN IsNew(e) ELSE acked)]
       /\ sending' = IF e.dir = "OUT" /\ ~acked THEN sending \cup {e} ELSE sending \ {e}
       /\ taken' = [taken EXCEPT ![e] = ~acked /\ (@ \/ IsNew(e))]
       /\ twice' = IF e \notin apart' /\ IsNew(e) /\ taken[e] THEN twice \cup {e} ELSE twice
       /\ lost' = IF e \notin apart' /\ acked /\ ~IsNew(e) /\ ~taken[e]
                  THEN lost \cup {e} ELSE lost

------------------------------------------------------------------------------
EndpointsNext ==
  \/ hid_configure \/ ep_clear_all \/ HostConfigured
  \/ \E e \in Pipe :
       \/ ep_clear_in(e) \/ ep_clear_out(e) \/ Transaction(e)
       \/ SetHalt(e) \/ ClearHalt(e) \/ HostHaltCleared(e)

EndpointsSpec == EpInit /\ [][EndpointsNext]_epvars

EpTypeOK ==
  /\ ep \in [Endpoint -> Register]
  /\ host_toggle \in [Endpoint -> {0, 1}]
  /\ sending \subseteq {e \in Pipe : e.dir = "OUT"}
  /\ taken \in [Endpoint -> BOOLEAN]
  /\ {host_reset, lost, twice} \subseteq SUBSET Pipe
  /\ {dev_reset, apart} \subseteq SUBSET Endpoint

(* Where both ends were set back with no packet in between, whichever came
   first, or neither was, every report that is committed to an IN endpoint and
   every packet the host sends to an OUT endpoint is taken exactly once,
   whatever handshakes are lost and however often that happens. *)
ReportsOnce == lost = {} /\ twice = {}

==============================================================================
