-------------------------- MODULE Enumeration_proofs --------------------------
(***************************************************************************)
(* The endpoints and the control pipe, for every number of endpoints, every*)
(* table of pipes and every set of pipes that the host uses.  First the    *)
(* abstract Endpoints: the types, and that packets are taken exactly once; *)
(* then that Enumeration drives the pipes as Endpoints allows; then the    *)
(* control pipe itself: its types, and that reads of descriptors are exact.*)
(***************************************************************************)
EXTENDS Enumeration, TLAPS

(* The sender has a packet the receiver may have taken already. *)
Busy(e) == IF e.dir = "IN" THEN ep[e].full ELSE e \in sending

(* The host starts with DATA0, and with nothing under way. *)
HostFresh(e) == host_toggle[e] = 0 /\ e \notin sending /\ (e.dir = "OUT" => ~taken[e])

(* So does the device; a report in the bank has not been taken. *)
DeviceFresh(e) == ep[e].toggle = 0 /\ (e.dir = "IN" => ~taken[e])

(* The toggles differ while a packet that was taken is not acknowledged. *)
InStep(e) ==
  /\ taken[e] => Busy(e)
  /\ taken[e] <=> ep[e].toggle # host_toggle[e]

(* Neither end has started afresh, or packets have passed since both did. *)
Settled == Pipe \ (apart \cup host_reset \cup dev_reset)

(* ReportsOnce alone is not inductive: it needs the toggles, and what each end
   brings along when it starts afresh before the other. *)
OnceInv ==
  /\ EpTypeOK
  /\ ReportsOnce
  /\ \A e \in dev_reset : DeviceFresh(e)
  /\ \A e \in host_reset : HostFresh(e)
  /\ \A e \in Settled : InStep(e)

------------------------------------------------------------------------------
LEMMA PipeFacts ==
  \A e \in Pipe : e \in Endpoint /\ e.dir \in {"IN", "OUT"} /\ Selected(e) \in Endpoint
<1> SUFFICES ASSUME NEW e \in Pipe
             PROVE  e \in Endpoint /\ e.dir \in {"IN", "OUT"} /\ Selected(e) \in Endpoint
  OBVIOUS
<1>1. e \in Endpoint
  BY EndpointsAssumption
<1>2. e.dir \in {"IN", "OUT"} /\ e.num \in 1..(EP_TABLE_COUNT - 1)
  BY <1>1 DEF Endpoint
<1>3. Selected(e) \in Endpoint
  BY <1>2 DEF Selected, Out, Endpoint
<1> QED
  BY <1>1, <1>2, <1>3

(* ep_size_to_mask finds a bank for every size of the table. *)
LEMMA BankForSize == \A size \in 1..EP_MAX_SIZE : BankFor(size) \in BankSize
<1> SUFFICES ASSUME NEW size \in 1..EP_MAX_SIZE PROVE BankFor(size) \in BankSize
  OBVIOUS
<1>1. \E b \in BankSize : b >= size /\ \A c \in BankSize : c >= size => b <= c
  <2>1. CASE size <= 8
    BY <2>1 DEF BankSize
  <2>2. CASE 8 < size /\ size <= 16
    BY <2>2 DEF BankSize
  <2>3. CASE 16 < size /\ size <= 32
    BY <2>3 DEF BankSize
  <2>4. CASE 32 < size
    BY <2>4 DEF BankSize, EP_MAX_SIZE
  <2> QED
    BY <2>1, <2>2, <2>3, <2>4
<1> QED
  BY <1>1 DEF BankFor

LEMMA ConfiguredRegister == \A e \in Pipe : ep_configure(e) \in Register
  BY EndpointsAssumption, BankForSize DEF ep_configure, Register

LEMMA TypeInit == EpInit => EpTypeOK
  BY PipeFacts DEF EpInit, EpTypeOK, Disabled, Register

LEMMA TypeStep == EpTypeOK /\ [EndpointsNext]_epvars => EpTypeOK'
<1> SUFFICES ASSUME EpTypeOK, [EndpointsNext]_epvars PROVE EpTypeOK'
  OBVIOUS
<1> USE PipeFacts
<1>1. CASE hid_configure
  BY <1>1, ConfiguredRegister DEF hid_configure, SetBack, EpTypeOK
<1>2. CASE ep_clear_all
  BY <1>2 DEF ep_clear_all, EpTypeOK, Disabled, Register
<1>3. CASE HostConfigured
  BY <1>3 DEF HostConfigured, SetBack, EpTypeOK
<1>4. ASSUME NEW e \in Pipe, ep_clear_in(e) PROVE EpTypeOK'
  BY <1>4 DEF ep_clear_in, EpTypeOK, Register, resets
<1>5. ASSUME NEW e \in Pipe, ep_clear_out(e) PROVE EpTypeOK'
  BY <1>5 DEF ep_clear_out, EpTypeOK, Register, resets
<1>6. ASSUME NEW e \in Pipe, Transaction(e) PROVE EpTypeOK'
  <2>1. PICK acked \in BOOLEAN :
          /\ ep' = [ep EXCEPT
               ![e].toggle = Flip(@, IF e.dir = "IN" THEN acked ELSE IsNew(e)),
               ![e].full = IF e.dir = "IN" THEN ~acked ELSE IsNew(e)]
          /\ host_toggle' = [host_toggle EXCEPT
               ![e] = Flip(@, IF e.dir = "IN" THEN IsNew(e) ELSE acked)]
          /\ sending' = IF e.dir = "OUT" /\ ~acked THEN sending \cup {e} ELSE sending \ {e}
          /\ taken' = [taken EXCEPT ![e] = ~acked /\ (@ \/ IsNew(e))]
    BY <1>6 DEF Transaction
  <2>2. Flip(ep[e].toggle, IF e.dir = "IN" THEN acked ELSE IsNew(e)) \in {0, 1}
    BY DEF EpTypeOK, Register, Flip
  <2>3. Flip(host_toggle[e], IF e.dir = "IN" THEN IsNew(e) ELSE acked) \in {0, 1}
    BY DEF EpTypeOK, Flip
  <2>4. IsNew(e) \in BOOLEAN
    BY DEF IsNew
  <2>5. ep' \in [Endpoint -> Register]
    <3> DEFINE toggle == Flip(ep[e].toggle, IF e.dir = "IN" THEN acked ELSE IsNew(e))
               full   == IF e.dir = "IN" THEN ~acked ELSE IsNew(e)
    <3>1. toggle \in {0, 1} /\ full \in BOOLEAN
      BY <2>2, <2>4
    <3>2. ep' = [ep EXCEPT ![e] = [ep[e] EXCEPT !.toggle = toggle, !.full = full]]
      BY <2>1 DEF EpTypeOK
    <3> HIDE DEF toggle, full
    <3>3. [ep[e] EXCEPT !.toggle = toggle, !.full = full] \in Register
      BY <3>1 DEF EpTypeOK, Register
    <3> QED
      BY <3>2, <3>3 DEF EpTypeOK
  <2>6. host_toggle' \in [Endpoint -> {0, 1}]
    BY <2>1, <2>3 DEF EpTypeOK
  <2>7. taken' \in [Endpoint -> BOOLEAN]
    BY <2>1, <2>4 DEF EpTypeOK
  <2>8. sending' \subseteq {o \in Pipe : o.dir = "OUT"}
    BY <2>1 DEF EpTypeOK
  <2>9. {host_reset', lost', twice'} \subseteq SUBSET Pipe
    BY <1>6 DEF Transaction, EpTypeOK
  <2>10. {dev_reset', apart'} \subseteq SUBSET Endpoint
    BY <1>6 DEF Transaction, EpTypeOK
  <2> QED
    BY <2>5, <2>6, <2>7, <2>8, <2>9, <2>10 DEF EpTypeOK
<1>7. ASSUME NEW e \in Pipe, SetHalt(e) PROVE EpTypeOK'
  BY <1>7 DEF SetHalt, EpTypeOK, Register, resets
<1>8. ASSUME NEW e \in Pipe, ClearHalt(e) PROVE EpTypeOK'
  <2>1. ep' \in [Endpoint -> Register]
    BY <1>8 DEF ClearHalt, EpTypeOK, Register
  <2>2. {host_reset'} \subseteq SUBSET Pipe /\ {dev_reset', apart'} \subseteq SUBSET Endpoint
    BY <1>8 DEF ClearHalt, SetBack, EpTypeOK
  <2> QED
    BY <1>8, <2>1, <2>2 DEF ClearHalt, EpTypeOK
<1>9. ASSUME NEW e \in Pipe, HostHaltCleared(e) PROVE EpTypeOK'
  BY <1>9 DEF HostHaltCleared, SetBack, EpTypeOK
<1>10. CASE UNCHANGED epvars
  BY <1>10 DEF epvars, pipes, resets, EpTypeOK
<1> QED
  BY <1>1, <1>2, <1>3, <1>4, <1>5, <1>6, <1>7, <1>8, <1>9, <1>10 DEF EndpointsNext

(* The registers, the toggles and the history stay in their domains
   (usb_ep.c:18-131). *)
THEOREM EndpointsTypeOK == EndpointsSpec => []EpTypeOK
<1> QED
  BY TypeInit, TypeStep, PTL DEF EndpointsSpec

------------------------------------------------------------------------------
(* Both ends at DATA0 with nothing under way are in step. *)
LEMMA FreshInStep ==
  ASSUME NEW e \in Pipe, HostFresh(e), DeviceFresh(e) PROVE InStep(e)
  BY PipeFacts DEF HostFresh, DeviceFresh, InStep

(* A packet of a pipe that is in step leaves it in step. *)
LEMMA TransactionOnce ==
  ASSUME NEW e \in Pipe, EpTypeOK, Transaction(e), InStep(e)
  PROVE  /\ InStep(e)'
         /\ e \in lost' => e \in lost
         /\ e \in twice' => e \in twice
<1> USE PipeFacts
<1>3. PICK acked \in BOOLEAN :
        /\ ep' = [ep EXCEPT
             ![e].toggle = Flip(@, IF e.dir = "IN" THEN acked ELSE IsNew(e)),
             ![e].full = IF e.dir = "IN" THEN ~acked ELSE IsNew(e)]
        /\ host_toggle' = [host_toggle EXCEPT
             ![e] = Flip(@, IF e.dir = "IN" THEN IsNew(e) ELSE acked)]
        /\ sending' = IF e.dir = "OUT" /\ ~acked THEN sending \cup {e} ELSE sending \ {e}
        /\ taken' = [taken EXCEPT ![e] = ~acked /\ (@ \/ IsNew(e))]
        /\ twice' = IF e \notin apart' /\ IsNew(e) /\ taken[e] THEN twice \cup {e} ELSE twice
        /\ lost' = IF e \notin apart' /\ acked /\ ~IsNew(e) /\ ~taken[e]
                   THEN lost \cup {e} ELSE lost
  BY DEF Transaction
<1>4. IsNew(e) <=> ~taken[e]
  BY DEF InStep, IsNew, EpTypeOK
<1>5. /\ ep'[e].toggle = Flip(ep[e].toggle, IF e.dir = "IN" THEN acked ELSE IsNew(e))
      /\ ep'[e].full = (IF e.dir = "IN" THEN ~acked ELSE IsNew(e))
  BY <1>3 DEF EpTypeOK, Register
<1>6. /\ host_toggle'[e] = Flip(host_toggle[e], IF e.dir = "IN" THEN IsNew(e) ELSE acked)
      /\ taken'[e] = (~acked /\ (taken[e] \/ IsNew(e)))
  BY <1>3 DEF EpTypeOK
<1>7. ep[e].toggle \in {0, 1} /\ host_toggle[e] \in {0, 1} /\ taken[e] \in BOOLEAN
  BY DEF EpTypeOK, Register
<1>8. InStep(e)'
  <2>1. taken'[e] <=> ~acked
    BY <1>4, <1>6
  <2>2. CASE e.dir = "IN"
    <3>1. /\ ep'[e].toggle = IF acked THEN 1 - ep[e].toggle ELSE ep[e].toggle
          /\ ep'[e].full <=> ~acked
      BY <2>2, <1>5 DEF Flip
    <3>2. host_toggle'[e] = IF taken[e] THEN host_toggle[e] ELSE 1 - host_toggle[e]
      BY <2>2, <1>4, <1>6, <1>7 DEF Flip
    <3>3. ep'[e].toggle # host_toggle'[e] <=> ~acked
      BY <3>1, <3>2, <1>7 DEF InStep
    <3> QED
      BY <2>1, <2>2, <3>1, <3>3 DEF InStep, Busy
  <2>3. CASE e.dir = "OUT"
    <3>1. ep'[e].toggle = IF taken[e] THEN ep[e].toggle ELSE 1 - ep[e].toggle
      BY <2>3, <1>4, <1>5, <1>7 DEF Flip
    <3>2. host_toggle'[e] = IF acked THEN 1 - host_toggle[e] ELSE host_toggle[e]
      BY <2>3, <1>6 DEF Flip
    <3>3. ep'[e].toggle # host_toggle'[e] <=> ~acked
      BY <3>1, <3>2, <1>7 DEF InStep
    <3>4. ~acked => e \in sending'
      BY <2>3, <1>3
    <3> QED
      BY <2>1, <2>3, <3>3, <3>4 DEF InStep, Busy
  <2> QED
    BY <2>2, <2>3
<1>9. (e \in lost' => e \in lost) /\ (e \in twice' => e \in twice)
  BY <1>3, <1>4
<1> QED
  BY <1>8, <1>9

LEMMA OnceInit == EpInit => OnceInv
<1> SUFFICES ASSUME EpInit PROVE OnceInv
  OBVIOUS
<1>1. Settled = {} /\ lost = {} /\ twice = {} /\ dev_reset = {}
  BY DEF EpInit, Settled
<1>2. \A e \in Pipe : HostFresh(e)
  BY PipeFacts DEF EpInit, HostFresh
<1> QED
  BY <1>1, <1>2, TypeInit DEF EpInit, OnceInv, ReportsOnce

(* What the device brings along stays as it is until a packet passes. *)
LEMMA DeviceFreshStep ==
  ASSUME EpTypeOK, [EndpointsNext]_epvars, \A e \in dev_reset : DeviceFresh(e)
  PROVE  \A e \in dev_reset' : DeviceFresh(e)'
<1> USE PipeFacts
<1>0. dev_reset \subseteq Endpoint
  BY DEF EpTypeOK
<1>1. CASE hid_configure
  <2>1. dev_reset' = dev_reset \cup Pipe
    BY <1>1 DEF hid_configure, SetBack
  <2>2. \A e \in Pipe : ep'[e].toggle = 0
    BY <1>1 DEF hid_configure, ep_configure
  <2>3. \A e \in Pipe : e.dir = "IN" => ~taken'[e]
    BY <1>1 DEF hid_configure, EpTypeOK
  <2>4. ASSUME NEW e \in dev_reset \ Pipe PROVE DeviceFresh(e)'
    <3>1. ep'[e] = ep[e] /\ (taken'[e] => taken[e])
      BY <1>0, <1>1, <2>4 DEF hid_configure
    <3> QED
      BY <2>4, <3>1 DEF DeviceFresh
  <2> QED
    BY <2>1, <2>2, <2>3, <2>4 DEF DeviceFresh
<1>2. CASE ep_clear_all
  BY <1>2 DEF ep_clear_all
<1>3. CASE HostConfigured
  <2>1. dev_reset' = dev_reset /\ ep' = ep
    BY <1>3 DEF HostConfigured, SetBack
  <2>2. \A e \in Endpoint : taken'[e] => taken[e]
    BY <1>3 DEF HostConfigured
  <2> QED
    BY <1>0, <2>1, <2>2 DEF DeviceFresh
<1>4. ASSUME NEW d \in Pipe,
             ep_clear_in(d) \/ ep_clear_out(d) \/ SetHalt(d) \/ HostHaltCleared(d)
      PROVE  \A e \in dev_reset' : DeviceFresh(e)'
  <2>1. dev_reset' = dev_reset
    BY <1>4 DEF ep_clear_in, ep_clear_out, SetHalt, HostHaltCleared, SetBack, resets
  <2>2. \A e \in Endpoint : ep'[e].toggle = ep[e].toggle
    BY <1>4 DEF ep_clear_in, ep_clear_out, SetHalt, HostHaltCleared, EpTypeOK, Register
  <2>3. \A e \in Endpoint : taken'[e] => taken[e]
    BY <1>4 DEF ep_clear_in, ep_clear_out, SetHalt, HostHaltCleared, EpTypeOK
  <2> QED
    BY <1>0, <2>1, <2>2, <2>3 DEF DeviceFresh
<1>5. ASSUME NEW d \in Pipe, Transaction(d) PROVE \A e \in dev_reset' : DeviceFresh(e)'
  <2>1. dev_reset' = dev_reset \ {d}
    BY <1>5 DEF Transaction
  <2>2. \A e \in Endpoint \ {d} : ep'[e] = ep[e] /\ taken'[e] = taken[e]
    BY <1>5 DEF Transaction, EpTypeOK
  <2> QED
    BY <1>0, <2>1, <2>2 DEF DeviceFresh
<1>6. ASSUME NEW d \in Pipe, ClearHalt(d) PROVE \A e \in dev_reset' : DeviceFresh(e)'
  <2>1. dev_reset' = dev_reset \cup {Selected(d)} /\ taken' = taken
    BY <1>6 DEF ClearHalt, SetBack
  <2>2. ep'[Selected(d)].toggle = 0 /\ Selected(d).dir = "OUT"
    BY <1>6 DEF ClearHalt, EpTypeOK, Register, Selected, Out
  <2>3. \A e \in Endpoint \ {Selected(d)} : ep'[e] = ep[e]
    BY <1>6 DEF ClearHalt, EpTypeOK
  <2> QED
    BY <1>0, <2>1, <2>2, <2>3 DEF DeviceFresh
<1>7. CASE UNCHANGED epvars
  BY <1>7 DEF epvars, pipes, resets, DeviceFresh
<1> QED
  BY <1>1, <1>2, <1>3, <1>4, <1>5, <1>6, <1>7 DEF EndpointsNext

(* And so does what the host brings along. *)
LEMMA HostFreshStep ==
  ASSUME EpTypeOK, [EndpointsNext]_epvars, \A e \in host_reset : HostFresh(e)
  PROVE  \A e \in host_reset' : HostFresh(e)'
<1> USE PipeFacts
<1>0. host_reset \subseteq Pipe
  BY DEF EpTypeOK
<1>1. CASE ep_clear_all
  BY <1>1 DEF ep_clear_all, HostFresh
<1>2. CASE HostConfigured
  <2>1. host_reset' \subseteq Pipe
    BY <1>0, <1>2 DEF HostConfigured, SetBack
  <2>2. \A e \in Pipe : HostFresh(e)'
    BY <1>2 DEF HostConfigured, HostFresh
  <2> QED
    BY <2>1, <2>2
<1>3. ASSUME NEW d \in Pipe,
             \/ hid_configure \/ ep_clear_in(d) \/ ep_clear_out(d)
             \/ SetHalt(d) \/ ClearHalt(d)
      PROVE  \A e \in host_reset' : HostFresh(e)'
  <2>1. UNCHANGED <<host_toggle, sending, host_reset>>
    BY <1>3 DEF hid_configure, ep_clear_in, ep_clear_out, SetHalt, ClearHalt, SetBack,
                resets
  <2>2. \A e \in Endpoint : taken'[e] => taken[e]
    BY <1>3 DEF hid_configure, ep_clear_in, ep_clear_out, SetHalt, ClearHalt, EpTypeOK
  <2> QED
    BY <1>0, <2>1, <2>2 DEF HostFresh
<1>4. ASSUME NEW d \in Pipe, Transaction(d) \/ HostHaltCleared(d)
      PROVE  \A e \in host_reset' : HostFresh(e)'
  <2>1. ASSUME NEW e \in host_reset', e # d PROVE HostFresh(e)'
    <3>1. e \in host_reset /\ e \in Pipe
      BY <1>0, <1>4, <2>1 DEF Transaction, HostHaltCleared, SetBack
    <3>2. /\ host_toggle'[e] = host_toggle[e] /\ taken'[e] = taken[e]
          /\ e \in sending' <=> e \in sending
      BY <1>4, <2>1, <3>1 DEF Transaction, HostHaltCleared, EpTypeOK
    <3> QED
      BY <3>1, <3>2 DEF HostFresh
  <2>2. ASSUME d \in host_reset' PROVE HostFresh(d)'
    <3>1. HostHaltCleared(d)
      BY <1>4, <2>2 DEF Transaction
    <3> QED
      BY <3>1 DEF HostHaltCleared, HostFresh, EpTypeOK
  <2> QED
    BY <2>1, <2>2
<1>5. CASE UNCHANGED epvars
  BY <1>5 DEF epvars, pipes, resets, HostFresh
<1>6. CASE hid_configure
  <2>1. UNCHANGED <<host_toggle, sending, host_reset>>
    BY <1>6 DEF hid_configure, SetBack
  <2>2. \A e \in Endpoint : taken'[e] => taken[e]
    BY <1>6 DEF hid_configure
  <2> QED
    BY <1>0, <2>1, <2>2 DEF HostFresh
<1> QED
  BY <1>1, <1>2, <1>3, <1>4, <1>5, <1>6 DEF EndpointsNext

LEMMA OnceStep == OnceInv /\ [EndpointsNext]_epvars => OnceInv'
<1> SUFFICES ASSUME OnceInv, [EndpointsNext]_epvars
             PROVE  ReportsOnce' /\ \A e \in Settled' : InStep(e)'
  BY TypeStep, DeviceFreshStep, HostFreshStep DEF OnceInv
<1> USE PipeFacts
<1>0. /\ EpTypeOK /\ EpTypeOK' /\ lost = {} /\ twice = {}
      /\ \A e \in dev_reset : DeviceFresh(e)
      /\ \A e \in host_reset : HostFresh(e)
      /\ \A e \in Settled : InStep(e)
  BY TypeStep DEF OnceInv, ReportsOnce
<1>1. CASE hid_configure \/ HostConfigured \/ ep_clear_all
  <2>1. ReportsOnce'
    BY <1>0, <1>1 DEF hid_configure, HostConfigured, ep_clear_all, ReportsOnce
  <2>2. Settled' = {}
    BY <1>1 DEF hid_configure, HostConfigured, ep_clear_all, SetBack, Settled
  <2> QED
    BY <2>1, <2>2
<1>2. ASSUME NEW d \in Pipe, ep_clear_in(d)
      PROVE  ReportsOnce' /\ \A e \in Settled' : InStep(e)'
  <2>1. ReportsOnce' /\ Settled' = Settled
    BY <1>0, <1>2 DEF ep_clear_in, resets, ReportsOnce, Settled
  <2>2. ASSUME NEW e \in Settled PROVE InStep(e)'
    <3>1. InStep(e) /\ e \in Endpoint
      BY <1>0 DEF Settled
    <3>2. CASE e # d
      <4>1. /\ ep'[e] = ep[e] /\ taken'[e] = taken[e]
            /\ UNCHANGED <<host_toggle, sending>>
        BY <1>0, <1>2, <3>1, <3>2 DEF ep_clear_in, EpTypeOK
      <4> QED
        BY <3>1, <4>1 DEF InStep, Busy
    <3>3. CASE e = d
      <4>1. ~Busy(d) /\ ~taken'[d] /\ ep'[d].toggle = ep[d].toggle
        BY <1>0, <1>2 DEF ep_clear_in, Busy, EpTypeOK, Register
      <4>2. host_toggle' = host_toggle
        BY <1>2 DEF ep_clear_in
      <4> QED
        BY <3>1, <3>3, <4>1, <4>2 DEF InStep
    <3> QED
      BY <3>2, <3>3
  <2> QED
    BY <2>1, <2>2
<1>3. ASSUME NEW d \in Pipe, ep_clear_out(d) \/ SetHalt(d)
      PROVE  ReportsOnce' /\ \A e \in Settled' : InStep(e)'
  <2>1. ReportsOnce' /\ Settled' = Settled
    BY <1>0, <1>3 DEF ep_clear_out, SetHalt, resets, ReportsOnce, Settled
  <2>2. ASSUME NEW e \in Settled PROVE InStep(e)'
    <3>1. InStep(e) /\ e \in Endpoint
      BY <1>0 DEF Settled
    <3>2. /\ ep'[e].toggle = ep[e].toggle
          /\ e.dir = "IN" => ep'[e].full = ep[e].full
          /\ UNCHANGED <<host_toggle, sending, taken>>
      <4>1. CASE ep_clear_out(d)
        BY <4>1, <1>0, <3>1 DEF ep_clear_out, EpTypeOK, Register
      <4>2. CASE SetHalt(d)
        BY <4>2, <1>0, <3>1 DEF SetHalt, EpTypeOK, Register
      <4> QED
        BY <1>3, <4>1, <4>2
    <3> QED
      BY <3>1, <3>2 DEF InStep, Busy
  <2> QED
    BY <2>1, <2>2
<1>4. ASSUME NEW d \in Pipe, Transaction(d)
      PROVE  ReportsOnce' /\ \A e \in Settled' : InStep(e)'
  <2>1. ASSUME d \notin apart' PROVE InStep(d)
    <3>1. d \notin apart /\ (d \in host_reset <=> d \in dev_reset)
      BY <1>4, <2>1 DEF Transaction
    <3>2. CASE d \in host_reset
      BY <1>0, <3>1, <3>2, FreshInStep
    <3>3. CASE d \notin host_reset
      BY <1>0, <3>1, <3>3 DEF Settled
    <3> QED
      BY <3>2, <3>3
  <2>2. d \notin apart' => InStep(d)' /\ d \notin lost' /\ d \notin twice'
    BY <1>0, <1>4, <2>1, TransactionOnce
  <2>3. /\ lost' \subseteq {d} /\ twice' \subseteq {d}
        /\ d \in apart' => lost' = {} /\ twice' = {}
    BY <1>0, <1>4 DEF Transaction
  <2>4. ASSUME NEW e \in Settled', e # d PROVE InStep(e)'
    <3>1. e \in Settled /\ e \in Endpoint
      BY <1>4, <2>4 DEF Transaction, Settled
    <3>2. /\ ep'[e] = ep[e] /\ host_toggle'[e] = host_toggle[e] /\ taken'[e] = taken[e]
          /\ e \in sending' <=> e \in sending
      BY <1>0, <1>4, <2>4, <3>1 DEF Transaction, EpTypeOK
    <3> QED
      BY <1>0, <3>1, <3>2 DEF InStep, Busy
  <2> QED
    BY <2>2, <2>3, <2>4 DEF ReportsOnce, Settled
<1>5. ASSUME NEW d \in Pipe, ClearHalt(d)
      PROVE  ReportsOnce' /\ \A e \in Settled' : InStep(e)'
  <2>1. ReportsOnce'
    BY <1>0, <1>5 DEF ClearHalt, ReportsOnce
  <2>2. ASSUME NEW e \in Settled' PROVE InStep(e)'
    <3>1. e \in Settled /\ e \in Endpoint /\ e # Selected(d)
      BY <1>5 DEF ClearHalt, SetBack, Settled
    <3>2. ep'[e] = ep[e] /\ UNCHANGED <<host_toggle, sending, taken>>
      BY <1>0, <1>5, <3>1 DEF ClearHalt, EpTypeOK
    <3> QED
      BY <1>0, <3>1, <3>2 DEF InStep, Busy
  <2> QED
    BY <2>1, <2>2
<1>6. ASSUME NEW d \in Pipe, HostHaltCleared(d)
      PROVE  ReportsOnce' /\ \A e \in Settled' : InStep(e)'
  <2>1. ReportsOnce'
    BY <1>0, <1>6 DEF HostHaltCleared, ReportsOnce
  <2>2. ASSUME NEW e \in Settled' PROVE InStep(e)'
    <3>1. e \in Settled /\ e \in Endpoint /\ e # d
      BY <1>6 DEF HostHaltCleared, SetBack, Settled
    <3>2. /\ ep' = ep /\ host_toggle'[e] = host_toggle[e] /\ taken'[e] = taken[e]
          /\ e \in sending' <=> e \in sending
      BY <1>0, <1>6, <3>1 DEF HostHaltCleared, EpTypeOK
    <3> QED
      BY <1>0, <3>1, <3>2 DEF InStep, Busy
  <2> QED
    BY <2>1, <2>2
<1>7. CASE UNCHANGED epvars
  BY <1>0, <1>7 DEF epvars, pipes, resets, ReportsOnce, Settled, InStep, Busy
<1> QED
  BY <1>1, <1>2, <1>3, <1>4, <1>5, <1>6, <1>7 DEF EndpointsNext

(* Whatever handshakes are lost, however often the device is configured or an
   endpoint halted: where both ends were set back with no packet in between,
   whichever came first, no packet is lost and none is taken twice
   (usb_ep.c:89-131, usb_ctrl.c:126-194). *)
THEOREM EachReportOnce == EndpointsSpec => []ReportsOnce
<1>1. OnceInv => ReportsOnce
  BY DEF OnceInv
<1> QED
  BY OnceInit, OnceStep, <1>1, PTL DEF EndpointsSpec

------------------------------------------------------------------------------
(* Enumeration as a client of the pipes. *)

(* Requests about a halt name a pipe. *)
NamesPipe(r) == r.kind \in {"SET_FEATURE", "CLEAR_FEATURE"} => r.ep \in Pipe

RequestInv ==
  /\ image \in Image /\ step \in 1..InUse
  /\ setup # None => NamesPipe(setup)
  /\ xfer # None => NamesPipe(xfer)

LEMMA PlanNamesPipes ==
  ASSUME NEW i \in Image, NEW n \in 1..InUse, NEW r \in Plan(i, n) PROVE NamesPipe(r)
<1> USE DEF NamesPipe, Get, SetAddress, SetConfiguration, SetIdle, SetReport, SetFeature,
            ClearFeature
<1>1. CASE n \in 1..6
  BY <1>1 DEF Plan, InUse
<1>2. CASE n = 7
  BY <1>2 DEF Plan, InUse, Image
<1>3. CASE n = 8
  BY <1>3 DEF Plan, InUse, Image
<1> QED
  BY <1>1, <1>2, <1>3 DEF InUse

LEMMA RequestInit == EnumInit => RequestInv
  BY DEF EnumInit, RequestInv, InUse

LEMMA RequestStep == RequestInv /\ [EnumNext]_enumvars => RequestInv'
<1> SUFFICES ASSUME RequestInv, [EnumNext]_enumvars PROVE RequestInv'
  OBVIOUS
<1>1. CASE Serve
  <2>1. UNCHANGED <<image, step, xfer>> /\ setup' \in {setup, None}
    BY <1>1 DEF Serve, Process, Commit, Aborted, CommitZlp, WaitOut, CommitStatus,
                ConfigChanged, StallLeftover, StallSetup, ep_clear_setup, host, ep0
  <2> QED
    BY <2>1 DEF RequestInv, NamesPipe
<1>2. CASE hid_flush \/ HostPolls \/ UNCHANGED enumvars
  BY <1>2 DEF hid_flush, HostPolls, enumvars, host, ep0, RequestInv, NamesPipe
<1>3. CASE Reset
  BY <1>3 DEF Reset, ep_clear_setup, RequestInv, InUse
<1>4. CASE HostTransfer
  <2>1. UNCHANGED <<image, setup>> /\ xfer' \in {xfer, None}
    BY <1>4 DEF HostTransfer, HostReadsData, HostSendsStatus, HostSendsData,
                HostReadsStatus, HostSeesStall, Idle, ep0
  <2>2. step' \in 1..InUse
    BY <1>4 DEF HostTransfer, HostReadsData, HostSendsStatus, HostSendsData,
                HostReadsStatus, HostSeesStall, GoOn, Least, RequestInv, InUse
  <2> QED
    BY <2>1, <2>2 DEF RequestInv, NamesPipe
<1>5. ASSUME NEW r \in Plan(image, step), HostSetup(r) PROVE RequestInv'
  BY <1>5, PlanNamesPipes DEF HostSetup, RequestInv, NamesPipe
<1> QED
  BY <1>1, <1>2, <1>3, <1>4, <1>5 DEF EnumNext

LEMMA PipesInit == EnumInit => EpInit
  BY DEF EnumInit

(* Every step moves the pipes as one of their own actions, or not at all. *)
LEMMA PipesStep == RequestInv /\ [EnumNext]_enumvars => [EndpointsNext]_epvars
<1> SUFFICES ASSUME RequestInv, [EnumNext]_enumvars PROVE [EndpointsNext]_epvars
  OBVIOUS
<1>1. CASE Process
  <2>1. setup # None /\ NamesPipe(setup)
    BY <1>1 DEF Process, RequestInv
  <2>2. \/ setup.kind = "SET_FEATURE" /\ SetHalt(setup.ep)
        \/ setup.kind = "CLEAR_FEATURE" /\ ClearHalt(setup.ep)
        \/ UNCHANGED epvars
    BY <1>1 DEF Process
  <2> QED
    BY <2>1, <2>2 DEF NamesPipe, EndpointsNext
<1>2. CASE Serve /\ ~Process
  BY <1>2 DEF Serve, Commit, Aborted, CommitZlp, WaitOut, CommitStatus, ConfigChanged,
              StallLeftover, EndpointsNext
<1>3. CASE hid_flush
  BY <1>3, EnumAssumption DEF hid_flush, EndpointsNext
<1>4. CASE Reset
  BY <1>4 DEF Reset, EndpointsNext
<1>5. CASE HostReadsStatus
  <2>1. xfer # None /\ NamesPipe(xfer)
    BY <1>5 DEF HostReadsStatus, RequestInv
  <2>2. \/ HostConfigured
        \/ xfer.kind = "CLEAR_FEATURE" /\ HostHaltCleared(xfer.ep)
        \/ UNCHANGED epvars
    BY <1>5 DEF HostReadsStatus
  <2> QED
    BY <2>1, <2>2 DEF NamesPipe, EndpointsNext
<1>6. CASE HostTransfer /\ ~HostReadsStatus
  BY <1>6 DEF HostTransfer, HostReadsData, HostSendsStatus, HostSendsData, HostSeesStall
<1>7. CASE HostPolls
  BY <1>7, EnumAssumption DEF HostPolls, EndpointsNext
<1>8. ASSUME NEW r \in Plan(image, step), HostSetup(r) PROVE UNCHANGED epvars
  BY <1>8 DEF HostSetup
<1>9. CASE UNCHANGED enumvars
  BY <1>9 DEF enumvars
<1> QED
  BY <1>1, <1>2, <1>3, <1>4, <1>5, <1>6, <1>7, <1>8, <1>9 DEF EnumNext, Serve

(* The control pipe, the host's polls and bus resets use the endpoints only as
   the abstract Endpoints lets them (usb_ctrl.c:101-289, usb_hid.c:53-169). *)
THEOREM ImplementsEndpoints == EnumSpec => EndpointsSpec
<1> QED
  BY RequestInit, RequestStep, PipesInit, PipesStep, PTL DEF EnumSpec, EndpointsSpec

(* Through the whole enumeration and the requests of a configured device no
   report is lost or doubled while no packet comes between the ends' resets. *)
THEOREM EnumerationReportsOnce == EnumSpec => []ReportsOnce
<1> QED
  BY ImplementsEndpoints, EachReportOnce, PTL

------------------------------------------------------------------------------
(* The control pipe. *)

(* The requests of the image that runs, and what a GET of them is answered with. *)
Asked == UNION {Plan(image, n) : n \in 1..InUse}

Gets(r) == r \in Asked /\ r.kind = "GET" /\ Size(r) # NO_DESCRIPTOR

ControlTypes ==
  /\ image \in Image /\ step \in 1..InUse
  /\ setup \in Asked \cup {None} /\ xfer \in Asked \cup {None} /\ req \in Asked \cup {None}
  /\ out0 \in BOOLEAN /\ stall0 \in BOOLEAN
  /\ pc \in {"poll", "data_in", "zlp_wait", "status_out", "data_out", "status_in",
             "configure", "tail"}
  /\ stage \in {"idle", "data", "status"}
  /\ sent \in Nat /\ got \in Nat

(* The device alone, in step with the host or not: it has committed whole
   batches, and never more than it is to send. *)
Batches ==
  /\ pc \in {"data_in", "zlp_wait"} => Gets(req)
  /\ pc = "data_in" => sent < Goal /\ sent % 8 = 0
  /\ pc = "zlp_wait" => sent = Goal /\ NeedsZlp
  /\ bank # None =>
       bank \in Packet /\ bank.from <= bank.upto /\ bank.upto - bank.from <= EP_MAX_SIZE

ControlInv == ControlTypes /\ Batches

(* The device serves the read that the host waits for: what the host has and
   what is in the bank is what was committed, and a data stage that goes on has
   been full packets so far. *)
InStepWithHost ==
  /\ Gets(xfer) /\ req = xfer /\ ~out0
  /\ pc \in {"data_in", "zlp_wait", "status_out"}
  /\ stage \in {"data", "status"}
  /\ got <= sent
  /\ bank # None => bank.of = xfer.desc /\ bank.from = got /\ bank.upto = sent
  /\ bank = None => got = sent
  /\ pc = "data_in" => stage = "data" /\ (bank # None => got < sent)
  /\ pc # "data_in" => sent = Goal
  /\ pc = "zlp_wait" /\ bank # None => got < sent
  /\ stage = "data" => got % 8 = 0
  /\ stage = "status" => got = Goal
  /\ pc = "status_out" /\ stage = "data" => bank # None /\ (got < sent => ~NeedsZlp)

ReadInv ==
  /\ setup # None =>
       /\ xfer = setup /\ got = 0
       /\ stage = IF setup.kind \in {"GET", "SET_REPORT"} THEN "data" ELSE "status"
  /\ Reading /\ stall0 => stage = "data"
  /\ Reading /\ Listening => InStepWithHost
  /\ ~torn

------------------------------------------------------------------------------
(* EP0 has packets of eight bytes. *)
LEMMA PacketSize == dev_desc.b_max_packet_size0 = 8
  BY DEF dev_desc

(* What a step of the plan asks for is a request of the image. *)
LEMMA AskedOnce ==
  ASSUME image \in Image, NEW n \in 1..InUse, NEW r \in Plan(image, n)
  PROVE  r \in Asked
  BY DEF Asked

(* A request is not None. *)
LEMMA AskedFacts ==
  ASSUME image \in Image, NEW r \in Asked
  PROVE  r \in Request /\ r # None
<1>1. r \in Request
  BY DEF Asked, Request
<1>2. QED
  BY <1>1, NoneAssumption

(* What is read, and how much of it is sent. *)
LEMMA GetFacts ==
  ASSUME image \in Image, NEW r, Gets(r)
  PROVE  /\ r # None /\ r.w_length \in Nat \ {0} /\ Size(r) \in Nat \ {0}
         /\ Least(Size(r), r.w_length) \in Nat \ {0}
         /\ \A from, upto \in Nat :
              [of |-> r.desc, from |-> from, upto |-> upto] \in Packet
<1>1. PICK n \in 1..InUse : r \in Plan(image, n)
  BY DEF Gets, Asked
<1>2. r.w_length \in Nat \ {0} /\ Answer(image, r) \in Nat
  BY <1>1, SizeAssumption DEF Gets
<1>3. Size(r) \in Nat \ {0}
  BY <1>2 DEF Size, Gets, NO_DESCRIPTOR
<1>4. r \in Request /\ r # None /\ r.kind = "GET"
  BY AskedFacts DEF Gets
<1>5. r.desc \in {q.desc : q \in {g \in Request : g.kind = "GET"}}
  BY <1>4
<1>6. QED
  BY <1>2, <1>3, <1>4, <1>5 DEF Least, Packet

(* What is in the bank, and what is left of it when a packet is sent. *)
LEMMA BankIsPacket ==
  ASSUME NEW b \in Packet
  PROVE  /\ b # None /\ b.from \in Nat /\ b.upto \in Nat
         /\ \A n \in Nat : [b EXCEPT !.from = b.from + n] \in Packet
  BY NoneAssumption DEF Packet

(* Where the image is the same, so are the requests and their answers. *)
LEMMA SameImage ==
  ASSUME image' = image
  PROVE  /\ Asked' = Asked
         /\ \A r : Size(r)' = Size(r) /\ Gets(r)' = Gets(r)
         /\ req' = req => Goal' = Goal /\ NeedsZlp' = NeedsZlp
  BY DEF Asked, Size, Gets, Goal, NeedsZlp

(* The type invariants of the control pipe, part by part. *)
LEMMA ControlKept ==
  ASSUME ControlInv, UNCHANGED <<image, req, sent, pc>>, step' \in 1..InUse,
         setup' \in {setup, None}, xfer' \in {xfer, None}, out0' \in BOOLEAN, stall0' \in BOOLEAN,
         stage' \in {"idle", "data", "status"}, got' \in Nat, bank' \in {bank, None}
  PROVE  ControlInv'
<1>1. ControlTypes'
  BY SameImage DEF ControlInv, ControlTypes
<1>2. Batches'
  BY SameImage DEF ControlInv, Batches
<1>3. QED
  BY <1>1, <1>2 DEF ControlInv

(* usb_process_ctrl_request: a read starts with nothing sent. *)
LEMMA ControlProcess ==
  ASSUME ControlInv, Process
  PROVE  ControlInv'
<1>1. /\ image' = image /\ step' = step /\ xfer' = xfer /\ stage' = stage /\ got' = got
      /\ sent' = 0 /\ setup' = None /\ bank' = None /\ out0' = FALSE /\ stall0' \in BOOLEAN
      /\ setup # None
      /\ \/ req' = None /\ pc' = "poll"
         \/ /\ req' = setup /\ Answered(setup)
            /\ pc' = IF setup.kind = "GET" THEN "data_in"
                     ELSE IF setup.kind = "SET_REPORT" THEN "data_out" ELSE "status_in"
  BY DEF Process, StallSetup, ep_clear_setup, host
<1>2. setup \in Asked /\ image \in Image
  BY <1>1 DEF ControlInv, ControlTypes
<1>3. Asked' = Asked
  BY <1>1, SameImage
<1>4. ControlTypes'
  BY <1>1, <1>2, <1>3 DEF ControlInv, ControlTypes
<1>5. ASSUME pc' = "data_in"
      PROVE  Gets(req)' /\ 0 < Goal'
  <2>1. req' = setup /\ setup.kind = "GET" /\ Answered(setup)
    BY <1>1, <1>5
  <2>2. Gets(setup)
    BY <1>2, <2>1 DEF Gets, Answered
  <2>3. Least(Size(setup), setup.w_length) \in Nat \ {0}
    BY <1>2, <2>2, GetFacts
  <2>4. Goal' = Least(Size(setup), setup.w_length)
    BY <1>1, <2>1 DEF Goal, Size
  <2>5. Gets(req)'
    BY <1>1, <1>3, <2>1, <2>2 DEF Gets, Size
  <2>6. QED
    BY <2>3, <2>4, <2>5
<1>6. pc' # "zlp_wait" /\ 0 % 8 = 0
  BY <1>1
<1>7. Batches'
  BY <1>1, <1>5, <1>6 DEF Batches
<1>8. QED
  BY <1>4, <1>7 DEF ControlInv

(* A batch of the data stage, full or the last one. *)
LEMMA ControlCommit ==
  ASSUME ControlInv, Commit
  PROVE  /\ ControlInv'
         /\ bank' = [of |-> req.desc, from |-> sent, upto |-> sent'] /\ bank' # None
         /\ sent < sent' /\ sent' <= Goal
         /\ pc' = IF sent' < Goal THEN "data_in" ELSE IF NeedsZlp THEN "zlp_wait" ELSE "status_out"
         /\ pc = "data_in" /\ bank = None
         /\ UNCHANGED <<image, setup, out0, stall0, req, host>>
<1> DEFINE batch == Least(Goal - sent, EP_MAX_SIZE)
<1>1. /\ pc = "data_in" /\ bank = None /\ sent' = sent + batch
      /\ bank' = [of |-> req.desc, from |-> sent, upto |-> sent + batch]
      /\ pc' = IF sent + batch < Goal THEN "data_in"
               ELSE IF NeedsZlp THEN "zlp_wait" ELSE "status_out"
      /\ UNCHANGED <<image, setup, out0, stall0, req, host>>
  BY DEF Commit
<1>2. /\ image \in Image /\ sent \in Nat /\ sent < Goal /\ sent % 8 = 0 /\ Gets(req)
  BY <1>1 DEF ControlInv, ControlTypes, Batches
<1>3. Goal \in Nat
  BY <1>2, GetFacts DEF Goal
<1>4. /\ batch \in Nat \ {0} /\ batch <= 64 /\ sent + batch <= Goal
      /\ (sent + batch < Goal => batch = 64)
  BY <1>2, <1>3 DEF Least, EP_MAX_SIZE
<1> HIDE DEF batch
<1>5. sent' \in Nat /\ sent < sent' /\ sent' <= Goal /\ sent' - sent <= 64
  BY <1>1, <1>2, <1>4
<1>6. sent' < Goal => sent' % 8 = 0
  BY <1>1, <1>2, <1>4
<1>7. bank' \in Packet /\ bank'.from = sent /\ bank'.upto = sent'
  BY <1>1, <1>2, <1>5, GetFacts
<1>8. bank' # None
  BY <1>7, BankIsPacket
<1>9. ~(sent' < Goal) => sent' = Goal
  BY <1>3, <1>5
<1>10. /\ Asked' = Asked /\ Goal' = Goal /\ NeedsZlp' = NeedsZlp /\ Gets(req)' = Gets(req)
  BY <1>1, SameImage DEF Gets, Size
<1>11. ControlTypes'
  BY <1>1, <1>5, <1>10 DEF ControlInv, ControlTypes, host
<1>12. Batches'
  BY <1>1, <1>2, <1>5, <1>6, <1>7, <1>9, <1>10 DEF Batches, EP_MAX_SIZE
<1>13. QED
  BY <1>1, <1>5, <1>8, <1>11, <1>12 DEF ControlInv

(* The zero-length packet behind the last batch. *)
LEMMA ControlZlp ==
  ASSUME ControlInv, CommitZlp
  PROVE  /\ ControlInv'
         /\ bank' = [of |-> req.desc, from |-> sent, upto |-> sent] /\ bank' # None
         /\ pc = "zlp_wait" /\ bank = None /\ pc' = "status_out" /\ sent = Goal
         /\ UNCHANGED <<image, setup, out0, stall0, req, sent, host>>
<1>1. /\ pc = "zlp_wait" /\ bank = None /\ pc' = "status_out"
      /\ bank' = [of |-> req.desc, from |-> Goal, upto |-> Goal]
      /\ UNCHANGED <<image, setup, out0, stall0, req, sent, host>>
  BY DEF CommitZlp
<1>2. image \in Image /\ sent \in Nat /\ sent = Goal /\ Gets(req)
  BY <1>1 DEF ControlInv, ControlTypes, Batches
<1>3. bank' \in Packet /\ bank'.from = sent /\ bank'.upto = sent
  BY <1>1, <1>2, GetFacts
<1>4. bank' # None
  BY <1>3, BankIsPacket
<1>5. Asked' = Asked
  BY <1>1, SameImage
<1>6. ControlTypes'
  BY <1>1, <1>5 DEF ControlInv, ControlTypes, host
<1>7. sent - sent <= 64 /\ sent <= sent
  BY <1>2
<1>8. Batches'
  BY <1>1, <1>3, <1>7 DEF Batches, EP_MAX_SIZE
<1>9. QED
  BY <1>1, <1>2, <1>4, <1>6, <1>8 DEF ControlInv

(* The other steps of the control pipe leave the data stage, or serve none. *)
LEMMA ControlServe ==
  ASSUME ControlInv, Aborted \/ WaitOut \/ CommitStatus \/ ConfigChanged \/ StallLeftover
  PROVE  ControlInv'
<1>1. /\ UNCHANGED <<image, step, xfer, stage, got>>
      /\ setup' \in {setup, None} /\ req' \in {req, None} /\ sent' \in {sent, 0}
      /\ out0' \in {out0, FALSE} /\ stall0' \in {stall0, TRUE}
      /\ pc' \in {"status_out", "tail", "status_in", "configure", "poll"}
      /\ bank' \in {bank, None, [of |-> None, from |-> 0, upto |-> 0]}
  BY DEF Aborted, WaitOut, CommitStatus, ConfigChanged, StallLeftover, StallSetup, ep0, host
<1>2. Asked' = Asked
  BY <1>1, SameImage
<1>3. ControlTypes'
  <2>1. out0 \in BOOLEAN /\ stall0 \in BOOLEAN
    BY DEF ControlInv, ControlTypes
  <2>2. out0' \in BOOLEAN /\ stall0' \in BOOLEAN
    BY <1>1, <2>1, Zenon
  <2>3. sent' \in Nat /\ pc' \in {"status_out", "tail", "status_in", "configure", "poll"}
    BY <1>1 DEF ControlInv, ControlTypes
  <2>4. setup' \in Asked \cup {None} /\ req' \in Asked \cup {None}
    BY <1>1 DEF ControlInv, ControlTypes
  <2>5. UNCHANGED <<image, step, xfer, stage, got>>
    BY <1>1
  <2>6. QED
    BY <1>2, <2>2, <2>3, <2>4, <2>5 DEF ControlInv, ControlTypes
<1>4. /\ [of |-> None, from |-> 0, upto |-> 0] \in Packet
      /\ 0 <= 0 /\ 0 - 0 <= 64
  BY DEF Packet
<1>5. Batches'
  BY <1>1, <1>4 DEF ControlInv, Batches, EP_MAX_SIZE
<1>6. QED
  BY <1>3, <1>5 DEF ControlInv

(* A SETUP packet. *)
LEMMA ControlSetup ==
  ASSUME ControlInv, NEW r \in Plan(image, step), HostSetup(r)
  PROVE  ControlInv'
<1>1. /\ setup' = r /\ xfer' = r /\ got' = 0 /\ stage' \in {"data", "status"}
      /\ UNCHANGED <<image, bank, out0, stall0, pc, req, sent, step>>
  BY DEF HostSetup, handler
<1>2. r \in Asked
  BY AskedOnce DEF ControlInv, ControlTypes
<1>3. ControlTypes'
  BY <1>1, <1>2, SameImage DEF ControlInv, ControlTypes
<1>4. Batches'
  BY <1>1, SameImage DEF ControlInv, Batches
<1>5. QED
  BY <1>3, <1>4 DEF ControlInv

(* A packet of the data stage is taken out of the bank. *)
LEMMA ControlReads ==
  ASSUME ControlInv, HostReadsData
  PROVE  ControlInv'
<1> DEFINE n == Least(bank.upto - bank.from, dev_desc.b_max_packet_size0)
<1>1. /\ bank # None /\ got' = got + n
      /\ bank' = IF bank.from + n = bank.upto THEN None ELSE [bank EXCEPT !.from = @ + n]
      /\ stage' \in {"data", "status"}
      /\ UNCHANGED <<image, setup, out0, stall0, pc, req, sent, step, xfer>>
  BY DEF HostReadsData, handler
<1>2. /\ bank \in Packet /\ bank.from \in Nat /\ bank.upto \in Nat /\ bank.from <= bank.upto
      /\ bank.upto - bank.from <= 64 /\ got \in Nat
  BY <1>1, BankIsPacket DEF ControlInv, ControlTypes, Batches, EP_MAX_SIZE
<1>3. n \in Nat /\ bank.from + n <= bank.upto
  BY <1>2, PacketSize DEF Least
<1> HIDE DEF n
<1>4. ControlTypes'
  BY <1>1, <1>2, <1>3, SameImage DEF ControlInv, ControlTypes
<1>5. bank' # None => /\ bank' \in Packet /\ bank'.from <= bank'.upto
                      /\ bank'.upto - bank'.from <= 64
  <2>1. SUFFICES ASSUME bank' # None
                 PROVE  /\ bank' \in Packet /\ bank'.from <= bank'.upto
                        /\ bank'.upto - bank'.from <= 64
    OBVIOUS
  <2>2. bank' = [bank EXCEPT !.from = bank.from + n]
    BY <1>1, <2>1
  <2>3. bank' \in Packet
    BY <1>2, <1>3, <2>2, BankIsPacket
  <2>4. bank'.from = bank.from + n /\ bank'.upto = bank.upto
    BY <1>2, <2>2 DEF Packet
  <2>5. QED
    BY <1>2, <1>3, <2>3, <2>4
<1>6. Batches'
  BY <1>1, <1>5, SameImage DEF ControlInv, Batches, EP_MAX_SIZE
<1>7. QED
  BY <1>4, <1>6 DEF ControlInv

LEMMA ControlInit == EnumInit => ControlInv
<1> SUFFICES ASSUME EnumInit PROVE ControlInv
  OBVIOUS
<1>1. /\ image \in Image /\ setup = None /\ bank = None /\ out0 = FALSE /\ stall0 = FALSE
      /\ pc = "poll" /\ req = None /\ sent = 0 /\ step = 1 /\ xfer = None /\ stage = "idle"
      /\ got = 0
  BY DEF EnumInit
<1>2. ControlTypes
  <2>1. out0 \in BOOLEAN /\ stall0 \in BOOLEAN
    BY <1>1
  <2>2. 1 \in 1..InUse
    BY DEF InUse
  <2>3. QED
    BY <1>1, <2>1, <2>2 DEF ControlTypes
<1>3. Batches
  BY <1>1 DEF Batches
<1>4. QED
  BY <1>2, <1>3 DEF ControlInv

LEMMA ControlStep == ControlInv /\ [EnumNext]_enumvars => ControlInv'
<1> SUFFICES ASSUME ControlInv, [EnumNext]_enumvars PROVE ControlInv'
  OBVIOUS
<1>1. CASE Serve
  BY <1>1, ControlProcess, ControlCommit, ControlZlp, ControlServe DEF Serve
<1>2. CASE hid_flush \/ HostPolls \/ UNCHANGED enumvars
  <2>1. UNCHANGED <<image, setup, bank, out0, stall0, pc, req, sent, step, xfer, stage, got>>
    BY <1>2 DEF hid_flush, HostPolls, enumvars, ep0, handler, host
  <2>2. QED
    BY <2>1, ControlKept DEF ControlInv, ControlTypes
<1>3. CASE Reset
  <2>1. 1 \in 1..InUse
    BY DEF InUse
  <2>2. QED
    BY <1>3, <2>1, ControlKept DEF Reset, ep_clear_setup, handler
<1>4. CASE HostReadsData
  BY <1>4, ControlReads
<1>5. CASE HostSendsStatus \/ HostSendsData \/ HostReadsStatus \/ HostSeesStall
  <2>1. /\ UNCHANGED <<image, setup, pc, req, sent>>
        /\ xfer' \in {xfer, None} /\ out0' \in {out0, TRUE} /\ stall0' = stall0
        /\ stage' \in {"idle", "status"} /\ got' \in {got, 0} /\ bank' \in {bank, None}
    BY <1>5 DEF HostSendsStatus, HostSendsData, HostReadsStatus, HostSeesStall, Idle, handler, ep0
  <2>2. step' \in {step, Least(step + 1, InUse)}
    BY <1>5 DEF HostSendsStatus, HostSendsData, HostReadsStatus, HostSeesStall, GoOn
  <2>3. step' \in 1..InUse
    BY <2>2 DEF ControlInv, ControlTypes, Least, InUse
  <2>4. out0' \in BOOLEAN /\ stall0' \in BOOLEAN
    <3>1. out0 \in BOOLEAN /\ stall0 \in BOOLEAN
      BY DEF ControlInv, ControlTypes
    <3>2. QED
      BY <2>1, <3>1, Zenon
  <2>5. stage' \in {"idle", "data", "status"} /\ got' \in Nat
    BY <2>1 DEF ControlInv, ControlTypes
  <2>6. QED
    BY <2>1, <2>3, <2>4, <2>5, ControlKept
<1>6. ASSUME NEW r \in Plan(image, step), HostSetup(r) PROVE ControlInv'
  BY <1>6, ControlSetup
<1>7. QED
  BY <1>1, <1>2, <1>3, <1>4, <1>5, <1>6 DEF EnumNext, HostTransfer

(* Steps of the device while the host waits for something else, or has not got
   its SETUP packet through. *)
LEMMA ReadElsewhere ==
  ASSUME ReadInv, UNCHANGED <<setup, xfer, stage, got, torn, stall0>>,
         ~(Reading /\ Listening)
  PROVE  ReadInv'
  BY DEF ReadInv, Reading, Listening

(* The host is through with its transfer, or lost it with a reset. *)
LEMMA ReadEnds ==
  ASSUME ReadInv, setup' = None, xfer' = None, torn' = torn
  PROVE  ReadInv'
  BY DEF ReadInv, Reading, Listening

(* A read that is answered starts in step with the host. *)
LEMMA ReadProcess ==
  ASSUME ControlInv, ReadInv, Process
  PROVE  ReadInv'
<1>1. /\ image' = image /\ xfer' = xfer /\ stage' = stage /\ got' = got /\ torn' = torn
      /\ sent' = 0 /\ setup' = None /\ bank' = None /\ out0' = FALSE /\ setup # None
      /\ \/ req' = None /\ pc' = "poll" /\ stall0' = TRUE
         \/ /\ req' = setup /\ Answered(setup) /\ stall0' = FALSE
            /\ pc' = IF setup.kind = "GET" THEN "data_in"
                     ELSE IF setup.kind = "SET_REPORT" THEN "data_out" ELSE "status_in"
  BY DEF Process, StallSetup, ep_clear_setup, host
<1>2. /\ xfer = setup /\ got = 0
      /\ stage = IF setup.kind \in {"GET", "SET_REPORT"} THEN "data" ELSE "status"
      /\ ~torn
  BY <1>1 DEF ReadInv
<1>3. Reading => stage = "data" /\ setup.kind = "GET"
  BY <1>2 DEF Reading
<1>4. Reading' = Reading
  BY <1>1 DEF Reading
<1>5. ASSUME Reading, stall0' = FALSE
      PROVE  InStepWithHost'
  <2>1. setup.kind = "GET" /\ stage = "data" /\ Answered(setup)
        /\ req' = setup /\ pc' = "data_in"
    BY <1>1, <1>3, <1>5
  <2>2. setup \in Asked
    BY <1>1 DEF ControlInv, ControlTypes
  <2>3. Gets(setup)
    BY <2>1, <2>2 DEF Gets, Answered
  <2>4. Gets(xfer)'
    BY <1>1, <1>2, <2>3, SameImage DEF Gets, Size
  <2>5. 0 <= 0 /\ 0 % 8 = 0
    OBVIOUS
  <2>6. QED
    BY <1>1, <1>2, <2>1, <2>4, <2>5 DEF InStepWithHost
<1>6. QED
  BY <1>1, <1>2, <1>3, <1>4, <1>5 DEF ReadInv, Listening

(* A batch continues where the host stands. *)
LEMMA ReadCommit ==
  ASSUME ControlInv, ReadInv, Commit
  PROVE  ReadInv'
<1>1. /\ bank' = [of |-> req.desc, from |-> sent, upto |-> sent'] /\ bank' # None
      /\ sent < sent' /\ sent' <= Goal
      /\ pc' = IF sent' < Goal THEN "data_in" ELSE IF NeedsZlp THEN "zlp_wait" ELSE "status_out"
      /\ pc = "data_in" /\ bank = None
      /\ UNCHANGED <<image, setup, out0, stall0, req, host>>
      /\ ControlInv'
  BY ControlCommit
<1>2. /\ xfer' = xfer /\ stage' = stage /\ got' = got /\ torn' = torn /\ setup' = setup
      /\ stall0' = stall0 /\ image' = image /\ req' = req /\ out0' = out0
  BY <1>1 DEF host
<1>3. CASE ~(Reading /\ Listening)
  BY <1>2, <1>3, ReadElsewhere
<1>4. CASE Reading /\ Listening
  <2>1. InStepWithHost
    BY <1>4 DEF ReadInv
  <2>2. /\ Gets(xfer)' = Gets(xfer) /\ Goal' = Goal /\ NeedsZlp' = NeedsZlp
    BY <1>2, SameImage DEF Gets, Size
  <2>3. /\ got = sent /\ req = xfer /\ stage = "data" /\ Gets(xfer) /\ ~out0
        /\ got % 8 = 0
    BY <1>1, <2>1 DEF InStepWithHost
  <2>4. /\ sent \in Nat /\ sent' \in Nat /\ Goal \in Nat
    <3>1. image \in Image /\ sent \in Nat /\ sent' \in Nat
      BY <1>1 DEF ControlInv, ControlTypes
    <3>2. QED
      BY <2>3, <3>1, GetFacts DEF Goal
  <2>5. /\ bank'.of = xfer'.desc /\ bank'.from = got' /\ bank'.upto = sent'
    BY <1>1, <1>2, <2>3
  <2>6. got' < sent' /\ got' <= sent'
    BY <1>1, <1>2, <2>3, <2>4
  <2>7. pc' # "data_in" => sent' = Goal'
    BY <1>1, <2>2, <2>4
  <2>8. pc' \in {"data_in", "zlp_wait", "status_out"} /\ (pc' = "status_out" => ~NeedsZlp')
    BY <1>1, <2>2
  <2>9. InStepWithHost'
    BY <1>1, <1>2, <2>2, <2>3, <2>5, <2>6, <2>7, <2>8 DEF InStepWithHost
  <2>10. QED
    BY <1>2, <2>9 DEF ReadInv, Reading, Listening
<1>5. QED
  BY <1>3, <1>4

(* The host has all of it, or waits for the zero-length packet. *)
LEMMA ReadZlp ==
  ASSUME ControlInv, ReadInv, CommitZlp
  PROVE  ReadInv'
<1>1. /\ bank' = [of |-> req.desc, from |-> sent, upto |-> sent] /\ bank' # None
      /\ pc = "zlp_wait" /\ bank = None /\ pc' = "status_out" /\ sent = Goal
      /\ UNCHANGED <<image, setup, out0, stall0, req, sent, host>>
  BY ControlZlp
<1>2. /\ xfer' = xfer /\ stage' = stage /\ got' = got /\ torn' = torn /\ setup' = setup
      /\ stall0' = stall0 /\ image' = image /\ req' = req /\ out0' = out0 /\ sent' = sent
  BY <1>1 DEF host
<1>3. CASE ~(Reading /\ Listening)
  BY <1>2, <1>3, ReadElsewhere
<1>4. CASE Reading /\ Listening
  <2>1. InStepWithHost
    BY <1>4 DEF ReadInv
  <2>2. /\ Gets(xfer)' = Gets(xfer) /\ Goal' = Goal /\ NeedsZlp' = NeedsZlp
    BY <1>2, SameImage DEF Gets, Size
  <2>3. got = sent /\ req = xfer
    BY <1>1, <2>1 DEF InStepWithHost
  <2>4. sent \in Nat /\ sent <= sent /\ ~(sent < sent)
    BY DEF ControlInv, ControlTypes
  <2>5. /\ bank'.of = xfer'.desc /\ bank'.from = got' /\ bank'.upto = sent'
    BY <1>1, <1>2, <2>3
  <2>6. InStepWithHost'
    BY <1>1, <1>2, <2>1, <2>2, <2>3, <2>4, <2>5 DEF InStepWithHost
  <2>7. QED
    BY <1>2, <2>6 DEF ReadInv, Reading, Listening
<1>5. QED
  BY <1>3, <1>4

(* The other steps of the device find the host not listening. *)
LEMMA ReadServe ==
  ASSUME ReadInv, Aborted \/ WaitOut \/ CommitStatus \/ ConfigChanged \/ StallLeftover
  PROVE  ReadInv'
<1>1. UNCHANGED <<xfer, stage, got, torn>>
  BY DEF Aborted, WaitOut, CommitStatus, ConfigChanged, StallLeftover, host
<1>2. ~(Reading /\ Listening)
  <2>1. SUFFICES ASSUME Reading, Listening PROVE FALSE
    OBVIOUS
  <2>2. pc \in {"data_in", "zlp_wait", "status_out"} /\ ~out0
    BY <2>1 DEF ReadInv, InStepWithHost
  <2>3. setup = None
    BY <2>1 DEF Listening
  <2>4. QED
    BY <2>2, <2>3 DEF Aborted, WaitOut, CommitStatus, ConfigChanged, StallLeftover
<1>3. CASE setup' = setup /\ stall0' = stall0
  BY <1>1, <1>2, <1>3, ReadElsewhere
<1>4. CASE setup # None /\ StallSetup
  <2>1. setup' = None /\ stall0' = TRUE
    BY <1>4 DEF StallSetup
  <2>2. Reading => stage = "data"
    BY <1>4 DEF ReadInv, Reading
  <2>3. Reading' = Reading
    BY <1>1 DEF Reading
  <2>4. QED
    BY <1>1, <2>1, <2>2, <2>3 DEF ReadInv, Listening
<1>5. QED
  BY <1>3, <1>4 DEF Aborted, WaitOut, CommitStatus, ConfigChanged, StallLeftover, ep0

(* A packet of the data stage. *)
LEMMA ReadPacket ==
  ASSUME ControlInv, ReadInv, HostReadsData
  PROVE  ReadInv'
<1> DEFINE n == Least(bank.upto - bank.from, dev_desc.b_max_packet_size0)
<1>1. /\ Listening /\ Reading /\ stage = "data" /\ bank # None
      /\ got' = got + n
      /\ torn' = (torn \/ bank.of # xfer.desc \/ bank.from # got)
      /\ bank' = IF bank.from + n = bank.upto THEN None ELSE [bank EXCEPT !.from = @ + n]
      /\ stage' = IF n < 8 \/ got + n >= xfer.w_length THEN "status" ELSE "data"
      /\ UNCHANGED <<image, setup, out0, stall0, pc, req, sent, xfer>>
  BY PacketSize DEF HostReadsData, handler
<1>2. InStepWithHost /\ ~torn
  BY <1>1 DEF ReadInv
<1>3. /\ Gets(xfer) /\ req = xfer /\ got % 8 = 0 /\ got <= sent
      /\ bank.of = xfer.desc /\ bank.from = got /\ bank.upto = sent
  BY <1>1, <1>2 DEF InStepWithHost
<1>4. /\ image \in Image /\ got \in Nat /\ sent \in Nat /\ bank \in Packet
  BY <1>1 DEF ControlInv, ControlTypes, Batches
<1>5. /\ Size(xfer) \in Nat \ {0} /\ xfer.w_length \in Nat \ {0}
      /\ Goal = Least(Size(xfer), xfer.w_length) /\ Goal \in Nat \ {0}
  BY <1>3, <1>4, GetFacts DEF Goal
<1>6. /\ n \in Nat /\ got + n <= sent /\ n <= 8
      /\ (n < 8 => got + n = sent)
      /\ (bank.from + n = bank.upto <=> got + n = sent)
  BY <1>3, <1>4, PacketSize DEF Least
<1> HIDE DEF n
<1>7. NeedsZlp <=> Size(xfer) % 8 = 0
  BY <1>3, PacketSize DEF NeedsZlp
<1>8. /\ Gets(xfer)' = Gets(xfer) /\ Goal' = Goal /\ NeedsZlp' = NeedsZlp
  BY <1>1, SameImage DEF Gets, Size
<1>9. pc = "data_in" => n = 8 /\ sent < Goal /\ sent % 8 = 0 /\ got < sent
  <2>1. SUFFICES ASSUME pc = "data_in" PROVE n = 8 /\ sent < Goal /\ sent % 8 = 0 /\ got < sent
    OBVIOUS
  <2>2. sent < Goal /\ sent % 8 = 0 /\ got < sent
    BY <1>1, <1>2, <2>1 DEF ControlInv, Batches, InStepWithHost
  <2>3. sent - got >= 8
    BY <1>3, <1>4, <2>2
  <2>4. n = 8
    BY <1>3, <1>4, <1>6, <2>3
  <2>5. QED
    BY <2>2, <2>4
<1>10. pc # "data_in" => sent = Goal
  BY <1>2 DEF InStepWithHost
<1>11. sent <= Goal
  BY <1>4, <1>5, <1>9, <1>10
<1>12. Goal <= xfer.w_length /\ (Goal < xfer.w_length => Goal = Size(xfer))
  BY <1>5 DEF Least
<1>13. stage' = "status" => got' = Goal /\ pc # "data_in"
  <2>1. SUFFICES ASSUME stage' = "status" PROVE got' = Goal /\ pc # "data_in"
    OBVIOUS
  <2>2. n < 8 \/ got + n >= xfer.w_length
    BY <1>1, <2>1
  <2>3. CASE n < 8
    BY <1>1, <1>6, <1>9, <1>10, <2>3
  <2>4. CASE got + n >= xfer.w_length
    BY <1>1, <1>4, <1>5, <1>6, <1>9, <1>11, <1>12, <2>4
  <2>5. QED
    BY <2>2, <2>3, <2>4
<1>14. stage' = "data" => n = 8 /\ got' % 8 = 0 /\ got' < xfer.w_length
  BY <1>1, <1>3, <1>4, <1>5, <1>6
<1>15. bank' = None => got' = sent
  <2>1. CASE got + n = sent
    BY <1>1, <2>1
  <2>2. CASE got + n # sent
    <3>1. bank' = [bank EXCEPT !.from = bank.from + n]
      BY <1>1, <1>6, <2>2
    <3>2. bank' # None
      BY <1>4, <1>6, <3>1, BankIsPacket
    <3>3. QED
      BY <3>2
  <2>3. QED
    BY <2>1, <2>2
<1>16. bank' # None => /\ bank'.of = xfer.desc /\ bank'.from = got' /\ bank'.upto = sent
                       /\ got' < sent
  <2>1. SUFFICES ASSUME bank' # None
                 PROVE  /\ bank'.of = xfer.desc /\ bank'.from = got' /\ bank'.upto = sent
                        /\ got' < sent
    OBVIOUS
  <2>2. got + n # sent /\ bank' = [bank EXCEPT !.from = bank.from + n]
    BY <1>1, <1>6, <2>1
  <2>3. bank'.of = bank.of /\ bank'.from = bank.from + n /\ bank'.upto = bank.upto
    BY <1>4, <2>2 DEF Packet
  <2>4. QED
    BY <1>1, <1>3, <1>4, <1>6, <2>2, <2>3
<1>17. pc = "status_out" /\ stage' = "data" => bank' # None /\ (got' < sent => ~NeedsZlp)
  <2>1. SUFFICES ASSUME pc = "status_out", stage' = "data"
                 PROVE  bank' # None /\ (got' < sent => ~NeedsZlp)
    OBVIOUS
  <2>2. n = 8 /\ got < sent /\ ~NeedsZlp
    <3>1. n = 8
      BY <1>14, <2>1
    <3>2. got < sent
      BY <1>4, <1>6, <3>1
    <3>3. QED
      BY <1>1, <1>2, <2>1, <3>1, <3>2 DEF InStepWithHost
  <2>3. bank' # None
    <3>1. SUFFICES ASSUME bank' = None PROVE FALSE
      OBVIOUS
    <3>2. got' = Goal
      BY <1>10, <1>15, <2>1, <3>1
    <3>3. Goal = Size(xfer) /\ Goal % 8 = 0
      BY <1>5, <1>12, <1>14, <2>1, <3>2
    <3>4. QED
      BY <1>7, <2>2, <3>3
  <2>4. QED
    BY <2>2, <2>3
<1>18. got' <= sent /\ got' \in Nat
  BY <1>1, <1>4, <1>6
<1>19. pc = "data_in" => stage' = "data"
  BY <1>1, <1>13
<1>20. InStepWithHost'
  <2>1. pc \in {"data_in", "zlp_wait", "status_out"} /\ ~out0 /\ stage' \in {"data", "status"}
    BY <1>1, <1>2 DEF InStepWithHost
  <2>2. QED
    BY <1>1, <1>3, <1>8, <1>10, <1>13, <1>14, <1>15, <1>16, <1>17, <1>18, <1>19, <2>1
       DEF InStepWithHost
<1>21. ~torn' /\ setup' = None /\ ~stall0'
  BY <1>1, <1>2, <1>3 DEF Listening
<1>22. QED
  BY <1>20, <1>21 DEF ReadInv

LEMMA ReadStep == ControlInv /\ ReadInv /\ [EnumNext]_enumvars => ReadInv'
<1> SUFFICES ASSUME ControlInv, ReadInv, [EnumNext]_enumvars PROVE ReadInv'
  OBVIOUS
<1>1. CASE Serve
  BY <1>1, ReadProcess, ReadCommit, ReadZlp, ReadServe DEF Serve
<1>2. CASE hid_flush \/ HostPolls \/ UNCHANGED enumvars
  <2>1. /\ image' = image /\ setup' = setup /\ bank' = bank /\ out0' = out0 /\ stall0' = stall0
        /\ pc' = pc /\ req' = req /\ sent' = sent /\ xfer' = xfer /\ stage' = stage
        /\ got' = got /\ torn' = torn
    BY <1>2 DEF hid_flush, HostPolls, enumvars, ep0, handler, host
  <2>2. Gets(xfer)' = Gets(xfer) /\ Goal' = Goal /\ NeedsZlp' = NeedsZlp
    BY <2>1, SameImage DEF Gets, Size
  <2>3. InStepWithHost => InStepWithHost'
    BY <2>1, <2>2 DEF InStepWithHost
  <2>4. Reading' = Reading /\ Listening' = Listening
    BY <2>1 DEF Reading, Listening
  <2>5. QED
    BY <2>1, <2>3, <2>4 DEF ReadInv
<1>3. CASE Reset
  BY <1>3, ReadEnds DEF Reset, ep_clear_setup
<1>4. CASE HostReadsData
  BY <1>4, ReadPacket
<1>5. CASE HostSendsStatus \/ HostReadsStatus \/ HostSeesStall
  <2>1. setup' = None /\ xfer' = None /\ torn' = torn
    BY <1>5 DEF HostSendsStatus, HostReadsStatus, HostSeesStall, Listening, Idle, ep0
  <2>2. QED
    BY <2>1, ReadEnds
<1>6. CASE HostSendsData
  <2>1. setup' = None /\ xfer' = xfer /\ torn' = torn /\ ~Reading
    BY <1>6 DEF HostSendsData, Listening
  <2>2. ~Reading'
    BY <2>1 DEF Reading
  <2>3. QED
    BY <2>1, <2>2 DEF ReadInv
<1>7. ASSUME NEW r \in Plan(image, step), HostSetup(r) PROVE ReadInv'
  <2>1. /\ setup' = r /\ xfer' = r /\ got' = 0 /\ torn' = torn
        /\ stage' = IF r.kind \in {"GET", "SET_REPORT"} THEN "data" ELSE "status"
    BY <1>7 DEF HostSetup
  <2>2. r # None
    BY AskedOnce, AskedFacts DEF ControlInv, ControlTypes
  <2>3. ~Listening'
    BY <2>1, <2>2 DEF Listening
  <2>4. Reading' => stage' = "data"
    BY <2>1 DEF Reading
  <2>5. QED
    BY <2>1, <2>3, <2>4 DEF ReadInv
<1>8. QED
  BY <1>1, <1>2, <1>3, <1>4, <1>5, <1>6, <1>7 DEF EnumNext, HostTransfer

LEMMA ReadInit == EnumInit => ReadInv
  BY DEF EnumInit, ReadInv, Reading

LEMMA EnumInvariant == EnumSpec => [](ControlInv /\ ReadInv)
  BY ControlInit, ControlStep, ReadInit, ReadStep, PTL DEF EnumSpec

(* What every variable of the control pipe and of the pipes can hold, for every
   table of endpoints: a batch never exceeds the bank (usb_ep_stream.c:31-119,
   usb_ctrl.c:101-289). *)
THEOREM EnumTypeCorrect == EnumSpec => []EnumTypeOK
<1>1. EnumSpec => []EpTypeOK
  BY ImplementsEndpoints, EndpointsTypeOK, PTL
<1>2. EpTypeOK /\ ControlInv /\ ReadInv => EnumTypeOK
  <2> SUFFICES ASSUME EpTypeOK, ControlInv, ReadInv PROVE EnumTypeOK
    OBVIOUS
  <2>1. image \in Image
    BY DEF ControlInv, ControlTypes
  <2>2. \A r \in Asked : r \in Request
    BY <2>1, AskedFacts
  <2>3. out0 \in BOOLEAN /\ stall0 \in BOOLEAN /\ torn = FALSE
    BY DEF ControlInv, ControlTypes, ReadInv
  <2>4. {out0, stall0, torn} \subseteq BOOLEAN
    BY <2>3, Zenon
  <2>5. bank # None => bank.from <= bank.upto /\ bank.upto - bank.from <= EP_MAX_SIZE
    BY DEF ControlInv, Batches
  <2>6. /\ setup \in Request \cup {None} /\ req \in Request \cup {None}
        /\ xfer \in Request \cup {None}
    BY <2>2 DEF ControlInv, ControlTypes
  <2>7. QED
    BY <2>1, <2>4, <2>5, <2>6 DEF EnumTypeOK, ControlInv, ControlTypes
<1>3. QED
  BY <1>1, <1>2, EnumInvariant, PTL

(* Every read of a descriptor, report or serial number ends with exactly the
   bytes asked for or with a stall, through aborted transfers, resets, batches
   and zero-length packets, for every table of endpoints (usb_ep_stream.c:
   31-119). *)
THEOREM ReadsAreExact == EnumSpec => []ReadsExact
<1>1. ControlInv /\ ReadInv => ReadsExact
  <2> SUFFICES ASSUME ControlInv, ReadInv PROVE ReadsExact
    OBVIOUS
  <2>1. ASSUME Reading, stage = "status" PROVE got = Least(Size(xfer), xfer.w_length)
    <3>1. setup = None
      BY <2>1 DEF ReadInv, Reading
    <3>2. ~stall0
      BY <2>1 DEF ReadInv
    <3>3. InStepWithHost
      BY <2>1, <3>1, <3>2 DEF ReadInv, Listening
    <3>4. QED
      BY <2>1, <3>3 DEF InStepWithHost, Goal
  <2>2. ASSUME Reading, stage = "data", Listening, pc = "status_out" PROVE bank # None
    BY <2>2 DEF ReadInv, InStepWithHost
  <2>3. QED
    BY <2>1, <2>2 DEF ReadsExact, ReadInv
<1>2. QED
  BY <1>1, EnumInvariant, PTL

------------------------------------------------------------------------------
(* Which endpoints are up. *)

(* All endpoints as hid_configure() leaves them after a reset, and off. *)
Configured   == [e \in Endpoint |-> IF e \in Pipe THEN ep_configure(e) ELSE Disabled]
Unconfigured == [e \in Endpoint |-> Disabled]

(* The endpoints have the types and the banks of r. *)
Laid(r) == \A e \in Endpoint : ep[e].type = r[e].type /\ ep[e].size = r[e].size

SameLayout == \A e \in Endpoint : ep'[e].type = ep[e].type /\ ep'[e].size = ep[e].size

(* A SET_CONFIGURATION is under way: the handler has not answered it, or has
   done so and is about to configure. *)
Configuring ==
  \/ pc = "status_in" /\ req = xfer /\ bank = None
  \/ pc = "configure"

LayoutInv ==
  /\ Laid(Unconfigured) \/ (image = "app" /\ Laid(Configured))
  /\ xfer # None => xfer \in Plan(image, step)
  /\ image = "app" /\ step > 6 => Laid(Configured) \/ pc = "configure"
  /\ image = "app" /\ xfer = SetConfiguration /\ Listening => Laid(Configured) \/ Configuring

LEMMA LaidKept == SameLayout => \A r : Laid(r) => Laid(r)'
  BY DEF SameLayout, Laid

(* The packets and the halts of a pipe leave its type and its bank alone. *)
LEMMA LayoutKept ==
  ASSUME EpTypeOK, NEW e,
         \/ ep_clear_in(e) \/ ep_clear_out(e) \/ Transaction(e)
         \/ SetHalt(e) \/ ClearHalt(e)
  PROVE  SameLayout
<1>1. ep \in [Endpoint -> Register]
  BY DEF EpTypeOK
<1>2. CASE ep_clear_in(e) \/ ep_clear_out(e) \/ SetHalt(e) \/ ClearHalt(e)
  BY <1>1, <1>2 DEF ep_clear_in, ep_clear_out, SetHalt, ClearHalt, SameLayout, Register
<1>3. CASE Transaction(e)
  <2> DEFINE Toggle(acked) == Flip(ep[e].toggle, IF e.dir = "IN" THEN acked ELSE IsNew(e))
             Full(acked)   == IF e.dir = "IN" THEN ~acked ELSE IsNew(e)
  <2>1. PICK acked \in BOOLEAN :
               ep' = [ep EXCEPT ![e].toggle = Toggle(acked), ![e].full = Full(acked)]
    BY <1>3 DEF Transaction
  <2> HIDE DEF Toggle, Full
  <2>2. QED
    BY <1>1, <2>1 DEF SameLayout, Register
<1>4. QED
  BY <1>2, <1>3

(* hid_configure(), on endpoints that are off or as it left them before. *)
LEMMA ConfigureLays ==
  ASSUME hid_configure, Laid(Unconfigured) \/ Laid(Configured)
  PROVE  Laid(Configured)'
<1>1. ASSUME NEW e \in Endpoint
      PROVE  ep'[e].type = Configured[e].type /\ ep'[e].size = Configured[e].size
  <2>1. CASE e \in Pipe
    BY <2>1 DEF hid_configure, Configured
  <2>2. CASE e \notin Pipe
    <3>1. ep'[e] = ep[e]
      BY <2>2 DEF hid_configure
    <3>2. Configured[e] = Disabled /\ Unconfigured[e] = Disabled
      BY <2>2 DEF Configured, Unconfigured
    <3>3. QED
      BY <3>1, <3>2 DEF Laid
  <2>3. QED
    BY <2>1, <2>2
<1>2. QED
  BY <1>1 DEF Laid, Configured

(* The sixth step of the plan is the configuration. *)
LEMMA ConfiguredLast ==
  ASSUME image \in Image, step \in 1..InUse, NEW r \in Plan(image, step), step = 6
  PROVE  r = SetConfiguration
  BY DEF Plan, InUse

LEMMA ConfigurationIsSome == None # SetConfiguration
<1>1. SetConfiguration \in Plan("app", 6)
  BY DEF Plan, InUse
<1>2. SetConfiguration \in Request
  BY <1>1 DEF Request, Image, InUse
<1>3. QED
  BY <1>2, NoneAssumption

LEMMA LayoutInit == EnumInit => LayoutInv
<1> SUFFICES ASSUME EnumInit PROVE LayoutInv
  OBVIOUS
<1>1. Laid(Unconfigured)
  BY DEF EnumInit, EpInit, Laid, Unconfigured
<1>2. xfer = None /\ step = 1
  BY DEF EnumInit
<1>3. QED
  BY <1>1, <1>2, ConfigurationIsSome DEF LayoutInv

LEMMA LayoutStep ==
  ControlInv /\ ReadInv /\ EpTypeOK /\ LayoutInv /\ [EnumNext]_enumvars => LayoutInv'
<1> SUFFICES ASSUME ControlInv, ReadInv, EpTypeOK, LayoutInv, [EnumNext]_enumvars
             PROVE  LayoutInv'
  OBVIOUS
<1> USE DEF LayoutInv
<1>1. image \in Image /\ step \in 1..InUse /\ stall0 \in BOOLEAN
  BY DEF ControlInv, ControlTypes
<1>2. setup # None => xfer = setup
  BY DEF ReadInv
<1>3. ASSUME UNCHANGED epvars PROVE SameLayout
  BY <1>3 DEF epvars, pipes, SameLayout
<1>4. CASE Process
  <2>1. SameLayout
    <3>1. CASE UNCHANGED epvars
      BY <3>1, <1>3
    <3>2. CASE ~UNCHANGED epvars
      <4>1. SetHalt(setup.ep) \/ ClearHalt(setup.ep)
        BY <1>4, <3>2 DEF Process
      <4>2. QED
        BY <4>1, LayoutKept
    <3>3. QED
      BY <3>1, <3>2
  <2>2. UNCHANGED <<image, step, xfer>> /\ pc = "poll" /\ setup # None
    BY <1>4 DEF Process, host
  <2>3. \/ stall0' = TRUE
        \/ /\ bank' = None /\ req' = setup
           /\ setup = SetConfiguration => pc' = "status_in"
    BY <1>4 DEF Process, StallSetup, ep_clear_setup, SetConfiguration
  <2>4. QED
    BY <2>1, <2>2, <2>3, <1>2, LaidKept DEF Listening, Configuring
<1>5. CASE ConfigChanged
  <2>1. UNCHANGED <<image, step, xfer>> /\ pc = "configure" /\ pc' = "tail"
    BY <1>5 DEF ConfigChanged, host
  <2>2. CASE image = "app"
    BY <1>5, <2>1, <2>2, ConfigureLays DEF ConfigChanged
  <2>3. CASE image # "app"
    <3>1. SameLayout
      BY <1>5, <2>3, <1>3 DEF ConfigChanged
    <3>2. QED
      BY <3>1, <2>1, <2>3, LaidKept
  <2>4. QED
    BY <2>2, <2>3
<1>6. CASE CommitStatus
  <2>1. SameLayout /\ UNCHANGED <<image, step, xfer, setup, stall0, req>> /\ pc = "status_in"
    BY <1>6, <1>3 DEF CommitStatus, host
  <2>2. req = SetConfiguration => pc' = "configure"
    BY <1>6 DEF CommitStatus, SetConfiguration
  <2>3. QED
    BY <2>1, <2>2, LaidKept DEF Listening, Configuring
<1>7. CASE StallLeftover
  <2>1. SameLayout /\ UNCHANGED <<image, step, xfer>> /\ pc = "tail"
    BY <1>7, <1>3 DEF StallLeftover, host
  <2>2. \/ stall0' = TRUE
        \/ UNCHANGED <<setup, stall0>>
    BY <1>7 DEF StallLeftover, StallSetup, ep0
  <2>3. QED
    BY <2>1, <2>2, LaidKept DEF Listening, Configuring
<1>8. CASE Commit \/ Aborted \/ CommitZlp \/ WaitOut
  <2>1. SameLayout /\ UNCHANGED <<image, step, xfer, setup, stall0>>
    BY <1>8, <1>3 DEF Commit, Aborted, CommitZlp, WaitOut, host, ep0
  <2>2. pc \notin {"status_in", "configure"}
    BY <1>8 DEF Commit, Aborted, CommitZlp, WaitOut
  <2>3. QED
    BY <2>1, <2>2, LaidKept DEF Listening, Configuring
<1>9. CASE hid_flush \/ HostPolls
  <2>1. UNCHANGED <<image, ep0, handler, host>>
    BY <1>9 DEF hid_flush, HostPolls
  <2>2. SameLayout
    <3>1. PICK e \in Driven : ep_clear_in(e) \/ ep_clear_out(e) \/ Transaction(e)
      BY <1>9 DEF hid_flush, HostPolls
    <3>2. QED
      BY <3>1, LayoutKept
  <2>3. UNCHANGED <<image, step, xfer, setup, stall0, pc, req, bank>>
    BY <2>1 DEF ep0, handler, host
  <2>4. QED
    BY <2>2, <2>3, LaidKept DEF Listening, Configuring
<1>10. CASE Reset
  <2>1. image' = image /\ step' = 1 /\ xfer' = None
    BY <1>10 DEF Reset
  <2>2. Laid(Unconfigured)'
    BY <1>10 DEF Reset, ep_clear_all, Laid, Unconfigured
  <2>3. QED
    BY <2>1, <2>2, ConfigurationIsSome
<1>11. ASSUME NEW r \in Plan(image, step), HostSetup(r) PROVE LayoutInv'
  <2>1. SameLayout /\ UNCHANGED <<image, step, pc>> /\ setup' = r /\ xfer' = r
    BY <1>11, <1>3 DEF HostSetup, handler
  <2>2. r # None
    BY <1>1, AskedOnce, AskedFacts
  <2>3. QED
    BY <2>1, <2>2, LaidKept DEF Listening
<1>12. CASE HostReadsData \/ HostSendsData
  <2>1. SameLayout /\ UNCHANGED <<image, step, pc, req, xfer, setup, stall0>>
    BY <1>12, <1>3 DEF HostReadsData, HostSendsData, handler
  <2>2. xfer = SetConfiguration => UNCHANGED bank
    BY <1>12 DEF HostReadsData, HostSendsData, Reading, SetConfiguration
  <2>3. QED
    BY <2>1, <2>2, LaidKept DEF Listening, Configuring
<1>13. CASE HostSendsStatus
  <2>1. SameLayout /\ UNCHANGED <<image, pc>> /\ xfer' = None /\ GoOn /\ Reading
    BY <1>13, <1>3 DEF HostSendsStatus, handler, Idle
  <2>2. step # 6
    BY <2>1, <1>1, ConfiguredLast DEF Reading, SetConfiguration
  <2>3. step' > 6 => step > 6
    BY <2>1, <2>2, <1>1 DEF GoOn, Least, InUse
  <2>4. QED
    BY <2>1, <2>3, LaidKept, ConfigurationIsSome
<1>14. CASE HostReadsStatus
  <2>1. UNCHANGED <<image, pc>> /\ xfer' = None /\ GoOn /\ Listening /\ xfer # None /\ bank # None
    BY <1>14 DEF HostReadsStatus, handler, Idle
  <2>2. SameLayout
    <3>1. CASE UNCHANGED epvars
      BY <3>1, <1>3
    <3>2. CASE ep' = ep
      BY <3>2 DEF SameLayout
    <3>3. QED
      BY <1>14, <3>1, <3>2 DEF HostReadsStatus, HostConfigured, HostHaltCleared
  <2>3. image = "app" /\ step = 6 => Laid(Configured) \/ pc = "configure"
    BY <2>1, <1>1, ConfiguredLast DEF Configuring
  <2>4. step' > 6 => step >= 6
    BY <2>1, <1>1 DEF GoOn, Least, InUse
  <2>5. image = "app" /\ step' > 6 => Laid(Configured) \/ pc = "configure"
    BY <2>3, <2>4, <1>1 DEF InUse
  <2>6. QED
    BY <2>1, <2>2, <2>5, LaidKept, ConfigurationIsSome
<1>15. CASE HostSeesStall
  <2>1. SameLayout /\ UNCHANGED <<image, pc, step>> /\ xfer' = None
    BY <1>15, <1>3 DEF HostSeesStall, handler, Idle
  <2>2. QED
    BY <2>1, LaidKept, ConfigurationIsSome
<1>16. CASE UNCHANGED enumvars
  BY <1>16, <1>3, LaidKept DEF enumvars, ep0, handler, host, Listening, Configuring
<1>17. QED
  BY <1>4, <1>5, <1>6, <1>7, <1>8, <1>9, <1>10, <1>11, <1>12, <1>13, <1>14, <1>15, <1>16
  DEF EnumNext, Serve, HostTransfer

(* The tables agree: the descriptors with each other, those of the application
   with hid_configure(), and those of the bootloader with no endpoint at all. *)
TablesAgree ==
  /\ DescriptorsAgree
  /\ EndpointsFit("app", Configured) /\ EndpointsFit("bl", Unconfigured)

(* Whether the descriptors fit depends on the types and the banks alone. *)
LEMMA FitOfLayout ==
  ASSUME NEW i, NEW r, Laid(r), EndpointsFit(i, r) PROVE EndpointsFit(i, ep)
<1> DEFINE cfg == cfg_desc[i]
           Address(n) == cfg[n].b_endpoint_address
<1>1. {Address(n) : n \in EndpointsOf(cfg)} = {e \in Endpoint : r[e].type # "off"}
  BY DEF EndpointsFit
<1>2. \A n \in EndpointsOf(cfg) : Address(n) \in Endpoint
  BY <1>1
<1>3. {Address(n) : n \in EndpointsOf(cfg)} = {e \in Endpoint : ep[e].type # "off"}
  BY <1>1 DEF Laid
<1>4. \A n \in EndpointsOf(cfg) : ep[Address(n)].size = r[Address(n)].size
  BY <1>2 DEF Laid
<1>5. QED
  BY <1>3, <1>4 DEF EndpointsFit

(* Once the tables agree, so do the descriptors and the endpoints of every
   device that is configured and at rest, through resets, halts, aborted
   requests and configurations in any order (usb_ctrl.c:101-289,
   usb_hid.c:53-56, usb_ep.c). *)
THEOREM EndpointsMatchDescriptors ==
  ASSUME TablesAgree PROVE EnumSpec => []EndpointsAsDeclared
<1>1. ControlInv /\ LayoutInv => EndpointsAsDeclared
  <2> SUFFICES ASSUME ControlInv, LayoutInv, step = InUse, pc = "poll"
               PROVE  EndpointsFit(image, ep)
    BY DEF TablesAgree, EndpointsAsDeclared
  <2>1. CASE image = "app"
    BY <2>1, FitOfLayout DEF LayoutInv, InUse, TablesAgree
  <2>2. CASE image = "bl"
    BY <2>2, FitOfLayout DEF LayoutInv, TablesAgree
  <2>3. QED
    BY <2>1, <2>2 DEF ControlInv, ControlTypes, Image
<1>2. EndpointsSpec => []EpTypeOK
  BY EndpointsTypeOK
<1>3. QED
  BY <1>1, <1>2, EnumInvariant, ImplementsEndpoints, LayoutInit, LayoutStep, PTL DEF EnumSpec
=============================================================================
