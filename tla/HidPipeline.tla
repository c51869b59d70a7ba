----------------------------- MODULE HidPipeline -----------------------------
(***************************************************************************)
(* The way of a report from keyboard_task() to the host: the main loop of  *)
(* app_main.c (hid_flush, usb_ctrl_poll, keyboard_task) cut where the      *)
(* bus-event interrupt can make a difference, the report queue of          *)
(* ReportQueue, the consumer buffer, and a host that polls EP1 and EP2.    *)
(*                                                                         *)
(* Reports are stamped in the order of their staging, Zero is 0.  Control  *)
(* requests are one step here; module UsbDevice takes them apart.          *)
(***************************************************************************)
EXTENDS ReportQueue

CONSTANT MaxStaged     \* reports staged in a behaviour

ASSUME PipelineAssumption ==
  /\ MaxStaged \in Nat
  /\ Report = 0..MaxStaged /\ Zero = 0

VARIABLES
  usb_device_state,    \* DEFAULT stands for every state but these two
  usb_config_num,
  ep_enabled,          \* EP1 and EP2 configured since the last bus reset
  usb_ep_selected,     \* the endpoint number that ep_select() chose last
  s_wakeup_pending,
  s_con_buf,           \* the consumer report
  ep2_in,              \* the report armed in EP2 IN, or NoReport
  host_con,            \* the consumer report the host has
  pc,                  \* where the main loop stands
  staged,              \* reports staged so far
  due,                 \* (ghost) reports accepted and not yet received
  baseline_due,        \* (ghost) the zero report of handle_wakeup is queued
  stale                \* (ghost) the bus resumed and nothing was discarded yet

dev   == <<usb_device_state, usb_config_num, ep_enabled>>
con   == <<s_con_buf, ep2_in, host_con>>
ghost == <<due, baseline_due, stale>>
pvars == <<qvars, dev, usb_ep_selected, s_wakeup_pending, con, pc, staged, ghost>>

ConReport == {0, 1}    \* nothing, or a usage

PipelineInit ==
  /\ QueueInit
  /\ usb_device_state = "DEFAULT" /\ usb_config_num = 0
  /\ ep_enabled = FALSE /\ usb_ep_selected = 0
  /\ s_wakeup_pending = FALSE
  /\ s_con_buf = 0 /\ ep2_in = NoReport /\ host_con = 0
  /\ pc = "test_wakeup"
  /\ staged = 0
  /\ due = <<>> /\ baseline_due = FALSE
  /\ stale = FALSE

Goto(here, there) == pc = here /\ pc' = there

InFlight == IF ep1_in = NoReport THEN <<>> ELSE <<ep1_in>>

------------------------------------------------------------------------------
(* handle_wakeup: test the flag, clear it, then empty the queue. *)
TestWakeup ==
  /\ Goto("test_wakeup", IF s_wakeup_pending THEN "clear_wakeup" ELSE "test_state")
  /\ UNCHANGED <<qvars, dev, usb_ep_selected, s_wakeup_pending, con, staged, ghost>>

ClearWakeup ==
  /\ Goto("clear_wakeup", "discard")
  /\ s_wakeup_pending' = FALSE
  /\ UNCHANGED <<qvars, dev, usb_ep_selected, con, staged, ghost>>

Discard ==
  /\ Goto("discard", "test_state")
  /\ WakeupReset
  /\ s_con_buf' = 0
  /\ due' = Append(InFlight, Zero)
  /\ baseline_due' = TRUE /\ stale' = FALSE
  /\ UNCHANGED <<dev, usb_ep_selected, s_wakeup_pending, ep2_in, host_con, staged>>

(* Mutant: an empty keyboard queue ends the whole flush. *)
EmptyEndsFlush ==
  /\ Goto("test_state", IF usb_device_state # "CONFIGURED" \/ Empty
                        THEN "ctrl_poll" ELSE "select_kbd")
  /\ UNCHANGED <<qvars, dev, usb_ep_selected, s_wakeup_pending, con, staged, ghost>>

(* hid_flush goes on only in the configured state; flush_kbd only if the
   queue holds something. *)
TestState ==
  /\ Goto("test_state", IF usb_device_state # "CONFIGURED" THEN "ctrl_poll"
                        ELSE IF Empty THEN "select_con" ELSE "select_kbd")
  /\ UNCHANGED <<qvars, dev, usb_ep_selected, s_wakeup_pending, con, staged, ghost>>

SelectKbd ==
  /\ Goto("select_kbd", "kbd_ready")
  /\ usb_ep_selected' = 1
  /\ UNCHANGED <<qvars, dev, s_wakeup_pending, con, staged, ghost>>

(* Mutant: the endpoint is always taken to be ready. *)
AlwaysReady(bank) == TRUE

(* ep_in_ready() looks at the selected endpoint, whichever that is by now;
   EP0 IN is free after a bus reset. *)
ep_in_ready(bank) == usb_ep_selected = 0 \/ bank = NoReport

KbdReady ==
  /\ Goto("kbd_ready", IF ep_in_ready(ep1_in) THEN "write_kbd" ELSE "select_con")
  /\ UNCHANGED <<qvars, dev, usb_ep_selected, s_wakeup_pending, con, staged, ghost>>

(* ep_write_stream, whose result is not looked at, and ep_clear_in. *)
WriteKbd ==
  /\ Goto("write_kbd", "pop_kbd")
  /\ ep1_in' = IF usb_ep_selected = 1 THEN Front.report ELSE ep1_in
  /\ UNCHANGED <<ring, host_kbd, dev, usb_ep_selected, s_wakeup_pending, con, staged, ghost>>

PopKbd ==
  /\ Goto("pop_kbd", "select_con")
  /\ kbd_queue_head' = NextIndex(kbd_queue_head)
  /\ baseline_due' = FALSE
  /\ UNCHANGED <<kbd_queue, kbd_queue_tail, ep1_in, host_kbd, dev, usb_ep_selected,
                 s_wakeup_pending, con, staged, due, stale>>

(* flush_consumer: the same three steps on EP2, with nothing to pop. *)
SelectCon ==
  /\ Goto("select_con", "con_ready")
  /\ usb_ep_selected' = 2
  /\ UNCHANGED <<qvars, dev, s_wakeup_pending, con, staged, ghost>>

ConReady ==
  /\ Goto("con_ready", IF ep_in_ready(ep2_in) THEN "write_con" ELSE "ctrl_poll")
  /\ UNCHANGED <<qvars, dev, usb_ep_selected, s_wakeup_pending, con, staged, ghost>>

WriteCon ==
  /\ Goto("write_con", "ctrl_poll")
  /\ ep2_in' = IF usb_ep_selected = 2 THEN s_con_buf ELSE ep2_in
  /\ UNCHANGED <<qvars, dev, usb_ep_selected, s_wakeup_pending, s_con_buf, host_con, staged,
                 ghost>>

(* usb_ctrl_poll with nothing that concerns the reports. *)
PollCtrl ==
  /\ Goto("ctrl_poll", "tick")
  /\ UNCHANGED <<qvars, dev, usb_ep_selected, s_wakeup_pending, con, staged, ghost>>

(* usb_ctrl_poll with a SET_CONFIGURATION: hid_configure(). *)
Configure(n) ==
  /\ Goto("ctrl_poll", "tick")
  /\ usb_device_state # "SUSPENDED"
  /\ usb_config_num' = n
  /\ usb_device_state' = IF n # 0 THEN "CONFIGURED" ELSE "DEFAULT"
  /\ ConfigureReset /\ ep_enabled' = TRUE
  /\ s_con_buf' = 0 /\ ep2_in' = NoReport
  /\ due' = <<>> /\ baseline_due' = FALSE /\ stale' = FALSE
  /\ UNCHANGED <<usb_ep_selected, s_wakeup_pending, host_con, staged>>

(* keyboard_task: any number of kbd_stage() and hid_consumer_stage() calls. *)
StageKbd ==
  /\ pc = "tick" /\ staged < MaxStaged
  /\ staged' = staged + 1
  /\ hid_kbd_stage(staged')
  /\ due' = IF Full THEN due ELSE Append(due, staged')
  /\ UNCHANGED <<dev, usb_ep_selected, s_wakeup_pending, con, pc, baseline_due, stale>>

hid_consumer_stage ==
  /\ pc = "tick"
  /\ \E r \in ConReport : s_con_buf' = r
  /\ UNCHANGED <<qvars, dev, usb_ep_selected, s_wakeup_pending, ep2_in, host_con, pc, staged,
                 ghost>>

EndLoop ==
  /\ Goto("tick", "test_wakeup")
  /\ UNCHANGED <<qvars, dev, usb_ep_selected, s_wakeup_pending, con, staged, ghost>>

hid_flush ==
  \/ TestWakeup \/ ClearWakeup \/ Discard \/ TestState
  \/ SelectKbd \/ KbdReady \/ WriteKbd \/ PopKbd \/ SelectCon \/ ConReady \/ WriteCon

Staging == StageKbd \/ hid_consumer_stage

------------------------------------------------------------------------------
(* USB0_BUSEVENT_vect: a step between any two of the main loop. *)
Suspend ==
  /\ usb_device_state # "SUSPENDED" /\ usb_device_state' = "SUSPENDED"
  /\ UNCHANGED <<qvars, usb_config_num, ep_enabled, usb_ep_selected, s_wakeup_pending, con, pc,
                 staged, ghost>>

(* Mutant: usb_event_wakeup() does nothing. *)
WakeupForgotten == UNCHANGED s_wakeup_pending

usb_event_wakeup == s_wakeup_pending' = TRUE

Resume ==
  /\ usb_device_state = "SUSPENDED"
  /\ usb_device_state' = IF usb_config_num # 0 THEN "CONFIGURED" ELSE "DEFAULT"
  /\ usb_event_wakeup
  /\ stale' = TRUE
  /\ UNCHANGED <<qvars, usb_config_num, ep_enabled, usb_ep_selected, con, pc, staged, due, baseline_due>>

(* Bus reset: endpoints off, EP0 configured and left selected. *)
Reset ==
  /\ EndpointReset
  /\ ep2_in' = NoReport /\ host_con' = 0
  /\ usb_device_state' = "DEFAULT" /\ usb_config_num' = 0
  /\ ep_enabled' = FALSE /\ usb_ep_selected' = 0
  /\ due' = <<>> /\ stale' = FALSE
  /\ UNCHANGED <<s_wakeup_pending, s_con_buf, pc, staged, baseline_due>>

BusEvent == Suspend \/ Resume \/ Reset

(* The host polls the interrupt endpoints of a configured device while the
   bus is not suspended. *)
Polled == ep_enabled /\ usb_device_state # "SUSPENDED"

PollKbd ==
  /\ Polled
  /\ HostPoll
  /\ due' = Tail(due)
  /\ UNCHANGED <<dev, usb_ep_selected, s_wakeup_pending, con, pc, staged, baseline_due, stale>>

PollCon ==
  /\ Polled /\ ep2_in # NoReport
  /\ host_con' = ep2_in /\ ep2_in' = NoReport
  /\ UNCHANGED <<qvars, dev, usb_ep_selected, s_wakeup_pending, s_con_buf, pc, staged, ghost>>

Disturbance == Staging \/ BusEvent \/ (\E n \in {0, 1} : Configure(n))

PipelineNext == hid_flush \/ PollCtrl \/ EndLoop \/ PollKbd \/ PollCon \/ Disturbance

PipelineSpec == PipelineInit /\ [][PipelineNext]_pvars

(* The main loop runs on and the host goes on polling. *)
FairPipelineSpec ==
  /\ PipelineSpec
  /\ WF_pvars(hid_flush \/ PollCtrl \/ EndLoop)
  /\ WF_pvars(PollKbd) /\ WF_pvars(PollCon)

------------------------------------------------------------------------------
PipelineTypeOK ==
  /\ TypeOK
  /\ usb_device_state \in {"DEFAULT", "CONFIGURED", "SUSPENDED"} /\ usb_config_num \in {0, 1}
  /\ usb_ep_selected \in 0..2
  /\ s_wakeup_pending \in BOOLEAN
  /\ s_con_buf \in ConReport /\ host_con \in ConReport
  /\ ep2_in \in ConReport \cup {NoReport}
  /\ pc \in {"test_wakeup", "clear_wakeup", "discard", "test_state", "select_kbd",
             "kbd_ready", "write_kbd", "pop_kbd", "select_con", "con_ready", "write_con",
             "ctrl_poll", "tick"}
  /\ pc \in {"select_kbd", "kbd_ready", "write_kbd", "pop_kbd"} => ~Empty
  /\ staged \in 0..MaxStaged
  /\ due \in Seq(Report)
  /\ baseline_due \in BOOLEAN /\ stale \in BOOLEAN /\ ep_enabled \in BOOLEAN

(* The host receives the accepted reports in order, none twice, none skipped,
   through a full ring, wakeup resets, suspends and bus resets at any point. *)
InOrderNoGaps == [][PollKbd => due # <<>> /\ host_kbd' = Head(due)]_pvars

(* From handle_wakeup() until it is sent, the zero report is in front of
   whatever the keyboard stages afterwards (usb_hid.c:171-174). *)
BaselineInFront == baseline_due => ~Empty /\ Front = AReport(Zero)

(* No stuck key at the host: once nothing is staged and the bus is left
   alone, a configured device has delivered every report it accepted, and has
   discarded what it held when the bus resumed (usb_hid.c:215-217). *)
KeysReachHost ==
  <>[][~Disturbance]_pvars =>
    <>[](usb_device_state = "CONFIGURED" => due = <<>> /\ ~stale)

(* Likewise for the consumer report, which is sent again and again. *)
UsageReachesHost ==
  <>[][~Disturbance]_pvars => <>[](usb_device_state = "CONFIGURED" => host_con = s_con_buf)

==============================================================================
