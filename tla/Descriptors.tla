----------------------------- MODULE Descriptors -----------------------------
(***************************************************************************)
(* What the application and the bootloader say of themselves: the          *)
(* descriptors of usb_desc.c and usb_vendor_desc.c, usb_get_desc(), the    *)
(* report layouts of usb_hid.h, and how a host reads them (USB 2.0, 9.6;   *)
(* HID 1.11, 6.2.2).                                                       *)
(***************************************************************************)
EXTENDS Naturals, Sequences, FiniteSets

LOCAL INSTANCE SequencesExt
LOCAL INSTANCE FiniteSetsExt

Image == {"app", "bl"}

NO_DESCRIPTOR == 0

Total(widths) == FoldLeft(+, 0, widths)

------------------------------------------------------------------------------
(* The packed structures, by the widths of their fields. *)
usb_desc_device_t    == <<1, 1, 2, 1, 1, 1, 1, 2, 2, 2, 1, 1, 1, 1>>
usb_desc_config_t    == <<1, 1, 2, 1, 1, 1, 1, 1>>
usb_desc_interface_t == <<1, 1, 1, 1, 1, 1, 1, 1, 1>>
usb_desc_endpoint_t  == <<1, 1, 1, 1, 2, 1>>
usb_desc_hid_t       == <<1, 1, 2, 1, 1, 1, 2>>

hid_kbd_report_t      == <<1, 1, 6>>      \* modifier, reserved, keycode[6]
hid_led_report_t      == <<1>>
hid_consumer_report_t == <<1, 2, 1>>      \* report_id, consumer, system

SizeOf == [DEVICE |-> Total(usb_desc_device_t), CONFIGURATION |-> Total(usb_desc_config_t),
           INTERFACE |-> Total(usb_desc_interface_t), ENDPOINT |-> Total(usb_desc_endpoint_t),
           HID |-> Total(usb_desc_hid_t)]

------------------------------------------------------------------------------
(* Report descriptors: items of a tag and up to two bytes of data. *)
Item(tag, x)   == [tag |-> tag, data |-> x, bytes |-> 2]
Item16(tag, x) == [tag |-> tag, data |-> x, bytes |-> 3]
HID_END_COLLECTION == [tag |-> "end", data |-> 0, bytes |-> 1]

HID_REPORT_SIZE(x)  == Item("size", x)
HID_REPORT_COUNT(x) == Item("count", x)
HID_INPUT(flags)    == Item("input", flags)
HID_OUTPUT(flags)   == Item("output", flags)
HID_LOGICAL_MIN(x)  == Item("lmin", x)
HID_LOGICAL_MAX(x)  == Item("lmax", x)
HID_USAGE_MIN(x)    == Item("umin", x)
HID_USAGE_MAX(x)    == Item("umax", x)

rd_kbd ==
  << Item("page", 1), Item("usage", 6), Item("collection", 1),
     (* modifier *)
     Item("page", 7), HID_USAGE_MIN(224), HID_USAGE_MAX(231), HID_LOGICAL_MIN(0),
     HID_LOGICAL_MAX(1), HID_REPORT_SIZE(1), HID_REPORT_COUNT(8), HID_INPUT("var"),
     (* reserved *)
     HID_REPORT_COUNT(1), HID_REPORT_SIZE(8), HID_INPUT("const"),
     (* keycode[6] *)
     HID_USAGE_MIN(0), Item16("umax", 221), HID_LOGICAL_MIN(0), Item16("lmax", 221),
     HID_REPORT_SIZE(8), HID_REPORT_COUNT(6), HID_INPUT("array"),
     (* LED output and its padding *)
     Item("page", 8), HID_USAGE_MIN(1), HID_USAGE_MAX(5), HID_LOGICAL_MIN(0),
     HID_LOGICAL_MAX(1), HID_REPORT_SIZE(1), HID_REPORT_COUNT(5), HID_OUTPUT("var"),
     HID_REPORT_SIZE(3), HID_REPORT_COUNT(1), HID_OUTPUT("const"),
     HID_END_COLLECTION >>

rd_consumer ==
  << Item("page", 12), Item("usage", 1), Item("collection", 1), Item("id", 1),
     (* consumer *)
     HID_LOGICAL_MIN(0), Item16("lmax", 1023), HID_USAGE_MIN(0), Item16("umax", 1023),
     HID_REPORT_SIZE(16), HID_REPORT_COUNT(1), HID_INPUT("array"),
     (* system sleep and its padding *)
     Item("page", 1), Item("usage", 130), HID_LOGICAL_MIN(0), HID_LOGICAL_MAX(1),
     HID_REPORT_SIZE(1), HID_REPORT_COUNT(1), HID_INPUT("var"),
     HID_REPORT_SIZE(7), HID_REPORT_COUNT(1), HID_INPUT("const"),
     HID_END_COLLECTION >>

ItemBytes(rd) == Total([i \in DOMAIN rd |-> rd[i].bytes])

(* By interface, which is one less than the index. *)
ReportSize == <<ItemBytes(rd_kbd), ItemBytes(rd_consumer)>>

------------------------------------------------------------------------------
(* Device, configuration and string descriptors. *)

HID_IFACE_COUNT == 2
HID_EP_KBD_IN      == [num |-> 1, dir |-> "IN"]
HID_EP_KBD_OUT     == [num |-> 1, dir |-> "OUT"]
HID_EP_CONSUMER_IN == [num |-> 2, dir |-> "IN"]
HID_EP_SIZE_KBD      == 8
HID_EP_SIZE_CONSUMER == 4

(* The index 0xDC, which usb_ctrl.c answers by itself. *)
INTERNAL_SERIAL == 220

(* Both programs: one configuration, EP0 of eight bytes, three strings. *)
dev_desc ==
  [b_max_packet_size0 |-> 8, b_num_configurations |-> 1, i_manufacturer |-> 1,
   i_product |-> 2, i_serial_number |-> INTERNAL_SERIAL]

Interface(n, endpoints, class) ==
  [type |-> "INTERFACE", b_interface_number |-> n, b_num_endpoints |-> endpoints,
   b_interface_class |-> class]

Hid(n) == [type |-> "HID", w_report_descriptor_length |-> ReportSize[n + 1]]

EndpointDesc(address, size) ==
  [type |-> "ENDPOINT", b_endpoint_address |-> address, w_max_packet_size |-> size]

Configuration(interfaces, body) ==
  <<[type |-> "CONFIGURATION", b_configuration_value |-> 1, b_num_interfaces |-> interfaces,
     w_total_length |-> SizeOf.CONFIGURATION
                          + Total([i \in DOMAIN body |-> SizeOf[body[i].type]])]>> \o body

app_cfg_desc ==
  Configuration(HID_IFACE_COUNT,
    << Interface(0, 2, "HID"), Hid(0), EndpointDesc(HID_EP_KBD_IN, HID_EP_SIZE_KBD),
       EndpointDesc(HID_EP_KBD_OUT, HID_EP_SIZE_KBD),
       Interface(1, 1, "HID"), Hid(1),
       EndpointDesc(HID_EP_CONSUMER_IN, HID_EP_SIZE_CONSUMER) >>)

bl_cfg_desc == Configuration(1, << Interface(0, 0, "VENDOR") >>)

cfg_desc == [app |-> app_cfg_desc, bl |-> bl_cfg_desc]

USB_STRING_LEN(n_chars) == 2 + 2 * n_chars

(* String descriptors: LANG_ID_ENG, manufacturer and product, by their
   characters: "KeyDU", "Citrouille90" or "Citrouille90 Bootloader". *)
Strings(manufacturer, product) ==
  [index \in {0, 1, 2} |->
     USB_STRING_LEN(CASE index = 0 -> 1 [] index = 1 -> manufacturer [] index = 2 -> product)]

app_strings == Strings(5, 12)
bl_strings  == Strings(5, 23)

(* send_internal_serial: USB_SERIAL_NUM_CHARS hexadecimal digits. *)
internal_serial == USB_STRING_LEN(32)

(* The size of what is sent for a descriptor type, an index and w_index. *)
app_get_desc(d) ==
  CASE d.type = "DEVICE"        -> SizeOf.DEVICE
    [] d.type = "CONFIGURATION" -> app_cfg_desc[1].w_total_length
    [] d.type = "STRING" /\ d.index \in DOMAIN app_strings -> app_strings[d.index]
    [] d.type = "HID" /\ d.w_index < HID_IFACE_COUNT    -> SizeOf.HID
    [] d.type = "REPORT" /\ d.w_index < HID_IFACE_COUNT -> ReportSize[d.w_index + 1]
    [] OTHER -> NO_DESCRIPTOR

bl_get_desc(d) ==
  CASE d.type = "DEVICE"        -> SizeOf.DEVICE
    [] d.type = "CONFIGURATION" -> bl_cfg_desc[1].w_total_length
    [] d.type = "STRING" /\ d.index \in DOMAIN bl_strings -> bl_strings[d.index]
    [] OTHER -> NO_DESCRIPTOR

(* ctrl_get_descriptor *)
DescriptorSize(image, d) ==
  IF d.type = "STRING" /\ d.index = INTERNAL_SERIAL THEN internal_serial
  ELSE IF image = "app" THEN app_get_desc(d) ELSE bl_get_desc(d)

------------------------------------------------------------------------------
(* How a host reads them. *)

(* A main item takes what is in force and ends the usages (local items). *)
ParseItem(p, i) ==
  CASE i.tag \in {"page", "size", "count", "lmax", "umin", "umax"} ->
         [p EXCEPT ![i.tag] = i.data]
    [] i.tag = "usage" -> [p EXCEPT !.umin = i.data, !.umax = i.data]
    [] i.tag = "id" -> [p EXCEPT !.id = 8]
    [] i.tag \in {"input", "output"} ->
         [p EXCEPT !.umin = 0, !.umax = 0, !.fields = Append(@,
            [main |-> i.tag, kind |-> i.data, page |-> p.page, bits |-> p.size * p.count,
             max |-> p.lmax, first |-> p.umin, last |-> p.umax, size |-> p.size])]
    [] OTHER -> p

Parse(rd) ==
  FoldLeft(ParseItem, [page |-> 0, size |-> 0, count |-> 0, lmax |-> 0, umin |-> 0,
                       umax |-> 0, id |-> 0, fields |-> <<>>], rd)

Fields(rd, main) == SelectSeq(Parse(rd).fields, LAMBDA f : f.main = main)

(* The bytes of a report, with its id in front if it has one. *)
Bytes(rd, main) ==
  LET fields == Fields(rd, main)
  IN  (Parse(rd).id + Total([i \in DOMAIN fields |-> fields[i].bits])) \div 8

ReportBytes == [input  |-> <<Bytes(rd_kbd, "input"), Bytes(rd_consumer, "input")>>,
                output |-> <<Bytes(rd_kbd, "output"), Bytes(rd_consumer, "output")>>]

(* Whether a report can hold a usage. *)
Declares(rd, main, page, usage) ==
  \E i \in DOMAIN Fields(rd, main) :
    LET f == Fields(rd, main)[i]
    IN  /\ f.page = page /\ f.kind # "const" /\ usage \in f.first..f.last
        /\ f.kind = "array" => usage <= f.max
        /\ f.max < 2 ^ f.size

(* Each endpoint of a configuration, and the interface it belongs to. *)
EndpointsOf(cfg) == {i \in DOMAIN cfg : cfg[i].type = "ENDPOINT"}

InterfaceOf(cfg, i) == Max({j \in 1..i : cfg[j].type = "INTERFACE"})

(* The counts and lengths of a configuration descriptor agree with what it
   holds. *)
WellFormed(cfg) ==
  LET interfaces == {i \in DOMAIN cfg : cfg[i].type = "INTERFACE"}
      OwnedBy(i) == {e \in EndpointsOf(cfg) : InterfaceOf(cfg, e) = i}
  IN  /\ cfg[1].w_total_length = Total([i \in DOMAIN cfg |-> SizeOf[cfg[i].type]])
      /\ {cfg[i].b_interface_number : i \in interfaces} = 0..(cfg[1].b_num_interfaces - 1)
      /\ \A i \in interfaces : cfg[i].b_num_endpoints = Cardinality(OwnedBy(i))

(* HID Consumer page usages of the CC_* keycodes. *)
cc_usage_table ==
  {226, 233, 234, 181, 182, 205, 183} \cup {387, 394, 402, 404}
    \cup {545, 547, 548, 549, 550, 551, 554}

(* KC_A to KC_APP, without 0x32, and the modifiers. *)
BasicUsage == ((4..101) \ {50}) \cup 224..231

(* Both report descriptors describe the reports that are sent, and hold every
   usage that a keycode of the keymap stands for. *)
ReportsAsDeclared ==
  /\ ReportBytes.input = <<Total(hid_kbd_report_t), Total(hid_consumer_report_t)>>
  /\ ReportBytes.output[1] = Total(hid_led_report_t)
  /\ \A usage \in BasicUsage : Declares(rd_kbd, "input", 7, usage)
  /\ \A led \in {1, 2} : Declares(rd_kbd, "output", 8, led)
  /\ \A usage \in cc_usage_table : Declares(rd_consumer, "input", 12, usage)
  /\ Declares(rd_consumer, "input", 1, 130)

DescriptorsAgree == ReportsAsDeclared /\ \A image \in Image : WellFormed(cfg_desc[image])

==============================================================================
