---------------------------- MODULE MCEnumeration ----------------------------
EXTENDS Enumeration

MCEpTable == hid_endpoints

MCDriven == {HID_EP_KBD_IN, HID_EP_KBD_OUT}

==============================================================================
