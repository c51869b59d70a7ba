----------------------------- MODULE MCUsbDevice -----------------------------
(* One address is enough: a second adds no transition the handlers can tell
   apart.  Every request kind the handlers distinguish is sent. *)
EXTENDS UsbDevice

MCAddress == {1}

==============================================================================
