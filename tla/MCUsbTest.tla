------------------------------ MODULE MCUsbTest ------------------------------
(* Instances of UsbTest: a gadget with bulk endpoints only, and one with a *)
(* second altsetting that has all kinds of endpoints.                      *)
EXTENDS UsbTest

MCDevices == {<<{}, {"bulk_in", "bulk_out"}>>,
              <<{"bulk_in"}, {"bulk_in", "bulk_out", "iso_in", "iso_out", "int_in", "int_out"}>>}
MCSeen == {{"bulk_in", "bulk_out"},
           {"bulk_in", "bulk_out", "iso_in", "iso_out", "int_in", "int_out"}}
MCCases == {1, 4, 5, 10, 11, 15, 24, 26, 28}
MCControl == {10}
MCFzKinds == {"simple", "queue", "ctr_fuzz"}
=============================================================================
