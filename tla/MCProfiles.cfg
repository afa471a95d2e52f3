SPECIFICATION MCSpec
CONSTANTS
  Clients = {c1, c2}
  Users = {u1}
  InbandRing = TRUE
  Environment = {"streams", "device"}
INVARIANTS HeadsetSafe HealthSafe AudioClientsSafe PeripheralsSafe TelephonySafe ChipLinkSafe DevicesSafe BackendsSafe SdpSafe LibrariesSafe ModeSafe
PROPERTIES Documented
