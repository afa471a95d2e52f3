SPECIFICATION Spec
CONSTANTS
  Clients = {c1, c2}
  Users = {}
  InbandRing = TRUE
  Environment = {"abandon"}
PROPERTY Documented
