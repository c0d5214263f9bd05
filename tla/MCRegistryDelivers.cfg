SPECIFICATION Spec
CONSTANTS
    Clients = {}
    Remotes = {}
    Devs = {d1}
    MaxMade = 2
    nil = nil
    absent = absent
INVARIANT SerialOutputDelivers
CHECK_DEADLOCK FALSE
