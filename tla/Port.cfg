SPECIFICATION PortFairSpec
CONSTANTS
    t1 = t1
    t2 = t2
    Tests = {t1, t2}
    port_start = 1
    port_max = 3
    port_upperlimit = 4
    StartSpan = 2
    MaxPorts = 2
INVARIANTS PortTypeOK NoSharedPort ReservationKept NoOrphanReservation
PROPERTIES AcquireTerminates
CHECK_DEADLOCK FALSE
