\* Two riders, two rides, two drivers.
SPECIFICATION Spec
CONSTANTS
    Rides = {r1, r2}
    Riders = {u1, u2}
    Drivers = {d1, d2}
    Nobody = nobody
INVARIANTS
    DriverRideAgreement
    CancelledIsNotCharged
    SecondRideOverlapped
PROPERTIES
    ImplementsDriverAssignment
SYMMETRY Symmetry
