\* Two requests of one rider.
SPECIFICATION Spec
CONSTANTS
    Rides = {r1, r2}
    Riders = {u1}
    Drivers = {d1}
    Nobody = nobody
INVARIANT OneActiveRidePerRider
