\* Two sessions or holds, two requests, one quota change or server start.
CONSTANTS
    x = x  y = y  r1 = r1  r2 = r2  s1 = s1  s2 = s2  h1 = h1  p1 = p1  p2 = p2
    Content = {x, y}
    NoContent = NoContent
    Size <- Sizes
    Shared = {y}
    Row = {r1, r2}
    Session = {s1}
    Hold = {h1}
    NoBooking = NoBooking
    Request = {p1, p2}
    Quotas = {0, 2}
    MaxChanges = 1
SPECIFICATION Spec
INVARIANTS IInv WithinQuota ReservationHonoured HoldHonoured
SYMMETRY Symmetry
CHECK_DEADLOCK FALSE
