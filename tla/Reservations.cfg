SPECIFICATION SceneSpec
CONSTANTS
    Rooms    = {m1, m2}
    NoRoom   = NoRoom
    MaxStays = 2
    LastNight = 1
    MaxBookings = 2
    LastSlot = 1
    MaxListings = 2
    MaxLeads = 2
    MaxSales = 2
    MaxOffers = 1
    MaxRentals = 2
    LastMonth = 1
    Requests = {q1, q2}
    Scenes = {"desk", "house", "facility", "sale", "rental"}
SYMMETRY Rows
INVARIANTS DeletedHoldsNothing NeverOverbooked GuestsHaveRooms DeskAgrees
CHECK_DEADLOCK FALSE
