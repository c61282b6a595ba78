--------------------------- MODULE MCHostileVenue ---------------------------
(* Small instance of HostileVenue: quantities and ids on both sides of every *)
(* comparison of on_venue_event.                                             *)
EXTENDS HostileVenue

MCSubmitQuantities == {-1, 0, 1, 2, 3}

MCVenueOrderIds == {-1, 0, 1, 2}

MCFillQuantities == {-1, 0, 1, 2, 3, 4}

MCFillPrices == {5}
=============================================================================
