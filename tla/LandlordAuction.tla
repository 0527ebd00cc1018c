--------------------------- MODULE LandlordAuction ---------------------------
(***************************************************************************)
(* What the auction of a round promises to the players, with no cards, no  *)
(* turns and no timers: bids are made while the auction is open, the last  *)
(* bidder becomes the landlord, a deal is thrown away only when nobody has *)
(* bid, and a seat that has not bid is made the landlord only after        *)
(* MaxRedeals counted redeals.  Module DdzRoom implements it.              *)
(***************************************************************************)
EXTENDS Integers

CONSTANT MaxRedeals

Bidders == 1..3
Nobody  == 0

VARIABLES phase,    (* "idle", "bidding" or "settled"        *)
          bidder,   (* the last seat that bid, or Nobody     *)
          landlord, (* the landlord, or Nobody               *)
          redeals   (* counted redeals                       *)

avars == <<phase, bidder, landlord, redeals>>

Init == /\ phase = "idle" /\ bidder = Nobody /\ landlord = Nobody
        /\ redeals = 0

Open == /\ phase = "idle"
        /\ phase' = "bidding"
        /\ UNCHANGED <<bidder, landlord, redeals>>

(* The bid may end the auction at once. *)
Bid(s) == /\ phase = "bidding"
          /\ bidder' = s
          /\ \/ UNCHANGED <<phase, landlord>>
             \/ phase' = "settled" /\ landlord' = s
          /\ UNCHANGED redeals

Settle == /\ phase = "bidding" /\ bidder # Nobody
          /\ phase' = "settled"
          /\ landlord' = bidder
          /\ UNCHANGED <<bidder, redeals>>

Throw == /\ phase = "bidding" /\ bidder = Nobody
         /\ redeals < MaxRedeals
         /\ redeals' = redeals + 1
         /\ UNCHANGED <<phase, bidder, landlord>>

Force(s) == /\ phase = "bidding" /\ bidder = Nobody
            /\ redeals = MaxRedeals
            /\ phase' = "settled"
            /\ landlord' = s
            /\ UNCHANGED <<bidder, redeals>>

Close == /\ phase = "settled"
         /\ phase' = "idle" /\ bidder' = Nobody /\ landlord' = Nobody
         /\ redeals' = 0

Next == \/ Open \/ Settle \/ Throw \/ Close
        \/ \E s \in Bidders : Bid(s) \/ Force(s)

AuctionSpec == Init /\ [][Next]_avars
=============================================================================
