-------------------------------- MODULE UnitDesk --------------------------------
(***************************************************************************)
(* One unit that is for sale and for rent (api/internal/commercial): its    *)
(* sales listings, the leads and sale reservations on them, its rental      *)
(* listing and rental reservations, and the occupancy of the unit, which    *)
(* both desks write.  No handler locks a row: each decides on a plain read  *)
(* and writes by id alone.  Behind them stand the unique indexes of active  *)
(* listings and held sales, and the exclusion constraint of rentals.        *)
(*                                                                          *)
(* Prices, documents, activities and the invoices of a reservation are not  *)
(* followed, nor is the administration of units, which may write the        *)
(* occupancy too.                                                           *)
(***************************************************************************)
EXTENDS Transactions, Periods

CONSTANTS
    MaxListings,   \* bound: rows of unit_listings
    MaxLeads,      \* bound: rows of unit_sales_leads
    MaxSales,      \* bound: rows of unit_sale_reservations
    MaxOffers,     \* bound: rows of unit_rental_listings
    MaxRentals,    \* bound: rows of unit_rental_reservations
    LastMonth      \* bound: the last month that can be rented

ASSUME UnitAssumption ==
    {MaxListings, MaxLeads, MaxSales, MaxOffers, MaxRentals, LastMonth} \subseteq Nat

Listings == 1 .. MaxListings
Leads    == 1 .. MaxLeads
Sales    == 1 .. MaxSales
Offers   == 1 .. MaxOffers
Rentals  == 1 .. MaxRentals
Months   == 0 .. LastMonth + 1

VARIABLES
    unit,      \* occ: occupancy_status; tenant: who is in units.tenant_id
    listing,   \* listing[l]: status of a sales listing
    lead,      \* lead[d]: status
    sale,      \* sale[s]: status, listing, lead
    offer,     \* offer[o]: status of a rental listing
    rental     \* rental[r]: status, offer, from, to

unitVars == <<unit, listing, lead, sale, offer, rental, ops, serial>>

-----------------------------------------------------------------------------
Nobody    == <<"nobody", 0>>
Owner(s)  == <<"sale", s>>
Renter(r) == <<"rental", r>>

SaleHeld   == {"reserved", "contract_signed", "sold"}
RentalHeld == {"reserved", "active"}

(* The rows of T with status "none" are not inserted yet; rows are numbered.*)
IsNext(T, i) == \A j \in DOMAIN T : T[j].status = "none" <=> j >= i

AtMostOne(T, S) == \A i, j \in DOMAIN T : {T[i].status, T[j].status} \subseteq S => i = j

(* The unique indexes and the exclusion constraint of the tables.           *)
ListingIndex(T) == AtMostOne(T, {"draft", "published", "reserved"})
SaleIndex(T)    == AtMostOne(T, SaleHeld)
OfferIndex(T)   == AtMostOne(T, {"draft", "published"})

-----------------------------------------------------------------------------
(* Sales listings.                                                          *)

CreateListing(l) ==
    /\ Calm /\ IsNext(listing, l)
    /\ listing' = [listing EXCEPT ![l].status = "draft"] /\ ListingIndex(listing')
    /\ UNCHANGED <<unit, lead, sale, offer, rental, ops, serial>>

(* allowed_actions of scanListing and, but for reserved and sold, scanRL.   *)
ListingActions(status) ==
    CASE status = "draft"     -> {"publish", "archive"}
      [] status = "published" -> {"unpublish", "archive"}
      [] status = "archived"  -> {"publish"}
      [] OTHER                -> {}

ListingResult == [publish |-> "published", unpublish |-> "draft", archive |-> "archived"]

ListingRead(q, l, action) ==
    /\ action \in ListingActions(listing[l].status)
    /\ Begin(q, [kind |-> "listing", row |-> l, to |-> ListingResult[action]])
    /\ UNCHANGED <<unit, listing, lead, sale, offer, rental, serial>>

ListingCommit(q) ==
    /\ ops[q].kind = "listing" /\ End(q)
    /\ listing' = [listing EXCEPT ![ops[q].row].status = ops[q].to] /\ ListingIndex(listing')
    /\ UNCHANGED <<unit, lead, sale, offer, rental, serial>>

-----------------------------------------------------------------------------
(* Leads.                                                                   *)

CreateLead(d) ==
    /\ Calm /\ IsNext(lead, d)
    /\ lead' = [lead EXCEPT ![d].status = "new"]
    /\ UNCHANGED <<unit, listing, sale, offer, rental, ops, serial>>

(* leadActions, by the status they lead to.                                 *)
LeadTargets(status) ==
    CASE status = "new"                   -> {"contacted", "qualified", "lost", "cancelled"}
      [] status = "contacted"             -> {"qualified", "lost", "cancelled"}
      [] status = "qualified"             -> {"lost", "cancelled"}
      [] status \in {"lost", "cancelled"} -> {"new"}
      [] OTHER                            -> {}

LeadRead(q, d, to) ==
    /\ to \in LeadTargets(lead[d].status)
    /\ Begin(q, [kind |-> "lead", row |-> d, to |-> to])
    /\ UNCHANGED <<unit, listing, lead, sale, offer, rental, serial>>

LeadCommit(q) ==
    /\ ops[q].kind = "lead" /\ End(q)
    /\ lead' = [lead EXCEPT ![ops[q].row].status = ops[q].to]
    /\ UNCHANGED <<unit, listing, sale, offer, rental, serial>>

-----------------------------------------------------------------------------
(* Sale reservations.                                                       *)

CreateSaleRead(q, l, d) ==
    /\ lead[d].status \in {"new", "contacted", "qualified"}
    /\ listing[l].status = "published"
    /\ Begin(q, [kind |-> "sell", row |-> [status |-> "reserved", listing |-> l, lead |-> d]])
    /\ UNCHANGED <<unit, listing, lead, sale, offer, rental, serial>>

CreateSaleCommit(q) ==
    LET row == ops[q].row
    IN /\ ops[q].kind = "sell" /\ End(q)
       /\ \E s \in Sales : IsNext(sale, s) /\ sale' = [sale EXCEPT ![s] = row]
       /\ SaleIndex(sale')
       /\ listing' = [listing EXCEPT ![row.listing].status = "reserved"] /\ ListingIndex(listing')
       /\ lead' = [lead EXCEPT ![row.lead].status = "reserved"]
       /\ unit' = [unit EXCEPT !.occ = "reserved"]
       /\ UNCHANGED <<offer, rental, serial>>

(* allowed_actions of scanSaleRes, by the status they lead to.              *)
SaleTargets(status) ==
    CASE status = "reserved"        -> {"contract_signed", "sold", "cancelled"}
      [] status = "contract_signed" -> {"sold", "cancelled"}
      [] status = "sold"            -> {"handed_over"}
      [] OTHER                      -> {}

SaleRead(q, s, to) ==
    /\ to \in SaleTargets(sale[s].status)
    /\ Begin(q, [kind |-> "sale", row |-> s, to |-> to])
    /\ UNCHANGED <<unit, listing, lead, sale, offer, rental, serial>>

(* Mutant of LeadAfter: a cancelled sale leaves its lead reserved.          *)
LeadAfterSold(to, status) == IF to = "sold" THEN "sold" ELSE status

(* What SaleAct writes to the lead, the listing and the unit.               *)
LeadAfter(to, status) ==
    CASE to = "sold"                               -> "sold"
      [] to = "cancelled" /\ status = "reserved"   -> "qualified"
      [] OTHER                                     -> status
ListingAfter(to, status) ==
    CASE to = "sold" -> "sold" [] to = "cancelled" -> "published" [] OTHER -> status
UnitAfter(s, to) ==
    CASE to = "handed_over" -> [occ |-> "occupied", tenant |-> Owner(s)]
      [] to = "cancelled"   -> [unit EXCEPT !.occ = IF unit.tenant = Nobody THEN "vacant" ELSE "occupied"]
      [] OTHER              -> unit

SaleCommit(q) ==
    LET s == ops[q].row
        to == ops[q].to
    IN /\ ops[q].kind = "sale" /\ End(q)
       /\ sale' = [sale EXCEPT ![s].status = to] /\ SaleIndex(sale')
       /\ lead' = [lead EXCEPT ![sale[s].lead].status = LeadAfter(to, @)]
       /\ listing' = [listing EXCEPT ![sale[s].listing].status = ListingAfter(to, @)]
       /\ ListingIndex(listing')
       /\ unit' = UnitAfter(s, to)
       /\ UNCHANGED <<offer, rental, serial>>

-----------------------------------------------------------------------------
(* Rental listings.                                                         *)

CreateOffer(o) ==
    /\ Calm /\ IsNext(offer, o)
    /\ offer' = [offer EXCEPT ![o].status = "draft"] /\ OfferIndex(offer')
    /\ UNCHANGED <<unit, listing, lead, sale, rental, ops, serial>>

Archivable(o) == \A r \in Rentals : rental[r].offer = o => rental[r].status \notin RentalHeld

OfferRead(q, o, action) ==
    /\ action \in ListingActions(offer[o].status)
    /\ action = "archive" => Archivable(o)
    /\ Begin(q, [kind |-> "offer", row |-> o, to |-> ListingResult[action]])
    /\ UNCHANGED <<unit, listing, lead, sale, offer, rental, serial>>

OfferCommit(q) ==
    /\ ops[q].kind = "offer" /\ End(q)
    /\ offer' = [offer EXCEPT ![ops[q].row].status = ops[q].to] /\ OfferIndex(offer')
    /\ UNCHANGED <<unit, listing, lead, sale, rental, serial>>

-----------------------------------------------------------------------------
(* Rental reservations.                                                     *)

(* quoteTx, for a reservation in the place of r (0: a new one).             *)
Quoted(o, from, to, r) ==
    /\ offer[o].status = "published"
    /\ \A s \in Rentals \ {r} :
         rental[s].status \in RentalHeld => ~Meets(rental[s], [from |-> from, to |-> to])

RentalWrite(T) == Apart(T, RentalHeld) /\ rental' = T

(* afterReserveTx.                                                          *)
Reserve == unit' = [unit EXCEPT !.occ = IF @ = "vacant" THEN "reserved" ELSE @]

(* CreateRentalReservation: an inquiry is quoted but need not be available. *)
CreateRentalRead(q, o, from, to) ==
    /\ offer[o].status # "none"
    /\ \E status \in {"new", "reserved"} :
         /\ status = "reserved" => Quoted(o, from, to, 0)
         /\ Begin(q, [kind |-> "rent", row |-> [status |-> status, offer |-> o, from |-> from, to |-> to]])
    /\ UNCHANGED <<unit, listing, lead, sale, offer, rental, serial>>

CreateRentalCommit(q) ==
    LET row == ops[q].row
    IN /\ ops[q].kind = "rent" /\ End(q)
       /\ \E r \in Rentals : IsNext(rental, r) /\ RentalWrite([rental EXCEPT ![r] = row])
       /\ IF row.status = "reserved" THEN Reserve ELSE UNCHANGED unit
       /\ UNCHANGED <<listing, lead, sale, offer, serial>>

(* UpdateRentalReservation with another period.                             *)
PeriodRead(q, r, from, to) ==
    /\ rental[r].status \in {"new", "reserved"}
    /\ rental[r].status = "reserved" => Quoted(rental[r].offer, from, to, r)
    /\ Begin(q, [kind |-> "period", row |-> r, from |-> from, to |-> to])
    /\ UNCHANGED <<unit, listing, lead, sale, offer, rental, serial>>

PeriodCommit(q) ==
    /\ ops[q].kind = "period" /\ End(q)
    /\ RentalWrite([rental EXCEPT ![ops[q].row].from = ops[q].from, ![ops[q].row].to = ops[q].to])
    /\ UNCHANGED <<unit, listing, lead, sale, offer, serial>>

(* allowed_actions of scanRR, by the status they lead to.                   *)
RentalTargets(status) ==
    CASE status = "new"      -> {"reserved", "cancelled"}
      [] status = "reserved" -> {"active", "cancelled"}
      [] status = "active"   -> {"completed"}
      [] OTHER               -> {}

(* Mutant of Activatable: the renter before may still be in.                *)
ActivatableAny(r) == TRUE

Activatable(r) == \A s \in Rentals \ {r} : rental[s].status # "active"

(* RentalAct: confirm, activate, complete, cancel.                          *)
RentalRead(q, r, to) ==
    /\ to \in RentalTargets(rental[r].status)
    /\ to = "reserved" => Quoted(rental[r].offer, rental[r].from, rental[r].to, r)
    /\ to = "active" => Activatable(r)
    /\ Begin(q, [kind |-> "rental", row |-> r, to |-> to, was |-> rental[r].status])
    /\ UNCHANGED <<unit, listing, lead, sale, offer, rental, serial>>

(* The unit is free again if no other reservation or sale holds it.         *)
Freed(r) ==
    /\ unit.occ = "reserved" /\ unit.tenant = Nobody
    /\ \A s \in Rentals \ {r} : rental[s].status # "reserved"
    /\ \A s \in Sales : sale[s].status \notin SaleHeld

RentalCommit(q) ==
    LET op == ops[q]
        r == op.row
    IN /\ op.kind = "rental" /\ End(q)
       /\ RentalWrite([rental EXCEPT ![r].status = op.to])
       /\ CASE op.to = "reserved"  -> Reserve
            [] op.to = "active"    -> unit' = [occ |-> "occupied", tenant |-> Renter(r)]
            [] op.to = "completed" -> unit' = [occ |-> "vacant", tenant |-> Nobody]
            [] OTHER -> unit' = [unit EXCEPT !.occ =
                                   IF op.was = "reserved" /\ Freed(r) THEN "vacant" ELSE @]
       /\ UNCHANGED <<listing, lead, sale, offer, serial>>

-----------------------------------------------------------------------------
UnitAbort(q) ==
    /\ ops[q] # NoOp /\ End(q)
    /\ UNCHANGED <<unit, listing, lead, sale, offer, rental, serial>>

UnitIdle ==
    /\ unit = [occ |-> "vacant", tenant |-> Nobody]
    /\ listing = [l \in Listings |-> [status |-> "none"]]
    /\ lead = [d \in Leads |-> [status |-> "none"]]
    /\ sale = [s \in Sales |-> [status |-> "none", listing |-> 0, lead |-> 0]]
    /\ offer = [o \in Offers |-> [status |-> "none"]]
    /\ rental = [r \in Rentals |-> [status |-> "none", offer |-> 0, from |-> 0, to |-> 1]]

UnitInit == UnitIdle /\ TxInit

SaleDesk ==
    \/ \E l \in Listings : CreateListing(l)
    \/ \E d \in Leads : CreateLead(d)
    \/ \E q \in Requests :
         \/ \E l \in Listings, action \in DOMAIN ListingResult : ListingRead(q, l, action)
         \/ \E d \in Leads, to \in {"contacted", "qualified", "lost", "cancelled", "new"} : LeadRead(q, d, to)
         \/ \E l \in Listings, d \in Leads : CreateSaleRead(q, l, d)
         \/ \E s \in Sales, to \in SaleHeld \cup {"handed_over", "cancelled"} : SaleRead(q, s, to)
         \/ ListingCommit(q) \/ LeadCommit(q) \/ CreateSaleCommit(q) \/ SaleCommit(q)

RentalDesk ==
    \/ \E o \in Offers : CreateOffer(o)
    \/ \E q \in Requests :
         \/ \E o \in Offers, action \in DOMAIN ListingResult : OfferRead(q, o, action)
         \/ \E from, to \in Months : from < to /\
              \/ \E o \in Offers : CreateRentalRead(q, o, from, to)
              \/ \E r \in Rentals : PeriodRead(q, r, from, to)
         \/ \E r \in Rentals, to \in RentalHeld \cup {"completed", "cancelled"} : RentalRead(q, r, to)
         \/ OfferCommit(q) \/ CreateRentalCommit(q) \/ PeriodCommit(q) \/ RentalCommit(q)

UnitNext == SaleDesk \/ RentalDesk \/ \E q \in Requests : UnitAbort(q)

UnitSpec == UnitInit /\ [][UnitNext]_unitVars

-----------------------------------------------------------------------------
(* Properties.                                                              *)

SaleStatus == SaleHeld \cup {"none", "handed_over", "cancelled"}
RentalStatus == RentalHeld \cup {"none", "new", "completed", "cancelled"}
LeadStatus == {"none", "new", "contacted", "qualified", "reserved", "sold", "lost", "cancelled"}
ListingStatus == {"none", "draft", "published", "archived"}
SaleRow == [status : SaleStatus, listing : Listings \cup {0}, lead : Leads \cup {0}]
RentalRow == [status : RentalStatus, offer : Offers \cup {0}, from : Months, to : Months]

UnitOp ==
    {NoOp}
    \cup [kind : {"listing"}, row : Listings, to : ListingStatus]
    \cup [kind : {"offer"}, row : Offers, to : ListingStatus]
    \cup [kind : {"lead"}, row : Leads, to : LeadStatus]
    \cup [kind : {"sell"}, row : [status : {"reserved"}, listing : Listings, lead : Leads]]
    \cup [kind : {"sale"}, row : Sales, to : SaleStatus]
    \cup [kind : {"rent"}, row : [status : {"new", "reserved"}, offer : Offers, from : Months, to : Months]]
    \cup [kind : {"period"}, row : Rentals, from : Months, to : Months]
    \cup [kind : {"rental"}, row : Rentals, to : RentalStatus, was : RentalStatus]

(* Every row keeps its type.                                                *)
UnitTypeOK ==
    /\ unit \in [occ : {"vacant", "reserved", "occupied"},
                 tenant : {Nobody} \cup {Owner(s) : s \in Sales} \cup {Renter(r) : r \in Rentals}]
    /\ listing \in [Listings -> [status : ListingStatus \cup {"reserved", "sold"}]]
    /\ lead \in [Leads -> [status : LeadStatus]]
    /\ sale \in [Sales -> SaleRow]
    /\ offer \in [Offers -> [status : ListingStatus]]
    /\ rental \in [Rentals -> RentalRow]
    /\ ops \in [Requests -> UnitOp] /\ serial \in BOOLEAN

SalesOf(l, d, S) ==
    {s \in Sales : sale[s].status \in S /\ (sale[s].listing = l \/ sale[s].lead = d)}

ListingsAgree ==
    serial =>
        /\ \A l \in Listings :
             /\ listing[l].status = "reserved" <=> SalesOf(l, 0, {"reserved", "contract_signed"}) # {}
             /\ listing[l].status = "sold" <=> SalesOf(l, 0, {"sold", "handed_over"}) # {}
        /\ \A d \in Leads :
             /\ lead[d].status = "reserved" <=> SalesOf(0, d, {"reserved", "contract_signed"}) # {}
             /\ lead[d].status = "sold" <=> SalesOf(0, d, {"sold", "handed_over"}) # {}
        /\ \A r \in Rentals :
             rental[r].status \in RentalHeld => offer[rental[r].offer].status \in {"draft", "published"}

TenantAgrees ==
    serial =>
        /\ AtMostOne(rental, {"active"})
        /\ unit.occ = "vacant" => unit.tenant = Nobody
        /\ \A r \in Rentals : rental[r].status = "active" =>
             \/ unit.tenant = Renter(r)
             \/ \E s \in Sales : sale[s].status = "handed_over"

(* When no two handlers overlap, listings and leads say exactly what became *)
(* of their sale: a cancelled reservation gives both back, and nothing else *)
(* takes them; a rental listing is not archived under a reservation that    *)
(* holds the unit; one renter is in the unit at a time and is its tenant,   *)
(* unless a buyer took it over; a unit with a tenant is never vacant.       *)
DeskAgrees == ListingsAgree /\ TenantAgrees
=============================================================================
