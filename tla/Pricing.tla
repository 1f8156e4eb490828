------------------------------- MODULE Pricing -------------------------------
(***************************************************************************)
(* What a delivery costs: the quote of CalculateDeliveryChargesUsecase for *)
(* one destination, the charge it makes for an order, and the amounts the  *)
(* order is stored with; and where an order is picked up, as RiderService  *)
(* reads a pair of coordinates.                                            *)
(*                                                                         *)
(* Amounts and kilometres are integers that count ten-thousandths: the     *)
(* product of two numbers with two decimals is exact.                      *)
(***************************************************************************)
EXTENDS Requests, Integers, Functions

CONSTANTS
  Trips,        \* kilometres to each destination
  BikeRate,     \* RIDER_RATE_PER_KM
  VanRate,      \* DRIVER_RATE_PER_KM
  Percent,      \* SERVICE_CHARGE_PERCENT
  UrgencyFee,   \* what the client offers for an urgent delivery
  TiesDown,     \* half cents whose binary fraction lies below the half
  Degrees,      \* coordinates told apart
  NotFinite     \* null, undefined, or text that is no number

ASSUME PricingAssumption ==
  /\ BikeRate \in Nat /\ VanRate \in Nat /\ Percent \in Nat /\ UrgencyFee \in Nat
  /\ TiesDown \subseteq Nat /\ Degrees \subseteq Int /\ NotFinite \notin Int
  /\ \A trip \in Trips : IsFiniteSet(DOMAIN trip) /\ \A i \in DOMAIN trip : trip[i] \in Nat

VARIABLES
  quote,     \* the last quote: [trip, urgent, total]
  order,     \* the last order: [trip, urgent, legs, fee, service, total]
  pickup     \* the last pair of coordinates and what was made of it

pricingVars == <<quote, order, pickup>>

PricingInit == quote = None /\ order = None /\ pickup = None

-----------------------------------------------------------------------------
(* NumberUtil and DecimalToNumberTransformer                                *)

\* toFixed(2)
Fixed(x) == IF x % 100 = 50 /\ x \in TiesDown THEN x - 50 ELSE 100 * ((x + 50) \div 100)

\* mutant: plain addition
Add_plain(a, b) == a + b

Add(a, b)      == Fixed(a) + Fixed(b)
Multiply(a, b) == (Fixed(a) \div 100) * (Fixed(b) \div 100)

-----------------------------------------------------------------------------
(* calculateDeliveryFee and calculateMultipleDeliveryFee                    *)

Charge(fee) == [fee |-> fee, service |-> Multiply(fee, Percent),
                total |-> Add(Multiply(fee, Percent), fee)]

Urgent(fee, urgent) == IF urgent THEN Add(fee, UrgencyFee) ELSE fee

DeliveryFee(km, urgent) ==
  Charge(Urgent(Multiply(km, IF km > 50000 THEN VanRate ELSE BikeRate), urgent))

LegFees(trip) == [i \in DOMAIN trip |-> Multiply(trip[i], BikeRate)]

MultipleDeliveryFee(trip, urgent) ==
  Charge(Urgent(FoldFunction(Add, 0, LegFees(trip)), urgent))

Quote(trip, urgent) ==
  /\ DOMAIN trip = {1}
  /\ Instant
  /\ quote' = [trip |-> trip, urgent |-> urgent, total |-> DeliveryFee(trip[1], urgent).total]
  /\ UNCHANGED <<order, pickup>>

\* The columns of the order and of its destinations keep two decimals.
PlaceOrder(trip, urgent) ==
  LET charge == MultipleDeliveryFee(trip, urgent) IN
  /\ Instant
  /\ order' = [trip |-> trip, urgent |-> urgent,
               legs |-> [i \in DOMAIN trip |-> Fixed(LegFees(trip)[i])],
               fee |-> Fixed(charge.fee), service |-> Fixed(charge.service),
               total |-> Fixed(charge.total)]
  /\ UNCHANGED <<quote, pickup>>

-----------------------------------------------------------------------------
(* normalizePickupLocation                                                  *)

IsLat(x) == x \in -90..90
IsLon(x) == x \in -180..180

Located(lon, lat) == IF IsLat(lat) /\ IsLon(lon) THEN <<lon, lat>> ELSE None

\* mutant: the first coordinate is a latitude whenever it can be one
NormalizePickupLocation_lat(a, b) ==
  IF NotFinite \in {a, b} THEN None
  ELSE IF IsLat(a) /\ IsLon(b) THEN Located(b, a) ELSE Located(a, b)

NormalizePickupLocation(a, b) ==
  IF NotFinite \in {a, b} THEN None
  ELSE IF IsLon(a) /\ IsLat(b) /\ ~(IsLat(a) /\ IsLon(b) /\ a # b) THEN Located(a, b)
  ELSE IF IsLat(a) /\ IsLon(b) /\ ~(IsLon(a) /\ IsLat(b))          THEN Located(b, a)
  ELSE IF IsLon(a) /\ IsLon(b) /\ ~IsLat(a) /\ ~IsLat(b)
       THEN IF IsLat(b) THEN Located(a, b) ELSE None
  ELSE IF IsLat(a) /\ IsLat(b) /\ ~IsLon(a) /\ ~IsLon(b)
       THEN IF IsLon(b) THEN Located(b, a) ELSE None
  ELSE Located(a, b)

PickUp(a, b) ==
  /\ Instant
  /\ pickup' = [given |-> <<a, b>>, used |-> NormalizePickupLocation(a, b)]
  /\ UNCHANGED <<quote, order>>

PricingNext ==
  \/ \E trip \in Trips, urgent \in BOOLEAN : Quote(trip, urgent) \/ PlaceOrder(trip, urgent)
  \/ \E a, b \in Degrees \cup {NotFinite} : PickUp(a, b)

PricingSpec == PricingInit /\ RequestsInit /\ [][PricingNext]_<<pricingVars, reqVars>>

-----------------------------------------------------------------------------
(* Properties                                                              *)

\* What the customer pays is, to the cent, what the rider is paid plus what the platform
\* keeps, and the fees of the destinations plus the urgency fee are the fee of the order,
\* though every amount is rounded on its own.  A quote for the same single destination
\* is what the order costs, unless it is farther than 5 km and the rates differ: the
\* quote then takes the rate of a van, the order never does.
ChargeAddsUp ==
  order # None =>
    /\ order.total = order.fee + order.service
    /\ order.fee = SumFunction(order.legs)
                   + (IF order.urgent THEN Fixed(UrgencyFee) ELSE 0)
    /\ quote # None /\ quote.trip = order.trip /\ quote.urgent = order.urgent
       /\ (order.trip[1] <= 50000 \/ VanRate = BikeRate) => quote.total = order.total

\* A pair in range is taken as longitude and latitude, one that is in range only the
\* other way round is swapped, and nothing else is accepted: the branches for two
\* longitudes or two latitudes never yield a location.
PickupNormalized ==
  pickup # None /\ NotFinite \notin {pickup.given[1], pickup.given[2]} =>
    LET a == pickup.given[1]
        b == pickup.given[2]
    IN pickup.used = IF IsLon(a) /\ IsLat(b) THEN <<a, b>>
                     ELSE IF IsLon(b) /\ IsLat(a) THEN <<b, a>> ELSE None
=============================================================================
