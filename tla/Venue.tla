-------------------------------- MODULE Venue --------------------------------
(***************************************************************************)
(* EXTERNAL. The exchange account one bot trades on, as the code under     *)
(* src/src/trading uses it: orders keyed by the client order id, a base    *)
(* and a quote balance of which the part held by live orders is not        *)
(* `available`, immediate-or-cancel matching, and other people (the        *)
(* operator, another bot) moving coins in and out of the same account.     *)
(* One unit of base costs one unit of quote and no fee is charged: amounts *)
(* matter here, prices and fees do not.                                    *)
(***************************************************************************)
EXTENDS Integers

CONSTANTS
    StartCash,     \* quote the account holds at first
    AtomicMatch,   \* TRUE: an IOC order is matched and closed in one step;
                   \* FALSE: it may be seen partially filled and still live
    MaxThin,       \* bound: matches that fill less than was asked
    MaxForeign     \* bound: coin movements made by others

ASSUME StartCashAssumption == StartCash \in Nat
ASSUME AtomicMatchAssumption == AtomicMatch \in BOOLEAN
ASSUME VenueBoundsAssumption == MaxThin \in Nat /\ MaxForeign \in Nat

VARIABLES
    orders,        \* every order ever accepted: client order id -> order
    coins,         \* available base balance
    cash,          \* available quote balance
    held,          \* history: base bought minus base sold by the bot's orders
    thin,          \* thin matches so far
    moves          \* coin movements by others so far

venueVars == <<orders, coins, cash, held, thin, moves>>

Sides == {"buy", "sell"}

\* What makeClientOrderId() names: ct-<symbol>-<side>-a<attempt>-<barTime>.
Ids == [side : Sides, attempt : Nat, bar : Nat]

Order == [qty : Nat, filled : Nat, live : BOOLEAN]

VenueTypeOK ==
    /\ DOMAIN orders \subseteq Ids
    /\ orders \in [DOMAIN orders -> Order]
    /\ coins \in Nat /\ cash \in Nat /\ held \in Int
    /\ thin \in Nat /\ moves \in Nat

Live(id) == id \in DOMAIN orders /\ orders[id].live

VenueInit ==
    /\ orders = [id \in {} |-> id]
    /\ coins = 0
    /\ cash = StartCash
    /\ held = 0
    /\ thin = 0
    /\ moves = 0

Affordable(id, qty) ==
    IF id.side = "buy" THEN qty <= cash ELSE qty <= coins

\* The venue takes an order and holds what it may spend.
Accept(id, qty) ==
    /\ id \notin DOMAIN orders
    /\ Affordable(id, qty)
    /\ orders' = [o \in DOMAIN orders \union {id} |->
                    IF o = id THEN [qty |-> qty, filled |-> 0, live |-> TRUE]
                              ELSE orders[o]]
    /\ cash' = IF id.side = "buy" THEN cash - qty ELSE cash
    /\ coins' = IF id.side = "sell" THEN coins - qty ELSE coins
    /\ UNCHANGED <<held, thin, moves>>

\* A live order trades k units against the book; `closes` cancels the rest
\* and releases what it held.
Match(id, k, closes) ==
    LET rest == orders[id].qty - orders[id].filled
        released == IF closes THEN rest - k ELSE 0
    IN  /\ Live(id)
        /\ k \in 0 .. rest
        /\ closes \/ (~AtomicMatch /\ 0 < k /\ k < rest)
        /\ thin' = IF k < rest THEN thin + 1 ELSE thin
        /\ thin' <= MaxThin
        /\ orders' = [orders EXCEPT ![id].filled = @ + k, ![id].live = ~closes]
        /\ IF id.side = "buy"
           THEN /\ coins' = coins + k
                /\ cash' = cash + released
                /\ held' = held + k
           ELSE /\ cash' = cash + k
                /\ coins' = coins + released
                /\ held' = held - k
        /\ UNCHANGED moves

\* Somebody else deposits a coin in the account, or takes one out.
ForeignDeposit ==
    /\ moves < MaxForeign
    /\ moves' = moves + 1
    /\ coins' = coins + 1
    /\ UNCHANGED <<orders, cash, held, thin>>

ForeignWithdraw ==
    /\ moves < MaxForeign
    /\ coins > 0
    /\ moves' = moves + 1
    /\ coins' = coins - 1
    /\ UNCHANGED <<orders, cash, held, thin>>
=============================================================================
