------------------------------- MODULE Accounts -------------------------------
(***************************************************************************)
(* The account documents of the database (worker/src/database/accounts.py) *)
(* and the cached stock prices, with the updates the command handlers make *)
(* on them.  Each update is one atomic update_one of a document.  Money is *)
(* counted in whole units, since every sum is computed from one quote and  *)
(* later added or subtracted unchanged.                                    *)
(*                                                                         *)
(* stocks[u][s] is the sub-sequence of the elements of the embedded array  *)
(* `stocks` of u whose symbol is s: a query on stocks__symbol matches when *)
(* it is not empty, the positional update stocks.$ changes its first       *)
(* element, a push appends to it and a pull by symbol empties it.          *)
(***************************************************************************)
EXTENDS Integers, Sequences

CONSTANTS
    Users,      \* user ids
    Stocks,     \* stock symbols
    Prices,     \* the prices the quote server may answer
    Deposits,   \* the sums of the ADD commands
    MaxFunds,   \* bound on the account an ADD may reach (a bound of the model)
    None        \* Python's None

ASSUME PricesAssumption == Prices \subseteq Nat \ {0}
ASSUME DepositsAssumption == Deposits \subseteq Nat
ASSUME NoneIsNoPrice == None \notin Prices
ASSUME FundsAssumption == MaxFunds \in Nat

VARIABLES
    exists,       \* the users that have a document
    account,      \* Accounts.account: the money a user owns
    available,    \* Accounts.available: the part that is not reserved
    stocks,       \* Accounts.stocks
    quote_cache   \* the redis cache of prices

db == <<exists, account, available, stocks, quote_cache>>

(***************************************************************************)
(* An element of the array: the shares owned, and those not reserved.      *)
(***************************************************************************)
Holding == [amount : Int, available : Int]

DbTypeOK ==
    /\ exists \subseteq Users
    /\ account \in [Users -> Int]
    /\ available \in [Users -> Int]
    /\ stocks \in [Users -> [Stocks -> Seq(Holding)]]
    /\ quote_cache \in [Stocks -> Prices \cup {None}]

DbInit ==
    /\ exists = {}
    /\ account = [u \in Users |-> 0]
    /\ available = [u \in Users |-> 0]
    /\ stocks = [u \in Users |-> [s \in Stocks |-> << >>]]
    /\ quote_cache = [s \in Stocks |-> None]

(***************************************************************************)
(* get_quote: the cached price, or any answer of the quote server, which   *)
(* is then cached.  The entry expires int(quote_server_time) + 1000        *)
(* seconds after it is written, where the time is the server's timestamp:  *)
(* it outlives the system.                                                 *)
(***************************************************************************)
QuoteOf(s) == IF quote_cache[s] = None THEN Prices ELSE {quote_cache[s]}

CacheQuote(s, v) == quote_cache' = [quote_cache EXCEPT ![s] = v]

Owns(u, s) == stocks[u][s] # << >>

(***************************************************************************)
(* push__stocks and inc__stocks__S__*: the new value of stocks.  Replaced  *)
(* is a variant of the push with a mistake.                                *)
(***************************************************************************)
Replaced(u, s, h) == [stocks EXCEPT ![u][s] = <<h>>]

Pushed(u, s, h) == [stocks EXCEPT ![u][s] = Append(@, h)]

Increased(u, s, da, dv) ==
    LET h == stocks[u][s][1]
    IN  [stocks EXCEPT ![u][s][1] = [amount |-> h.amount + da,
                                     available |-> h.available + dv]]

(***************************************************************************)
(* ADD: credit both sums, creating the document of a new user.             *)
(***************************************************************************)
Add(u, a) ==
    /\ account[u] + a <= MaxFunds
    /\ exists' = exists \cup {u}
    /\ account' = [account EXCEPT ![u] = @ + a]
    /\ available' = [available EXCEPT ![u] = @ + a]
    /\ UNCHANGED <<stocks, quote_cache>>

(***************************************************************************)
(* QUOTE: only the cache may change.                                       *)
(***************************************************************************)
Quote(u, s, v) ==
    /\ u \in exists
    /\ v \in QuoteOf(s)
    /\ CacheQuote(s, v)
    /\ UNCHANGED <<exists, account, available, stocks>>
===============================================================================
