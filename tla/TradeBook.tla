------------------------------- MODULE TradeBook -------------------------------
(***************************************************************************)
(* What the paper executor promises to the readers of its tables (cash     *)
(* reconstruction, drift analysis, the dashboards): a book of trades.      *)
(* Every trade is entered once and left at most once, by an exit of the    *)
(* same strategy version and symbol; no entry or exit serves two trades;   *)
(* a trade never vanishes, never re-opens and is never revised; a version  *)
(* holds at most one trade open per symbol.  One step may settle any       *)
(* number of entries and exits, as an execute phase does in one commit.    *)
(***************************************************************************)
CONSTANTS
    Ids,        \* identities of orders; a trade is named by its entry order
    SlotOf      \* the (version, symbol) an order belongs to

VARIABLES
    open,       \* entry orders of the open trades
    closed      \* <<entry order, exit order>> of the closed trades

book == <<open, closed>>

Entries(c) == {p[1] : p \in c}
Exits(c) == {p[2] : p \in c}

\* The book o, c is well kept.
WellKept(o, c) ==
    /\ o \subseteq Ids /\ c \subseteq Ids \X Ids
    /\ o \cap Entries(c) = {}
    /\ Exits(c) \cap (o \cup Entries(c)) = {}
    /\ \A i, j \in o : SlotOf[i] = SlotOf[j] => i = j
    /\ \A p \in c : SlotOf[p[1]] = SlotOf[p[2]]
    /\ \A p, q \in c : p[1] = q[1] \/ p[2] = q[2] => p = q

Init == open = {} /\ closed = {}

Settle ==
    /\ closed \subseteq closed'
    /\ open \subseteq open' \cup Entries(closed')
    /\ WellKept(open', closed')

Spec == Init /\ [][Settle]_book
=============================================================================
