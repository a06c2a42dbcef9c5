----------------------------- MODULE StockBook -----------------------------
(***************************************************************************)
(* What the inventory ledger promises to the rest of the system, with no   *)
(* database in sight: the stock book changes in single steps, each step    *)
(* changes every balance by exactly what was posted to it, no balance goes *)
(* below zero, and the transaction numbers of a year are 1, 2, 3, ...      *)
(* Ledger.tla, where a posting is many statements of concurrent database   *)
(* transactions, is shown to implement this module.                        *)
(***************************************************************************)
EXTENDS Integers

CONSTANTS
    Key,        \* balance rows: a location and what is kept there
    Year,       \* calendar years: transaction numbers start again in each
    Opening     \* [Key -> Amount]: the balances the book opens with

VARIABLES
    book,       \* the balance of every key
    posted,     \* the sum of everything posted to it so far
    forgiven,   \* what rounding residues below zero were forgiven
    issued,     \* how many transaction numbers each year has issued
    rows        \* the ledger rows, never changed once written

bookVars == <<book, posted, forgiven, issued, rows>>

Column == {"kg", "bags"}
Amount == [Column -> Int]
Zero == [c \in Column |-> 0]

NumbersOf(set, y) == {r.number : r \in {x \in set : x.year = y}}

Init ==
    /\ book = Opening
    /\ posted = [k \in Key |-> Zero]
    /\ forgiven = [k \in Key |-> Zero]
    /\ issued = [y \in Year |-> 0]
    /\ rows = {}

\* One whole business action: all of its postings and all of its rows, or
\* nothing.  What is posted is left open; how the book follows is not.
Post ==
    /\ book' = [k \in Key |-> [c \in Column |->
                  book[k][c] + (posted'[k][c] - posted[k][c])
                             + (forgiven'[k][c] - forgiven[k][c])]]
    /\ \A k \in Key, c \in Column : book'[k][c] >= 0
    /\ \A k \in Key : /\ forgiven'[k]["kg"] >= forgiven[k]["kg"]
                      /\ forgiven'[k]["bags"] = forgiven[k]["bags"]
    /\ rows \subseteq rows'
    /\ \A y \in Year :
          NumbersOf(rows' \ rows, y) = (issued[y] + 1) .. issued'[y]

Spec == Init /\ [][Post]_bookVars
=============================================================================
