----------------------------- MODULE CoinsViews -----------------------------
(***************************************************************************)
(* What the stack of CCoinsViews promises (src/src/coins.h): each view     *)
(* stands for a whole set of coins and for the block whose state that set  *)
(* is.  A view on the tip is changed and then merged or dropped; the tip   *)
(* is written to the database now and then.  CoinsCache, which keeps only  *)
(* differences, implements this.                                           *)
(***************************************************************************)
CONSTANTS
    Txids,           \* transactions
    Coins,           \* values of a CCoins, as far as they can be told apart
    Pruned,          \* the one with no output left
    Hashes,          \* blocks
    Genesis

VARIABLES
    db, dbBest,      \* the database: coins of each transaction, and best block
    tip, tipBest,    \* what pcoinsTip shows
    view, viewBest,  \* what the view on top of it shows; the same as the tip when there is none
    open,            \* whether there is one
    state            \* the coins after each block, {} while they are not known

vars == <<db, dbBest, tip, tipBest, view, viewBest, open, state>>

Contents == [Txids -> Coins]
NoCoins == [t \in Txids |-> Pruned]

\* The genesis block has no coins.
Init ==
    /\ db = NoCoins /\ tip = NoCoins /\ view = NoCoins
    /\ dbBest = Genesis /\ tipBest = Genesis /\ viewBest = Genesis
    /\ open = FALSE
    /\ state = [h \in Hashes |-> IF h = Genesis THEN {NoCoins} ELSE {}]

Open ==
    /\ ~open /\ open' = TRUE
    /\ UNCHANGED <<db, dbBest, tip, tipBest, view, viewBest, state>>

Modify(t, c) ==
    /\ open
    /\ view' = [view EXCEPT ![t] = c]
    /\ UNCHANGED <<db, dbBest, tip, tipBest, viewBest, open, state>>

\* The view is the state of block h.
SetBest(h) ==
    /\ open
    /\ state[h] \subseteq {view} /\ state' = [state EXCEPT ![h] = {view}]
    /\ viewBest' = h
    /\ UNCHANGED <<db, dbBest, tip, tipBest, view, open>>

Merge ==
    /\ open /\ state[viewBest] = {view}
    /\ open' = FALSE
    /\ tip' = view /\ tipBest' = viewBest
    /\ UNCHANGED <<db, dbBest, view, viewBest, state>>

Drop ==
    /\ open /\ open' = FALSE
    /\ view' = tip /\ viewBest' = tipBest
    /\ UNCHANGED <<db, dbBest, tip, tipBest, state>>

Write ==
    /\ ~open
    /\ db' = tip /\ dbBest' = tipBest
    /\ UNCHANGED <<tip, tipBest, view, viewBest, open, state>>

\* "If false is returned, the state of this cache ... will be undefined."
WriteFails ==
    /\ ~open
    /\ tip' \in Contents /\ view' = tip'
    /\ UNCHANGED <<db, dbBest, tipBest, viewBest, open, state>>

Restart ==
    /\ open' = FALSE
    /\ tip' = db /\ tipBest' = dbBest
    /\ view' = db /\ viewBest' = dbBest
    /\ UNCHANGED <<db, dbBest, state>>

Next ==
    \/ Open \/ Merge \/ Drop \/ Write \/ WriteFails \/ Restart
    \/ \E t \in Txids, c \in Coins : Modify(t, c)
    \/ \E h \in Hashes : SetBest(h)

Spec == Init /\ [][Next]_vars
=============================================================================
