----------------------------- MODULE MCOrderBook -----------------------------
(* Four levels of two price units. MCOrderBook.cfg: prices on the tick, inside
   the window and on both sides of it. The MCOrderBookSubpenny*.cfg: prices
   between the ticks too, as quotes under a dollar have. *)
EXTENDS OrderBook, TLC

RefSymmetry == Permutations(Ref)
=============================================================================
