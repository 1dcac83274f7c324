----------------------------- MODULE SerialQueue -----------------------------
(***************************************************************************)
(* What a delivery queue of the control plane promises while its processor *)
(* and the processor's runs agree. Items may be enqueued in any order. A   *)
(* taker picks the first of those that are waiting when it looks, takes it *)
(* in a second statement, or leaves it where it is, and is done with it    *)
(* before it looks again: one item at a time, each finished once. An item  *)
(* enqueued between the look and the taking comes after the one picked,    *)
(* whatever its place in the order.                                        *)
(***************************************************************************)
EXTENDS Naturals

CONSTANT Items   \* the items, numbered by their source order

VARIABLE item    \* item[i]: absent, waiting, picked, taken or finished

Init == item = [i \in Items |-> "absent"]

Move(i, from, to) ==
  /\ item[i] = from
  /\ item' = [item EXCEPT ![i] = to]

Enqueue(i) == Move(i, "absent", "waiting")

\* Nothing is picked while an item is in hand.
Pick(i) ==
  /\ \A j \in Items : /\ item[j] \notin {"picked", "taken"}
                      /\ item[j] = "waiting" => i <= j
  /\ Move(i, "waiting", "picked")

Take(i) == Move(i, "picked", "taken")

\* The taker failed before it had taken the item.
PutBack(i) == Move(i, "picked", "waiting")

Finish(i) == Move(i, "taken", "finished")

Next ==
  \E i \in Items : Enqueue(i) \/ Pick(i) \/ Take(i) \/ PutBack(i) \/ Finish(i)

Spec == Init /\ [][Next]_item
=============================================================================
