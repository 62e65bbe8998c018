------------------------------ MODULE OrderIds ------------------------------
(***************************************************************************)
(* What the three services share: the ids of the orders, drawn at random   *)
(* by createOrder and never reused (order.service.ts:42).                  *)
(***************************************************************************)
EXTENDS FiniteSets

CONSTANT Orders

(* Eight hexadecimal digits give so many and no more. *)
ASSUME OrdersAssumption == IsFiniteSet(Orders)
=============================================================================
