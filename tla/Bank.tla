-------------------------------- MODULE Bank --------------------------------
(***************************************************************************)
(* What the pseudoBank programs promise: accounts between which an amount  *)
(* is moved in one step, each transfer under a reference of its own.       *)
(***************************************************************************)
EXTENDS Integers

CONSTANTS Accts, Refs, Amt, StartBal

VARIABLES balance, refs

bvars == <<balance, refs>>

Init == balance = [c \in Accts |-> StartBal] /\ refs = {}

Transfer(f, t, r) ==
  /\ f # t /\ r \notin refs
  /\ balance' = [balance EXCEPT ![f] = @ - Amt, ![t] = @ + Amt]
  /\ refs' = refs \cup {r}

Next == \E f, t \in Accts, r \in Refs : Transfer(f, t, r)

Spec == Init /\ [][Next]_bvars
=============================================================================
