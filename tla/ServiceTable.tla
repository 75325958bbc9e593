---------------------------- MODULE ServiceTable ----------------------------
(***************************************************************************)
(* What the agent's service state promises its callers when nothing fails  *)
(* and ids last: one table from service keys to lists of endpoints, and a  *)
(* call at a time, which takes effect in one step when it begins and in no *)
(* other until it returns.  Two oddities of the code are part of the promise.  An   *)
(* entry keeps the capacity of its first list for good and shows at most   *)
(* that many endpoints; and an entry that shows fewer than its capacity    *)
(* cannot be withdrawn: the call fails, having emptied the list.           *)
(* ServiceRefinement shows that ServiceEndpoints implements this.          *)
(***************************************************************************)
EXTENDS Naturals, Sequences

CONSTANTS Keys, Lists(_), None

VARIABLES
  table,
  call    \* the call in progress and its argument, or None

Init ==
  /\ table = [k \in Keys |-> None]
  /\ call = None

Clip(eps, n) == SubSeq(eps, 1, IF Len(eps) < n THEN Len(eps) ELSE n)

Publish(k, eps) ==
  /\ table[k] = None
  /\ table' = [table EXCEPT ![k] = [capacity |-> Len(eps), eps |-> eps]]

Replace(k, eps) ==
  /\ table[k] # None
  /\ table' = [table EXCEPT ![k].eps = Clip(eps, table[k].capacity)]

Withdraw(k) ==
  /\ table[k] # None
  /\ Len(table[k].eps) = table[k].capacity
  /\ table' = [table EXCEPT ![k] = None]

(* update returns an error, although it has had its effect, when the list  *)
(* is shorter than the capacity and so was the list before it.             *)
UpdateFails(k, eps) ==
  /\ table[k] # None
  /\ Len(table[k].eps) < table[k].capacity
  /\ Len(eps) < table[k].capacity

FailToWithdraw(k) ==
  /\ table[k] # None
  /\ Len(table[k].eps) < table[k].capacity
  /\ table' = [table EXCEPT ![k].eps = <<>>]

UpdateCall(k, eps) == [kind |-> "update", key |-> k, eps |-> eps]
RemoveCall(k)      == [kind |-> "remove", key |-> k]

Begin ==
  /\ call = None
  /\ \E k \in Keys :
       \/ \E eps \in Lists(k) :
            (Publish(k, eps) \/ Replace(k, eps)) /\ call' = UpdateCall(k, eps)
       \/ (Withdraw(k) \/ FailToWithdraw(k)) /\ call' = RemoveCall(k)

Return ==
  /\ call # None
  /\ call' = None
  /\ UNCHANGED table

Next == Begin \/ Return

Spec == Init /\ [][Next]_<<table, call>>
=============================================================================
