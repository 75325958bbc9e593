------------------------- MODULE ServiceRefinement -------------------------
(***************************************************************************)
(* ServiceEndpoints implements ServiceTable.  A call takes effect in the   *)
(* table when it takes the mutex: from then until it ends the table shows  *)
(* the outcome the call is bound to reach, and otherwise what a caller of  *)
(* state_from_map reads.                                                   *)
(***************************************************************************)
EXTENDS ServiceEndpoints, FiniteSets

Entry(k, pos) == endpointMap[Family(k)][<<serviceMap[k].id, pos>>]

Entries(k) == [pos \in 0 .. serviceMap[k].count - 1 |-> Entry(k, pos)]

(* What is present of such entries, in their order: Nth is the position    *)
(* with i - 1 endpoints before it.                                         *)
Present(es) == {pos \in DOMAIN es : es[pos] # None}

Nth(es, i) == CHOOSE pos \in Present(es) : Cardinality({p \in Present(es) : p < pos}) = i - 1

Filled(es) == [i \in 1 .. Cardinality(Present(es)) |-> es[Nth(es, i)]]

(* The list state_from_map builds for a published key: positions below the *)
(* count, those without an endpoint left out (with a warning).             *)
StateFromMap(k) == Filled(Entries(k))

BeingUpdated(k) == op.kind \in {"insert", "overwrite", "trim"} /\ op.key = k

BeingRemoved(k) == op.kind = "remove" /\ op.key = k

WillBeRemoved == \A pos \in op.pos .. op.end - 1 : Entry(op.key, pos) # None

(* What the table shows of a published key, and the call it shows.         *)
Shown(k) ==
  IF BeingUpdated(k) THEN SubSeq(op.eps, 1, IF Len(op.eps) < serviceMap[k].count
                                              THEN Len(op.eps) ELSE serviceMap[k].count)
  ELSE IF BeingRemoved(k) THEN <<>>
  ELSE StateFromMap(k)

Outcome(k) ==
  IF serviceMap[k] = None \/ (BeingRemoved(k) /\ WillBeRemoved) THEN None
  ELSE [capacity |-> serviceMap[k].count, eps |-> Shown(k)]

CallInProgress ==
  IF op = Idle THEN None
  ELSE IF op.kind = "remove" THEN [kind |-> "remove", key |-> op.key]
  ELSE [kind |-> "update", key |-> op.key, eps |-> op.eps]

TableShown == [k \in Keys |-> Outcome(k)]

ListsFor(k) == EndpointLists(Pool[k])

Promised == INSTANCE ServiceTable WITH
  Lists <- ListsFor,
  call <- CallInProgress,
  table <- TableShown

ASSUME NoneIsNoCall ==
  None \notin [kind : {"update"}, key : Keys, eps : EndpointLists(Endpoints)]
              \union [kind : {"remove"}, key : Keys]
ASSUME NoneIsNoEntry == None \notin [capacity : Counts, eps : EndpointLists(Endpoints)]

(* State constraint: the runs stop before the last id is handed out.       *)
IdsRemain == nextId < IdLimit - 1

(***************************************************************************)
(* With no accidents and ids left, every call has exactly the effect the   *)
(* table promises, however its system calls interleave with connections,   *)
(* and leaves the other keys alone (state.rs:84-173).                      *)
(***************************************************************************)
ImplementsTable == Promised!Spec

(***************************************************************************)
(* An update fails exactly when the table says so: its trim meets an       *)
(* absent position if and only if the list was already short.  (The caller *)
(* gives up its other keys on that error, controller.rs:136-143.)          *)
(***************************************************************************)
TrimWillFail == \E pos \in Len(op.eps) .. op.end - 1 : Entry(op.key, pos) = None

ErrorsAsPromised ==
  [][\A k \in Keys : \A eps \in EndpointLists(Pool[k]) :
       BeginOverwrite(k, eps) => (TrimWillFail' <=> Promised!UpdateFails(k, eps))]_vars

(***************************************************************************)
(* Why: with no accidents and ids left, the endpoints of a service have no *)
(* gap before its count, but for those a trim or a removal is past; and a  *)
(* call has done, at each position it is past, what it is there for        *)
(* (state.rs:130-173, 258-297).                                            *)
(***************************************************************************)
Deleting(k) == op.kind \in {"trim", "remove"} /\ op.key = k

NoGaps(k, from) ==
  \A p, q \in from .. serviceMap[k].count - 1 :
    p < q /\ Entry(k, q) # None => Entry(k, p) # None

Written(upTo) == \A p \in 0 .. upTo - 1 : Entry(op.key, p) = op.eps[p + 1]
Deleted(from) == \A p \in from .. op.pos - 1 : Entry(op.key, p) = None

CallIsOnItsWay ==
  /\ serviceMap[op.key].count = IF op.kind = "insert" THEN Len(op.eps) ELSE op.end
  /\ op.kind \in {"insert", "overwrite"} => op.pos <= Len(op.eps) /\ Written(op.pos)
  /\ op.kind = "trim" => /\ Len(op.eps) <= op.pos /\ op.pos <= op.end
                         /\ Written(Len(op.eps)) /\ Deleted(Len(op.eps))
  /\ op.kind = "remove" => op.pos <= op.end /\ Deleted(0)

ListsInv ==
  /\ \A k \in Keys : serviceMap[k] # None => NoGaps(k, IF Deleting(k) THEN op.pos ELSE 0)
  /\ op # Idle => CallIsOnItsWay

(***************************************************************************)
(* Whatever failed before, and although after a restart services may share *)
(* their ids: a call that succeeds has done all that it is for.  After     *)
(* update a reader finds the new list, as far as the recorded count goes,  *)
(* and after remove neither the key nor an endpoint below the count        *)
(* (state.rs:84-173).                                                      *)
(***************************************************************************)
UpdateSucceeds == FinishInsert \/ FinishTrim \/ (FinishOverwrite /\ op' = Idle)

SuccessIsExact ==
  [][\A k \in Keys : op.key = k =>
       /\ UpdateSucceeds => StateFromMap(k)' = Promised!Clip(op.eps, serviceMap'[k].count)
       /\ FinishRemove   => /\ serviceMap'[k] = None
                            /\ \A pos \in 0 .. serviceMap[k].count - 1 : Entry(k, pos) = None]_vars

(***************************************************************************)
(* A removal that starts with every position in place ends with the key    *)
(* gone: no leftover of an earlier call stops it half-way (state.rs:108).  *)
(***************************************************************************)
WholeServiceIsRemoved ==
  \A k \in Keys : BeingRemoved(k) /\ WillBeRemoved ~> serviceMap[k] = None
=============================================================================
