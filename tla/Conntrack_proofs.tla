-------------------------- MODULE Conntrack_proofs --------------------------
(***************************************************************************)
(* That a TCP connection has its client's entry only, that the time of     *)
(* that entry is the one of its last packet, and that the cleanup task     *)
(* spares what is alive: for any number of flows, CPUs and entries, any    *)
(* timeouts, and any time that a program or a pass may take.               *)
(***************************************************************************)
EXTENDS Conntrack, TLAPS

CpuType ==
  [step : {"idle", "own", "reverse", "write"},
   key : Keys \union {None}, opens : BOOLEAN, age : 0 .. MaxLag]

PassType ==
  [step : {"sleeping", "walk", "remove"}, age : 0 .. MaxLag,
   last : Keys \union {None}, expired : SUBSET Keys, twice : SUBSET Keys]

CtTypes ==
  /\ ct \in [Keys -> Ages \union {None}]
  /\ cpus \in [Cpus -> CpuType]
  /\ pass \in PassType
  /\ heard \in [TcpFlows -> Ages]

BusyHaveKeys == \A c \in Cpus : cpus[c].step # "idle" => cpus[c].key \in Keys

(* The packets of a server are looked up, and write under the client's key *)
(* or not at all.                                                          *)
AnswersWriteNothing ==
  \A c \in Cpus, f \in TcpFlows :
    cpus[c].key = <<f, "rev">> => cpus[c].step # "write" /\ ~cpus[c].opens

(* An entry that a program did not find was written since, by a program    *)
(* that was at work for no longer than MaxLag.                             *)
WrittenSince ==
  \A c \in Cpus, f \in TcpFlows :
    LET age == ct[<<f, "fwd">>] IN
    cpus[c].step = "reverse" /\ cpus[c].key = <<f, "fwd">> /\ age # None => age <= MaxLag + cpus[c].age

ExpiredOrTouched ==
  \A k \in pass.expired : ct[k] # None => k \in touched \/ ct[k] > pass.age + Timeout(k)

CtInv ==
  /\ CtTypes /\ BusyHaveKeys
  /\ TcpEntryIsTheClients /\ AnswersWriteNothing
  /\ LastSeenIsRecent /\ WrittenSince
  /\ ExpiredOrTouched

-----------------------------------------------------------------------------
LEMMA Numbers ==
  /\ MaxLag \in Nat /\ Old \in Nat
  /\ \A k \in Keys : Timeout(k) \in Nat /\ Timeout(k) + MaxLag < Old
<1>1. MaxLag \in Nat /\ TcpTimeout \in Nat /\ UdpTimeout \in Nat
  BY TimesAreNumbers
<1> QED
  BY <1>1 DEF Old, Timeout

LEMMA TcpKeys == \A f \in TcpFlows : <<f, "fwd">> \in Keys /\ <<f, "rev">> \in Keys
  BY DEF Keys, Flows

(* The two keys of a flow.                                                 *)
LEMMA ReverseKeys ==
  /\ \A k \in Keys : Reverse(k) \in Keys /\ k[1] = Reverse(k)[1]
  /\ \A k \in Keys, f \in TcpFlows : k = <<f, "rev">> => Reverse(k) = <<f, "fwd">>
  /\ \A k \in Keys, f \in TcpFlows : k[1] = f => k = <<f, "fwd">> \/ k = <<f, "rev">>
  /\ \A k \in Keys, f \in TcpFlows : Reverse(k) = <<f, "rev">> => k = <<f, "fwd">>
  BY DEF Reverse, Keys

LEMMA Resting ==
  /\ Idle \in CpuType /\ Idle.step = "idle" /\ Idle.opens = FALSE
  /\ Sleeping \in PassType /\ Sleeping.expired = {} /\ Sleeping.step = "sleeping" /\ Sleeping.age = 0
  BY Numbers DEF Idle, Sleeping, CpuType, PassType

LEMMA InitCt == Init => CtInv
<1> SUFFICES ASSUME Init PROVE CtInv
  OBVIOUS
<1>1. CtTypes
  BY Resting, Numbers DEF Init, CtTypes, Ages
<1>2. \A k \in Keys : ct[k] = None
  BY DEF Init
<1>3. TcpEntryIsTheClients /\ LastSeenIsRecent /\ WrittenSince
  BY <1>2, TcpKeys DEF TcpEntryIsTheClients, LastSeenIsRecent, WrittenSince
<1>4. BusyHaveKeys /\ AnswersWriteNothing /\ ExpiredOrTouched
  BY Resting DEF Init, BusyHaveKeys, AnswersWriteNothing, ExpiredOrTouched
<1> QED
  BY <1>1, <1>3, <1>4 DEF CtInv

-----------------------------------------------------------------------------
(* A step of the program on one CPU, which leaves the others alone.        *)
LEMMA CpuSteps ==
  ASSUME CtInv, NEW c \in Cpus, NEW w \in CpuType, cpus' = [cpus EXCEPT ![c] = w],
         UNCHANGED <<ct, pass, heard, touched>>,
         w.step # "idle" => w.key \in Keys,
         \A f \in TcpFlows : w.key = <<f, "rev">> => w.step # "write" /\ ~w.opens,
         \A f \in TcpFlows : w.step = "reverse" /\ w.key = <<f, "fwd">> => ct[<<f, "fwd">>] = None
  PROVE  CtInv'
<1>1. CtTypes' /\ BusyHaveKeys'
  BY DEF CtInv, CtTypes, BusyHaveKeys
<1>2. TcpEntryIsTheClients' /\ LastSeenIsRecent' /\ ExpiredOrTouched'
  BY DEF CtInv, TcpEntryIsTheClients, LastSeenIsRecent, ExpiredOrTouched
<1>3. AnswersWriteNothing' /\ WrittenSince'
  BY DEF CtInv, CtTypes, AnswersWriteNothing, WrittenSince
<1> QED
  BY <1>1, <1>2, <1>3 DEF CtInv

LEMMA ReceiveStep == ASSUME CtInv, NEW c \in Cpus, Receive(c) PROVE CtInv'
<1>0. PICK k \in Keys : \E opens \in MayOpen(k) :
        cpus' = [cpus EXCEPT ![c] = [step |-> "own", key |-> k, opens |-> opens, age |-> 0]]
  BY DEF Receive
<1>1. PICK opens \in MayOpen(k) :
        cpus' = [cpus EXCEPT ![c] = [step |-> "own", key |-> k, opens |-> opens, age |-> 0]]
  BY <1>0
<1> DEFINE w == [step |-> "own", key |-> k, opens |-> opens, age |-> 0]
<1>2. w \in CpuType
  <2>1. opens \in BOOLEAN
    BY DEF MayOpen
  <2> QED
    BY <2>1, Numbers DEF CpuType
<1>3. ASSUME NEW f \in TcpFlows, k = <<f, "rev">> PROVE ~opens
  BY <1>3, FlowsDisjoint DEF MayOpen
<1>4. UNCHANGED <<ct, pass, heard, touched>>
  BY DEF Receive
<1> QED
  BY <1>1, <1>2, <1>3, <1>4, CpuSteps

LEMMA FindOwnStep == ASSUME CtInv, NEW c \in Cpus, FindOwn(c) PROVE CtInv'
<1> DEFINE k == cpus[c].key
<1> DEFINE w == [cpus[c] EXCEPT !.step = IF ct[k] # None THEN "write" ELSE "reverse"]
<1>1. cpus[c] \in CpuType /\ k \in Keys
  BY DEF CtInv, CtTypes, BusyHaveKeys, FindOwn
<1>2. /\ w \in CpuType /\ w.key = k /\ w.opens = cpus[c].opens
      /\ w.step = IF ct[k] # None THEN "write" ELSE "reverse"
  BY <1>1 DEF CpuType
<1>3. cpus' = [cpus EXCEPT ![c] = w] /\ UNCHANGED <<ct, pass, heard, touched>>
  BY DEF FindOwn
<1>4. \A f \in TcpFlows : k = <<f, "rev">> => ct[k] = None /\ ~cpus[c].opens
  BY DEF CtInv, TcpEntryIsTheClients, AnswersWriteNothing
<1> HIDE DEF w
<1> QED
  BY <1>1, <1>2, <1>3, <1>4, CpuSteps

(* A packet is dealt with: the flow is heard of.                           *)
LEMMA HeardOf ==
  ASSUME CtInv, NEW c \in Cpus, cpus[c].key \in Keys, Done(c), UNCHANGED <<ct, pass, touched>>,
         \A f \in TcpFlows :
           cpus[c].key[1] = f => ct[<<f, "fwd">>] = None \/ ct[<<f, "fwd">>] <= 2 * MaxLag
  PROVE  CtInv'
<1>1. /\ cpus' = [cpus EXCEPT ![c] = Idle]
      /\ heard' = [f \in TcpFlows |-> IF f = cpus[c].key[1] THEN 0 ELSE heard[f]]
  BY DEF Done
<1>2. heard' \in [TcpFlows -> Ages]
  BY <1>1, Numbers DEF CtInv, CtTypes, Ages
<1>3. CtTypes' /\ BusyHaveKeys'
  BY <1>1, <1>2, Resting DEF CtInv, CtTypes, BusyHaveKeys
<1>4. TcpEntryIsTheClients' /\ ExpiredOrTouched'
  BY DEF CtInv, TcpEntryIsTheClients, ExpiredOrTouched
<1>5. AnswersWriteNothing' /\ WrittenSince'
  BY <1>1, Resting DEF CtInv, CtTypes, AnswersWriteNothing, WrittenSince
<1>6. LastSeenIsRecent'
  <2>1. \A f \in TcpFlows : heard'[f] = IF f = cpus[c].key[1] THEN 0 ELSE heard[f]
    BY <1>1
  <2> QED
    BY <2>1, Numbers DEF CtInv, LastSeenIsRecent
<1> QED
  BY <1>3, <1>4, <1>5, <1>6 DEF CtInv

LEMMA FindReverseStep == ASSUME CtInv, NEW c \in Cpus, FindReverse(c) PROVE CtInv'
<1> DEFINE k == cpus[c].key
<1>1. cpus[c] \in CpuType /\ k \in Keys /\ cpus[c].step = "reverse"
  BY DEF CtInv, CtTypes, BusyHaveKeys, FindReverse
<1>2. \A f \in TcpFlows : k = <<f, "rev">> => ~cpus[c].opens
  BY DEF CtInv, AnswersWriteNothing
<1>3. CASE ct[Reverse(k)] # None
  <2> DEFINE w == [cpus[c] EXCEPT !.step = "write", !.key = Reverse(@)]
  <2>1. w \in CpuType /\ w.key = Reverse(k) /\ w.step = "write"
    BY <1>1, ReverseKeys DEF CpuType
  <2>2. \A f \in TcpFlows : Reverse(k) # <<f, "rev">>
    BY <1>3 DEF CtInv, TcpEntryIsTheClients
  <2>3. cpus' = [cpus EXCEPT ![c] = w] /\ UNCHANGED <<ct, pass, heard, touched>>
    BY <1>3 DEF FindReverse
  <2>4. Reverse(k) \in Keys
    BY <1>1, ReverseKeys
  <2> HIDE DEF w, k
  <2> QED
    BY <2>1, <2>2, <2>3, <2>4, CpuSteps
<1>4. CASE ct[Reverse(k)] = None /\ cpus[c].opens
  <2> DEFINE w == [cpus[c] EXCEPT !.step = "write"]
  <2>1. w \in CpuType /\ w.key = k /\ w.step = "write"
    BY <1>1 DEF CpuType
  <2>2. cpus' = [cpus EXCEPT ![c] = w] /\ UNCHANGED <<ct, pass, heard, touched>>
    BY <1>4 DEF FindReverse
  <2> HIDE DEF w
  <2> QED
    BY <1>1, <1>2, <1>4, <2>1, <2>2, CpuSteps
<1>5. CASE ct[Reverse(k)] = None /\ ~cpus[c].opens
  <2>1. Done(c) /\ UNCHANGED <<ct, pass, touched>>
    BY <1>5 DEF FindReverse
  <2>2. ASSUME NEW f \in TcpFlows, k[1] = f
        PROVE  ct[<<f, "fwd">>] = None \/ ct[<<f, "fwd">>] <= 2 * MaxLag
    <3>1. CASE k = <<f, "rev">>
      BY <1>1, <1>5, <3>1, ReverseKeys
    <3>2. CASE k = <<f, "fwd">> /\ ct[<<f, "fwd">>] # None
      <4>1. ct[<<f, "fwd">>] <= MaxLag + cpus[c].age
        BY <1>1, <3>2 DEF CtInv, WrittenSince
      <4>2. cpus[c].age \in 0 .. MaxLag /\ ct[<<f, "fwd">>] \in Nat
        BY <1>1, <3>2, TcpKeys, Numbers DEF CpuType, CtInv, CtTypes, Ages
      <4> QED
        BY <4>1, <4>2, Numbers
    <3> QED
      BY <1>1, <2>2, <3>1, <3>2, ReverseKeys
  <2> QED
    BY <1>1, <2>1, <2>2, HeardOf
<1> QED
  BY <1>3, <1>4, <1>5

LEMMA WriteStep == ASSUME CtInv, NEW c \in Cpus, Write(c) PROVE CtInv'
<1> DEFINE k == cpus[c].key
<1>1. cpus[c] \in CpuType /\ k \in Keys /\ cpus[c].age \in 0 .. MaxLag
  BY DEF CtInv, CtTypes, CpuType, BusyHaveKeys, Write
<1>0. PICK victim :
        ct' = [[x \in Keys |-> IF x = victim THEN None ELSE ct[x]] EXCEPT ![k] = cpus[c].age]
  BY DEF Write
<1>2. ct'[k] = cpus[c].age
  BY <1>0, <1>1
<1>3. \A x \in Keys : x # k => ct'[x] \in {None, ct[x]}
  BY <1>0
<1>4. /\ cpus' = [cpus EXCEPT ![c] = Idle]
      /\ heard' = [f \in TcpFlows |-> IF f = k[1] THEN 0 ELSE heard[f]]
      /\ touched' = touched \union ({k} \intersect pass.expired) /\ pass' = pass
  BY DEF Write, Done
<1>5. CtTypes'
  <2>1. ct' = [x \in Keys |-> ct'[x]]
    BY <1>0
  <2>2. \A x \in Keys : ct'[x] \in Ages \union {None}
    BY <1>1, <1>2, <1>3, Numbers DEF CtInv, CtTypes, Ages, Old
  <2>3. heard' \in [TcpFlows -> Ages]
    BY <1>4, Numbers DEF CtInv, CtTypes, Ages
  <2> QED
    BY <1>4, <2>1, <2>2, <2>3, Resting DEF CtInv, CtTypes
<1>6. BusyHaveKeys' /\ AnswersWriteNothing'
  BY <1>4, Resting DEF CtInv, CtTypes, BusyHaveKeys, AnswersWriteNothing
<1>7. \A f \in TcpFlows : k # <<f, "rev">>
  BY DEF CtInv, AnswersWriteNothing, Write
<1>8. TcpEntryIsTheClients'
  BY <1>3, <1>7, TcpKeys DEF CtInv, TcpEntryIsTheClients
<1>9. \A f \in TcpFlows : \/ ct'[<<f, "fwd">>] = cpus[c].age /\ k = <<f, "fwd">>
                          \/ ct'[<<f, "fwd">>] \in {None, ct[<<f, "fwd">>]} /\ k[1] # f
  BY <1>1, <1>2, <1>3, <1>7, TcpKeys, ReverseKeys
<1>10. LastSeenIsRecent'
  <2>1. \A f \in TcpFlows : heard'[f] = IF f = k[1] THEN 0 ELSE heard[f]
    BY <1>4
  <2> HIDE DEF k
  <2> QED
    BY <1>1, <1>9, <2>1, Numbers DEF CtInv, LastSeenIsRecent, k
<1>11. WrittenSince'
  <2>1. \A d \in Cpus : cpus'[d] = IF d = c THEN Idle ELSE cpus[d]
    BY <1>4 DEF CtInv, CtTypes
  <2>2. \A d \in Cpus : cpus[d].age \in 0 .. MaxLag
    BY DEF CtInv, CtTypes, CpuType
  <2> QED
    BY <1>1, <1>9, <2>1, <2>2, Numbers, Resting DEF CtInv, WrittenSince
<1>12. ExpiredOrTouched'
  <2>1. pass.expired \subseteq Keys
    BY DEF CtInv, CtTypes, PassType
  <2> QED
    BY <1>3, <1>4, <2>1 DEF CtInv, ExpiredOrTouched
<1> QED
  BY <1>5, <1>6, <1>8, <1>10, <1>11, <1>12 DEF CtInv

-----------------------------------------------------------------------------
(* A step of the task.                                                     *)
LEMMA PassSteps ==
  ASSUME CtInv, NEW q \in PassType, pass' = q, UNCHANGED <<ct, cpus, heard>>,
         \A k \in q.expired : ct[k] # None => k \in touched' \/ ct[k] > q.age + Timeout(k)
  PROVE  CtInv'
<1>1. CtTypes' /\ BusyHaveKeys' /\ TcpEntryIsTheClients' /\ AnswersWriteNothing' /\ LastSeenIsRecent'
      /\ WrittenSince'
  BY DEF CtInv, CtTypes, BusyHaveKeys, TcpEntryIsTheClients, AnswersWriteNothing, LastSeenIsRecent, WrittenSince
<1>2. ExpiredOrTouched'
  BY DEF ExpiredOrTouched
<1> QED
  BY <1>1, <1>2 DEF CtInv

LEMMA WalkStep ==
  ASSUME CtInv, (\E k \in Keys : Visit(k)) \/ Rewind \/ EndWalk PROVE CtInv'
<1>1. pass \in PassType /\ pass.age \in Nat
  BY Numbers DEF CtInv, CtTypes, PassType
<1>2. UNCHANGED <<ct, cpus, heard, touched>>
  BY DEF Visit, Rewind, EndWalk
<1>3. ASSUME NEW k \in Keys, Visit(k) PROVE CtInv'
  <2> DEFINE q == [pass EXCEPT
                     !.last = k,
                     !.expired = IF Expired(k) THEN @ \union {k} ELSE @,
                     !.twice = IF Expired(k) /\ k \in pass.expired THEN @ \union {k} ELSE @]
  <2>1. q \in PassType /\ q.age = pass.age
    BY <1>1 DEF PassType
  <2>2. q.expired = IF Expired(k) THEN pass.expired \union {k} ELSE pass.expired
    BY <1>1 DEF PassType
  <2>3. pass' = q
    BY <1>3 DEF Visit
  <2>4. Expired(k) /\ ct[k] # None => ct[k] > pass.age + Timeout(k)
    <3>1. ct[k] # None => ct[k] \in Nat
      BY Numbers DEF CtInv, CtTypes, Ages
    <3> QED
      BY <1>1, <3>1, Numbers DEF Expired
  <2> HIDE DEF q
  <2> QED
    BY <1>2, <2>1, <2>2, <2>3, <2>4, PassSteps DEF CtInv, ExpiredOrTouched
<1>4. CASE Rewind \/ EndWalk
  <2>1. pass' \in PassType /\ pass'.expired = pass.expired /\ pass'.age = pass.age
    BY <1>1, <1>4 DEF Rewind, EndWalk, PassType
  <2> QED
    BY <1>2, <2>1, PassSteps DEF CtInv, ExpiredOrTouched
<1> QED
  BY <1>3, <1>4

LEMMA RestStep ==
  ASSUME CtInv, StartPass \/ (\E k \in Keys : RemoveGone(k)) \/ EndPass PROVE CtInv'
<1>1. pass' \in PassType /\ pass'.expired = {} /\ UNCHANGED <<ct, cpus, heard>>
  BY Resting DEF StartPass, RemoveGone, EndPass, Sleeping, PassType
<1> QED
  BY <1>1, PassSteps

LEMMA RemoveStep == ASSUME CtInv, NEW k \in Keys, RemoveExpired(k) PROVE CtInv'
<1>1. ct' = [ct EXCEPT ![k] = None] /\ UNCHANGED <<cpus, heard>> /\ touched' = touched \intersect pass'.expired
  BY DEF RemoveExpired
<1>2. \A x \in Keys : ct'[x] \in {None, ct[x]} /\ ct'[k] = None
  BY <1>1 DEF CtInv, CtTypes
<1>3. /\ pass' \in PassType /\ pass'.age = pass.age /\ pass'.expired \subseteq pass.expired
      /\ pass.expired \subseteq Keys
  BY DEF RemoveExpired, CtInv, CtTypes, PassType
<1>4. CtTypes' /\ BusyHaveKeys'
  BY <1>1, <1>3 DEF CtInv, CtTypes, BusyHaveKeys
<1>5. TcpEntryIsTheClients' /\ LastSeenIsRecent'
  BY <1>1, <1>2, TcpKeys DEF CtInv, TcpEntryIsTheClients, LastSeenIsRecent
<1>6. AnswersWriteNothing' /\ WrittenSince'
  BY <1>1, <1>2, TcpKeys DEF CtInv, AnswersWriteNothing, WrittenSince
<1>7. ExpiredOrTouched'
  BY <1>1, <1>2, <1>3 DEF CtInv, ExpiredOrTouched
<1> QED
  BY <1>4, <1>5, <1>6, <1>7 DEF CtInv

-----------------------------------------------------------------------------
LEMMA TickStep == ASSUME CtInv, Tick PROVE CtInv'
<1>0. \A n \in Ages : Older(n) \in Ages /\ Older(n) <= n + 1 /\ n <= Older(n)
  BY Numbers DEF Older, Ages
<1>1. /\ ct' = [k \in Keys |-> IF ct[k] = None THEN None ELSE Older(ct[k])]
      /\ \A k \in Keys : ct[k] # None => ct[k] \in Ages
      /\ \A k \in Keys : ct'[k] = None <=> ct[k] = None
  BY <1>0, NoneIsNoAge, Numbers DEF Tick, CtInv, CtTypes, Ages
<1>2. ASSUME NEW c \in Cpus
      PROVE  /\ cpus'[c] \in CpuType /\ cpus'[c].step = cpus[c].step
             /\ \/ cpus'[c] = Idle
                \/ /\ cpus'[c].key = cpus[c].key /\ cpus'[c].opens = cpus[c].opens
                   /\ cpus[c].age \in Nat /\ cpus'[c].age = cpus[c].age + 1
  <2>1. cpus[c] \in CpuType
    BY DEF CtInv, CtTypes
  <2>2. CASE cpus[c].step = "idle"
    BY <2>2, Resting DEF Tick
  <2>3. CASE cpus[c].step # "idle"
    <3>1. cpus'[c] = [cpus[c] EXCEPT !.age = @ + 1] /\ cpus[c].age < MaxLag
      BY <2>3 DEF Tick
    <3> QED
      BY <2>1, <3>1, Numbers DEF CpuType
  <2> QED
    BY <2>2, <2>3
<1>3. /\ pass' \in PassType
      /\ \/ pass'.expired = {}
         \/ pass'.expired = pass.expired /\ pass.age \in Nat /\ pass.age < MaxLag /\ pass'.age = pass.age + 1
  <2>1. pass \in PassType
    BY DEF CtInv, CtTypes
  <2>2. CASE pass.step = "sleeping"
    BY <2>2, Resting DEF Tick
  <2>3. CASE pass.step # "sleeping"
    BY <2>1, <2>3, Numbers DEF Tick, PassType
  <2> QED
    BY <2>2, <2>3
<1>4. \A f \in TcpFlows : heard'[f] = Older(heard[f]) /\ heard[f] \in Ages
  BY DEF Tick, CtInv, CtTypes
<1>5. CtTypes'
  <2>1. ct' \in [Keys -> Ages \union {None}]
    BY <1>0, <1>1
  <2>2. cpus' \in [Cpus -> CpuType]
    BY <1>2 DEF Tick
  <2>3. heard' \in [TcpFlows -> Ages]
    BY <1>0, <1>4 DEF Tick
  <2> QED
    BY <1>3, <2>1, <2>2, <2>3 DEF CtTypes
<1>6. BusyHaveKeys' /\ AnswersWriteNothing'
  BY <1>2, Resting DEF CtInv, BusyHaveKeys, AnswersWriteNothing
<1>7. TcpEntryIsTheClients'
  BY <1>1, TcpKeys DEF CtInv, TcpEntryIsTheClients
<1>8. ASSUME NEW f \in TcpFlows, ct'[<<f, "fwd">>] # None
      PROVE  /\ ct[<<f, "fwd">>] # None /\ ct[<<f, "fwd">>] \in Ages
             /\ ct'[<<f, "fwd">>] = Older(ct[<<f, "fwd">>])
  BY <1>1, <1>8, TcpKeys
<1>9. LastSeenIsRecent'
  <2> SUFFICES ASSUME NEW f \in TcpFlows, ct'[<<f, "fwd">>] # None
               PROVE  ct'[<<f, "fwd">>] <= heard'[f] + 2 * MaxLag
    BY DEF LastSeenIsRecent
  <2>1. ct[<<f, "fwd">>] <= heard[f] + 2 * MaxLag
    BY <1>8 DEF CtInv, LastSeenIsRecent
  <2>2. \A m, n \in Ages : m <= n + 2 * MaxLag => Older(m) <= Older(n) + 2 * MaxLag
    BY Numbers DEF Older, Ages
  <2> QED
    BY <1>4, <1>8, <2>1, <2>2
<1>10. WrittenSince'
  <2> SUFFICES ASSUME NEW c \in Cpus, NEW f \in TcpFlows, cpus'[c].step = "reverse",
                      cpus'[c].key = <<f, "fwd">>, ct'[<<f, "fwd">>] # None
               PROVE  ct'[<<f, "fwd">>] <= MaxLag + cpus'[c].age
    BY DEF WrittenSince
  <2>1. cpus'[c] # Idle
    BY Resting
  <2>2. ct[<<f, "fwd">>] <= MaxLag + cpus[c].age
    BY <1>2, <1>8, <2>1 DEF CtInv, WrittenSince
  <2> QED
    BY <1>0, <1>2, <1>8, <2>1, <2>2, Numbers DEF Ages
<1>11. ExpiredOrTouched'
  <2> SUFFICES ASSUME NEW k \in pass'.expired, ct'[k] # None
               PROVE  k \in touched' \/ ct'[k] > pass'.age + Timeout(k)
    BY DEF ExpiredOrTouched
  <2>1. k \in pass.expired /\ k \in Keys /\ touched' = touched
    BY <1>3 DEF Tick, PassType
  <2>2. ct'[k] = Older(ct[k]) /\ ct[k] \in Ages /\ ct[k] # None
    BY <1>1, <2>1
  <2>3. k \in touched \/ ct[k] > pass.age + Timeout(k)
    BY <2>1, <2>2 DEF CtInv, ExpiredOrTouched
  <2> QED
    BY <1>3, <2>1, <2>2, <2>3, Numbers DEF Older, Ages
<1> QED
  BY <1>5, <1>6, <1>7, <1>9, <1>10, <1>11 DEF CtInv

LEMMA StepCt == CtInv /\ [Next]_vars => CtInv'
<1> SUFFICES ASSUME CtInv, [Next]_vars PROVE CtInv'
  OBVIOUS
<1>1. CASE UNCHANGED vars
  BY <1>1, PassSteps DEF vars, CtInv, CtTypes, ExpiredOrTouched
<1>2. CASE \E c \in Cpus : Receive(c) \/ Handle(c)
  BY <1>2, ReceiveStep, FindOwnStep, FindReverseStep, WriteStep DEF Handle
<1>3. CASE Cleanup
  BY <1>3, WalkStep, RestStep, RemoveStep DEF Cleanup
<1> QED
  BY <1>1, <1>2, <1>3, TickStep DEF Next

LEMMA CtInvariant == Spec => []CtInv
<1>1. Init => CtInv
  BY InitCt
<1>2. CtInv /\ [Next]_vars => CtInv'
  BY StepCt
<1> QED
  BY <1>1, <1>2, PTL DEF Spec

(* However many CPUs handle the packets of a connection, and whatever the  *)
(* task removes meanwhile, it has no entry the other way round             *)
(* (ipv4.rs:57-84).                                                        *)
THEOREM OneEntryPerConnection == Spec => []TcpEntryIsTheClients
<1>1. CtInv => TcpEntryIsTheClients
  BY DEF CtInv
<1> QED
  BY <1>1, CtInvariant, PTL

(* A program that was overtaken puts the time of an entry back, but by no  *)
(* more than the time of two programs (ipv4.rs:44-84).                     *)
THEOREM TimesAreRecent == Spec => []LastSeenIsRecent
<1>1. CtInv => LastSeenIsRecent
  BY DEF CtInv
<1> QED
  BY <1>1, CtInvariant, PTL

(* The task removes what was silent for its timeout when the pass began,   *)
(* or what was written after the pass read it (conntrack.rs:36-66).        *)
THEOREM OnlySilentEntriesGo == Spec => CleanupSparesTheLiving
<1>1. ASSUME CtInv, NEW k \in Keys, RemoveExpired(k)
      PROVE  k \in touched \/ ct[k] - pass.age > Timeout(k)
  <2>1. k \in pass.expired /\ ct[k] # None
    BY <1>1 DEF RemoveExpired, Tracked
  <2>2. ct[k] \in Nat /\ pass.age \in Nat
    BY <1>1, <2>1, Numbers DEF CtInv, CtTypes, PassType, Ages
  <2>3. k \in touched \/ ct[k] > pass.age + Timeout(k)
    BY <1>1, <2>1 DEF CtInv, ExpiredOrTouched
  <2> QED
    BY <2>2, <2>3, Numbers
<1>2. ASSUME CtInv, [Next]_vars
      PROVE  [\A k \in Keys : RemoveExpired(k) => k \in touched \/ ct[k] - pass.age > Timeout(k)]_vars
  BY <1>1, <1>2
<1> QED
  BY <1>2, CtInvariant, PTL DEF Spec, CleanupSparesTheLiving
=============================================================================
