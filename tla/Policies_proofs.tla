--------------------------- MODULE Policies_proofs ---------------------------
(***************************************************************************)
(* That the cache of the policy map is the map, for any keys and values;   *)
(* and that selectors only narrow and peers only widen, for any labels,    *)
(* requirements and identities and any number of rules and peers.          *)
(***************************************************************************)
EXTENDS PolicyMap, PolicySelectors, TLAPS

LEMMA EmptyIsTable == Empty \in Tables
  BY DEF Empty, Tables

LEMMA FailuresBounded ==
  ASSUME mapFailures \in 0 .. MaxMapFailures, Fails PROVE mapFailures' \in 0 .. MaxMapFailures
  BY MapBoundsAreNumbers DEF Fails

LEMMA InitPolicy == MapInit => PolicyInv
<1> SUFFICES ASSUME MapInit PROVE PolicyInv
  OBVIOUS
<1>1. policyMap \in Tables /\ cache \in Tables
  BY EmptyIsTable DEF MapInit
<1>2. mapFailures \in 0 .. MaxMapFailures
  BY MapBoundsAreNumbers DEF MapInit
<1> QED
  BY <1>1, <1>2 DEF MapInit, PolicyInv, MapTypeOK, CacheIsMap

LEMMA StepPolicy == PolicyInv /\ [MapNext]_mapVars => PolicyInv'
<1> SUFFICES ASSUME PolicyInv, [MapNext]_mapVars PROVE PolicyInv'
  OBVIOUS
<1> USE DEF PolicyInv, MapTypeOK, CacheIsMap
<1>1. CASE BuildCache
  BY <1>1 DEF BuildCache
<1>2. CASE Die
  <2>1. mapFailures' \in 0 .. MaxMapFailures
    BY <1>2, FailuresBounded DEF Die
  <2>2. policyMap' \in Tables /\ cache' \in Tables
    BY <1>2, EmptyIsTable DEF Die
  <2> QED
    BY <1>2, <2>1, <2>2 DEF Die
<1>3. CASE CallFails
  <2>1. mapFailures' \in 0 .. MaxMapFailures
    BY <1>3, FailuresBounded DEF CallFails
  <2> QED
    BY <1>3, <2>1 DEF CallFails
<1>4. ASSUME NEW k \in PolicyKeys, Delete(k) PROVE PolicyInv'
  BY <1>4 DEF Delete, Tables
<1>5. ASSUME NEW k \in PolicyKeys, NEW v \in PolicyValues, Update(k, v) PROVE PolicyInv'
  BY <1>5 DEF Update, Tables
<1>6. CASE UNCHANGED mapVars
  BY <1>6 DEF mapVars
<1> QED
  BY <1>1, <1>2, <1>3, <1>4, <1>5, <1>6 DEF MapNext

LEMMA PolicyInvariant == MapSpec => []PolicyInv
<1>1. MapInit => PolicyInv
  BY InitPolicy
<1>2. PolicyInv /\ [MapNext]_mapVars => PolicyInv'
  BY StepPolicy
<1> QED
  BY <1>1, <1>2, PTL DEF MapSpec

(* The type invariant of the policy map (state.rs).                        *)
THEOREM PolicyTypeCorrect == MapSpec => []MapTypeOK
<1>1. PolicyInv => MapTypeOK
  BY DEF PolicyInv
<1> QED
  BY <1>1, PolicyInvariant, PTL

(* Whatever fails and however often the agent dies, a running agent's      *)
(* cache is the pinned map (state.rs:116-152).                             *)
THEOREM CacheAlwaysIsMap == MapSpec => []CacheIsMap
<1>1. PolicyInv => CacheIsMap
  BY DEF PolicyInv
<1> QED
  BY <1>1, PolicyInvariant, PTL

-----------------------------------------------------------------------------
LEMMA AbsentIsNoSelector == \A s \in Selectors : s # Absent
  BY AbsentIsNothing

LEMMA MoreRequirements ==
  ASSUME NEW s, NEW r, NEW labels, LabelSelectorMatches(s \union {r}, labels)
  PROVE  LabelSelectorMatches(s, labels)
  BY DEF LabelSelectorMatches

(* The four ways to tighten a peer.                                        *)
LEMMA TighterIs ==
  ASSUME NEW peer \in Peers, NEW new \in Tighter(peer)
  PROVE  \E r \in Requirements :
           \/ peer.ns # Absent /\ new = [peer EXCEPT !.ns = @ \union {r}]
           \/ peer.pod # Absent /\ new = [peer EXCEPT !.pod = @ \union {r}]
           \/ peer.ns = Absent /\ peer.pod # Absent /\ new = [peer EXCEPT !.ns = {r}]
           \/ peer.pod = Absent /\ peer.ns # Absent /\ new = [peer EXCEPT !.pod = {r}]
  BY DEF Tighter

LEMMA TighterIsPeer ==
  ASSUME NEW peer \in Peers, NEW new \in Tighter(peer)
  PROVE  new \in Peers
<1>1. PICK r \in Requirements :
        \/ peer.ns # Absent /\ new = [peer EXCEPT !.ns = @ \union {r}]
        \/ peer.pod # Absent /\ new = [peer EXCEPT !.pod = @ \union {r}]
        \/ peer.ns = Absent /\ peer.pod # Absent /\ new = [peer EXCEPT !.ns = {r}]
        \/ peer.pod = Absent /\ peer.ns # Absent /\ new = [peer EXCEPT !.pod = {r}]
  BY TighterIs
<1>2. {r} \in Selectors
  BY DEF Selectors
<1>3. /\ peer.ns # Absent => peer.ns \union {r} \in Selectors
      /\ peer.pod # Absent => peer.pod \union {r} \in Selectors
  BY DEF Peers, Selectors
<1> QED
  BY <1>1, <1>2, <1>3 DEF Peers

LEMMA TighterNarrows ==
  ASSUME NEW peer \in Peers, NEW new \in Tighter(peer), NEW i, PeerSelectsIdentity(new, i)
  PROVE  PeerSelectsIdentity(peer, i)
<1>1. PICK r \in Requirements :
        \/ peer.ns # Absent /\ new = [peer EXCEPT !.ns = @ \union {r}]
        \/ peer.pod # Absent /\ new = [peer EXCEPT !.pod = @ \union {r}]
        \/ peer.ns = Absent /\ peer.pod # Absent /\ new = [peer EXCEPT !.ns = {r}]
        \/ peer.pod = Absent /\ peer.ns # Absent /\ new = [peer EXCEPT !.pod = {r}]
  BY TighterIs
<1>2. CASE peer.ns # Absent /\ new = [peer EXCEPT !.ns = @ \union {r}]
  <2>1. new.ns = peer.ns \union {r} /\ new.pod = peer.pod
    BY <1>2 DEF Peers
  <2>2. new.ns # Absent
    BY <1>2, <2>1, AbsentIsNoSelector DEF Peers, Selectors
  <2> QED
    BY <1>2, <2>1, <2>2, MoreRequirements DEF PeerSelectsIdentity
<1>3. CASE peer.pod # Absent /\ new = [peer EXCEPT !.pod = @ \union {r}]
  <2>1. new.pod = peer.pod \union {r} /\ new.ns = peer.ns
    BY <1>3 DEF Peers
  <2>2. new.pod # Absent
    BY <1>3, <2>1, AbsentIsNoSelector DEF Peers, Selectors
  <2> QED
    BY <1>3, <2>1, <2>2, MoreRequirements DEF PeerSelectsIdentity
<1>4. CASE peer.ns = Absent /\ peer.pod # Absent /\ new = [peer EXCEPT !.ns = {r}]
  <2>1. new.pod = peer.pod
    BY <1>4 DEF Peers
  <2> QED
    BY <1>4, <2>1 DEF PeerSelectsIdentity
<1>5. CASE peer.pod = Absent /\ peer.ns # Absent /\ new = [peer EXCEPT !.pod = {r}]
  <2>1. new.ns = peer.ns
    BY <1>5 DEF Peers
  <2> QED
    BY <1>5, <2>1 DEF PeerSelectsIdentity
<1> QED
  BY <1>1, <1>2, <1>3, <1>4, <1>5

LEMMA TighterRuleNarrows ==
  ASSUME NEW rule \in SUBSET Peers, NEW peer \in rule, NEW new \in Tighter(peer), NEW i,
         PeersSelectIdentity((rule \ {peer}) \union {new}, i)
  PROVE  PeersSelectIdentity(rule, i)
<1>1. PICK q \in (rule \ {peer}) \union {new} : PeerSelectsIdentity(q, i)
  BY DEF PeersSelectIdentity
<1>2. \E q2 \in rule : PeerSelectsIdentity(q2, i)
  BY <1>1, TighterNarrows
<1> QED
  BY <1>2 DEF PeersSelectIdentity

-----------------------------------------------------------------------------
LEMMA RulesAreSets ==
  ASSUME policy \in Policies, NEW dir \in Directions
  PROVE  policy.rules[dir] \subseteq SUBSET Peers
  BY DEF Policies

LEMMA InitType == EditInit => PolicyOK
<1> SUFFICES ASSUME EditInit PROVE PolicyOK
  OBVIOUS
<1>1. {} \in Selectors /\ {"Ingress"} \in SUBSET Types /\ {"egress"} \in SUBSET Types
  BY DEF Selectors, Types
<1>2. policy.rules \in [Directions -> {Absent} \union SUBSET SUBSET Peers]
  BY DEF EditInit
<1>3. policy \in Policies
  BY <1>1, <1>2 DEF EditInit, Policies
<1> QED
  BY <1>3, EditsAreBounded DEF EditInit, PolicyOK

LEMMA EditType ==
  ASSUME PolicyOK, NEW p \in Policies, Edit(p) PROVE PolicyOK'
  BY EditsAreBounded DEF PolicyOK, Edit

LEMMA SetPeersType ==
  ASSUME PolicyOK, NEW dir \in Directions, NEW rule \in policy.rules[dir], NEW peers \in SUBSET Peers,
         SetPeers(dir, rule, peers)
  PROVE  PolicyOK'
<1> DEFINE new == (policy.rules[dir] \ {rule}) \union {peers}
           p   == [policy EXCEPT !.rules[dir] = new]
<1>1. policy \in Policies
  BY DEF PolicyOK
<1>2. policy.rules[dir] \in SUBSET SUBSET Peers
  BY <1>1 DEF Policies
<1>3. new \in SUBSET SUBSET Peers
  BY <1>2
<1> HIDE DEF new
<1>4. p \in Policies
  BY <1>1, <1>3 DEF Policies
<1>5. Edit(p)
  BY DEF SetPeers, new
<1> HIDE DEF p
<1> QED
  BY <1>4, <1>5, EditType

LEMMA StepType == PolicyOK /\ [EditNext]_policyVars => PolicyOK'
<1> SUFFICES ASSUME PolicyOK, [EditNext]_policyVars PROVE PolicyOK'
  OBVIOUS
<1>0. policy \in Policies
  BY DEF PolicyOK
<1>1. CASE TightenSelector
  <2>1. PICK r \in Requirements : Edit([policy EXCEPT !.selector = policy.selector \union {r}])
    BY <1>1 DEF TightenSelector, SetSelector
  <2>2. policy.selector \union {r} \in Selectors
    BY <1>0, <1>1 DEF TightenSelector, Policies, Selectors
  <2>3. [policy EXCEPT !.selector = policy.selector \union {r}] \in Policies
    BY <1>0, <2>2 DEF Policies
  <2> QED
    BY <2>1, <2>3, EditType
<1>2. CASE AddSelector
  <2>1. {} \in Selectors
    BY DEF Selectors
  <2>2. [policy EXCEPT !.selector = {}] \in Policies
    BY <1>0, <2>1 DEF Policies
  <2> QED
    BY <1>2, <2>2, EditType DEF AddSelector, SetSelector
<1>3. CASE SetTypes
  <2>1. PICK t \in {Absent} \union SUBSET Types : Edit([policy EXCEPT !.types = t])
    BY <1>3 DEF SetTypes
  <2>2. [policy EXCEPT !.types = t] \in Policies
    BY <1>0 DEF Policies
  <2> QED
    BY <2>1, <2>2, EditType
<1>4. ASSUME NEW dir \in Directions, AddRule(dir) PROVE PolicyOK'
  <2>1. PICK new \in {{}, {{}}} :
          Edit([policy EXCEPT !.given = @ \union {dir}, !.rules[dir] = @ \union new])
    BY <1>4 DEF AddRule
  <2>2. policy.rules[dir] \union new \in SUBSET SUBSET Peers
    BY <1>0, RulesAreSets
  <2>3. [policy EXCEPT !.given = @ \union {dir}, !.rules[dir] = @ \union new] \in Policies
    BY <1>0, <2>2 DEF Policies
  <2> QED
    BY <2>1, <2>3, EditType
<1>5. ASSUME NEW dir \in Directions, NEW rule \in policy.rules[dir], AddPeer(dir, rule) PROVE PolicyOK'
  <2>1. {NoPeer, [NoPeer EXCEPT !.ns = {}], [NoPeer EXCEPT !.pod = {}], [NoPeer EXCEPT !.ipBlock = TRUE]} \subseteq Peers
    <3>1. {} \in Selectors
      BY DEF Selectors
    <3>2. /\ NoPeer \in Peers
          /\ [NoPeer EXCEPT !.ns = {}] \in Peers
          /\ [NoPeer EXCEPT !.pod = {}] \in Peers
          /\ [NoPeer EXCEPT !.ipBlock = TRUE] \in Peers
      BY <3>1 DEF NoPeer, Peers
    <3> QED
      BY <3>2
  <2>2. PICK peer \in Peers : SetPeers(dir, rule, rule \union {peer})
    BY <1>5, <2>1 DEF AddPeer
  <2>3. rule \union {peer} \in SUBSET Peers
    BY <1>0, RulesAreSets
  <2> QED
    BY <2>2, <2>3, SetPeersType
<1>6. ASSUME NEW dir \in Directions, NEW rule \in policy.rules[dir], TightenPeer(dir, rule) PROVE PolicyOK'
  <2>0. PICK peer \in rule : \E new \in Tighter(peer) : SetPeers(dir, rule, (rule \ {peer}) \union {new})
    BY <1>6 DEF TightenPeer
  <2>1. PICK new \in Tighter(peer) : SetPeers(dir, rule, (rule \ {peer}) \union {new})
    BY <2>0
  <2>2. rule \in SUBSET Peers
    BY <1>0, RulesAreSets
  <2>3. (rule \ {peer}) \union {new} \in SUBSET Peers
    BY <2>2, TighterIsPeer
  <2> QED
    BY <2>1, <2>3, SetPeersType
<1>7. CASE UNCHANGED policyVars
  BY <1>7 DEF policyVars, PolicyOK
<1> QED
  BY <1>1, <1>2, <1>3, <1>4, <1>5, <1>6, <1>7 DEF EditNext

LEMMA TypeCorrect == EditSpec => []PolicyOK
<1>1. EditInit => PolicyOK
  BY InitType
<1>2. PolicyOK /\ [EditNext]_policyVars => PolicyOK'
  BY StepType
<1> QED
  BY <1>1, <1>2, PTL DEF EditSpec

-----------------------------------------------------------------------------
LEMMA PeeredOnly ==
  ASSUME NEW p, NEW d, NEW i
  PROVE  i \in Peered(p, d) <=>
           /\ i \in Identities /\ PolicyAffectsType(p, d)
           /\ \E rule \in p.rules[d] : PeersSelectIdentity(rule, i)
  BY DEF Peered, RulesSelectIdentity

(* The rules after an edit of one of them.                                 *)
LEMMA SetPeersPeered ==
  ASSUME PolicyOK, NEW dir \in Directions, NEW rule \in policy.rules[dir], NEW peers,
         SetPeers(dir, rule, peers), NEW d \in Directions, NEW i
  PROVE  /\ Selected(policy') = Selected(policy)
         /\ i \in Peered(policy', d) <=>
              /\ i \in Identities /\ PolicyAffectsType(policy, d)
              /\ \/ d = dir /\ PeersSelectIdentity(peers, i)
                 \/ \E r \in policy.rules[d] \ (IF d = dir THEN {rule} ELSE {}) : PeersSelectIdentity(r, i)
<1>1. policy' = [policy EXCEPT !.rules[dir] = (policy.rules[dir] \ {rule}) \union {peers}]
  BY DEF SetPeers, Edit
<1>2. /\ policy'.rules[d] = IF d = dir THEN (policy.rules[dir] \ {rule}) \union {peers} ELSE policy.rules[d]
      /\ policy'.namespace = policy.namespace /\ policy'.selector = policy.selector
      /\ policy'.types = policy.types /\ policy'.given = policy.given
  BY <1>1 DEF PolicyOK, Policies
<1>3. PolicyAffectsType(policy', d) = PolicyAffectsType(policy, d)
  BY <1>2 DEF PolicyAffectsType
<1>4. Selected(policy') = Selected(policy)
  BY <1>2 DEF Selected, PolicySelectsIdentity
<1>5. i \in Peered(policy', d) <=>
        /\ i \in Identities /\ PolicyAffectsType(policy, d)
        /\ \E r \in policy'.rules[d] : PeersSelectIdentity(r, i)
  BY <1>3, PeeredOnly
<1> QED
  BY <1>2, <1>4, <1>5

LEMMA TighterPeerNarrows ==
  ASSUME PolicyOK, NEW dir \in Directions, NEW rule \in policy.rules[dir], TightenPeer(dir, rule)
  PROVE  /\ Selected(policy') = Selected(policy)
         /\ \A d \in Directions : Peered(policy', d) \subseteq Peered(policy, d)
<1>1. PICK peer \in rule : \E new \in Tighter(peer) : SetPeers(dir, rule, (rule \ {peer}) \union {new})
  BY DEF TightenPeer
<1>2. PICK new \in Tighter(peer) : SetPeers(dir, rule, (rule \ {peer}) \union {new})
  BY <1>1
<1>3. rule \in SUBSET Peers
  BY RulesAreSets DEF PolicyOK
<1>4. ASSUME NEW d \in Directions, NEW i \in Peered(policy', d) PROVE i \in Peered(policy, d)
  <2>1. /\ i \in Identities /\ PolicyAffectsType(policy, d)
        /\ \/ d = dir /\ PeersSelectIdentity((rule \ {peer}) \union {new}, i)
           \/ \E r \in policy.rules[d] \ (IF d = dir THEN {rule} ELSE {}) : PeersSelectIdentity(r, i)
    BY <1>2, <1>4, SetPeersPeered
  <2>2. PeersSelectIdentity((rule \ {peer}) \union {new}, i) => PeersSelectIdentity(rule, i)
    BY <1>3, TighterRuleNarrows
  <2>3. \E r \in policy.rules[d] : PeersSelectIdentity(r, i)
    BY <2>1, <2>2
  <2> QED
    BY <2>1, <2>3, PeeredOnly
<1>5. Selected(policy') = Selected(policy)
  BY <1>2, SetPeersPeered
<1> QED
  BY <1>4, <1>5

LEMMA TighterSelectorNarrows ==
  ASSUME PolicyOK, TightenSelector
  PROVE  /\ Selected(policy') \subseteq Selected(policy)
         /\ \A d \in Directions : Peered(policy', d) = Peered(policy, d)
<1>1. PICK r \in Requirements : policy' = [policy EXCEPT !.selector = policy.selector \union {r}]
  BY DEF TightenSelector, SetSelector, Edit
<1>2. /\ policy'.selector = policy.selector \union {r} /\ policy'.namespace = policy.namespace
      /\ policy'.rules = policy.rules /\ policy'.types = policy.types /\ policy'.given = policy.given
  BY <1>1 DEF PolicyOK, Policies
<1>3. policy.selector # Absent
  BY DEF TightenSelector
<1>4. \A i \in Identities : PolicySelectsIdentity(policy', i) => PolicySelectsIdentity(policy, i)
  BY <1>2, <1>3, MoreRequirements DEF PolicySelectsIdentity
<1>5. \A d \in Directions : Peered(policy', d) = Peered(policy, d)
  BY <1>2 DEF Peered, RulesSelectIdentity, PolicyAffectsType
<1> QED
  BY <1>4, <1>5 DEF Selected

(* Whatever the labels and requirements are: a requirement or selector     *)
(* more never lets an identity in (selector.rs:34-93).                     *)
THEOREM SelectorsOnlyNarrow == EditSpec => TighteningNarrows
<1>1. PolicyOK /\ [EditNext]_policyVars =>
        [TightenSelector \/ TightenSomePeer =>
           /\ Selected(policy') \subseteq Selected(policy)
           /\ \A dir \in Directions : Peered(policy', dir) \subseteq Peered(policy, dir)]_policyVars
  BY TighterPeerNarrows, TighterSelectorNarrows DEF TightenSomePeer
<1> QED
  BY <1>1, TypeCorrect, PTL DEF EditSpec, TighteningNarrows

-----------------------------------------------------------------------------
LEMMA GivenStep == PolicyOK /\ RulesAreGiven /\ [EditNext]_policyVars => RulesAreGiven'
<1> SUFFICES ASSUME PolicyOK, RulesAreGiven, [EditNext]_policyVars PROVE RulesAreGiven'
  OBVIOUS
<1>0. policy \in Policies
  BY DEF PolicyOK
<1>1. ASSUME policy'.rules = policy.rules, policy'.given = policy.given PROVE RulesAreGiven'
  BY <1>1 DEF RulesAreGiven
<1>2. CASE TightenSelector \/ AddSelector \/ SetTypes
  <2>1. policy'.rules = policy.rules /\ policy'.given = policy.given
    BY <1>0, <1>2 DEF TightenSelector, AddSelector, SetTypes, SetSelector, Edit, Policies
  <2> QED
    BY <1>1, <2>1
<1>3. ASSUME NEW dir \in Directions, AddRule(dir) PROVE RulesAreGiven'
  <2>1. PICK new \in {{}, {{}}} :
          policy' = [policy EXCEPT !.given = @ \union {dir}, !.rules[dir] = @ \union new]
    BY <1>3 DEF AddRule, Edit
  <2>2. /\ policy'.given = policy.given \union {dir}
        /\ \A d \in Directions : d # dir => policy'.rules[d] = policy.rules[d]
    BY <1>0, <2>1 DEF Policies
  <2> QED
    BY <2>2 DEF RulesAreGiven
<1>4. ASSUME NEW dir \in Directions, NEW rule \in policy.rules[dir], NEW peers, SetPeers(dir, rule, peers)
      PROVE RulesAreGiven'
  <2>1. /\ policy'.given = policy.given
        /\ \A d \in Directions : d # dir => policy'.rules[d] = policy.rules[d]
    BY <1>0, <1>4 DEF SetPeers, Edit, Policies
  <2> QED
    BY <2>1 DEF RulesAreGiven
<1>5. CASE UNCHANGED policyVars
  BY <1>5 DEF policyVars, RulesAreGiven
<1> QED
  BY <1>2, <1>3, <1>4, <1>5 DEF EditNext, AddPeer, TightenPeer

LEMMA GivenAlways == EditSpec => []RulesAreGiven
<1>1. EditInit => RulesAreGiven
  BY DEF EditInit, RulesAreGiven
<1>2. PolicyOK /\ RulesAreGiven /\ [EditNext]_policyVars => RulesAreGiven'
  BY GivenStep
<1> QED
  BY <1>1, <1>2, TypeCorrect, PTL DEF EditSpec

LEMMA AddRuleWidens ==
  ASSUME PolicyOK, RulesAreGiven, NEW dir \in Directions, AddRule(dir), NEW d \in Directions
  PROVE  Peered(policy, d) \subseteq Peered(policy', d)
<1>1. PICK new \in {{}, {{}}} :
        policy' = [policy EXCEPT !.given = @ \union {dir}, !.rules[dir] = @ \union new]
  BY DEF AddRule, Edit
<1>2. /\ policy'.given = policy.given \union {dir} /\ policy'.types = policy.types
      /\ policy.rules[d] \subseteq policy'.rules[d]
  BY <1>1 DEF PolicyOK, Policies
<1>3. ASSUME NEW i \in Peered(policy, d) PROVE i \in Peered(policy', d)
  <2>1. /\ i \in Identities /\ PolicyAffectsType(policy, d)
        /\ \E rule \in policy.rules[d] : PeersSelectIdentity(rule, i)
    BY <1>3, PeeredOnly
  <2>2. d \in policy.given
    BY <2>1 DEF RulesAreGiven
  <2>3. PolicyAffectsType(policy', d)
    BY <1>2, <2>1, <2>2 DEF PolicyAffectsType, Directions
  <2> QED
    BY <1>2, <2>1, <2>3, PeeredOnly
<1> QED
  BY <1>3

LEMMA AddPeerWidens ==
  ASSUME PolicyOK, NEW dir \in Directions, NEW rule \in policy.rules[dir], AddPeer(dir, rule),
         NEW d \in Directions
  PROVE  /\ rule # {} => Peered(policy, d) \subseteq Peered(policy', d)
         /\ rule = {} => Peered(policy', d) \subseteq Peered(policy, d)
<1>1. PICK peer : SetPeers(dir, rule, rule \union {peer})
  BY DEF AddPeer
<1>2. \A i : rule # {} /\ PeersSelectIdentity(rule, i) => PeersSelectIdentity(rule \union {peer}, i)
  BY DEF PeersSelectIdentity
<1>3. \A i : rule = {} => PeersSelectIdentity(rule, i)
  BY DEF PeersSelectIdentity
<1>4. \A i : i \in Peered(policy', d) <=>
        /\ i \in Identities /\ PolicyAffectsType(policy, d)
        /\ \/ d = dir /\ PeersSelectIdentity(rule \union {peer}, i)
           \/ \E r \in policy.rules[d] \ (IF d = dir THEN {rule} ELSE {}) : PeersSelectIdentity(r, i)
  BY <1>1, SetPeersPeered
<1>5. \A i : i \in Peered(policy, d) <=>
        /\ i \in Identities /\ PolicyAffectsType(policy, d)
        /\ \/ d = dir /\ PeersSelectIdentity(rule, i)
           \/ \E r \in policy.rules[d] \ (IF d = dir THEN {rule} ELSE {}) : PeersSelectIdentity(r, i)
  BY PeeredOnly
<1> QED
  BY <1>2, <1>3, <1>4, <1>5

(* A rule or a peer more never shuts an identity out, but for the first    *)
(* peer of a rule (selector.rs:61-69, 144-151).                            *)
THEOREM PeersOnlyWiden == EditSpec => AddingWidens
<1>1. PolicyOK /\ RulesAreGiven /\ [EditNext]_policyVars =>
        [\A dir \in Directions :
          /\ AddRule(dir) \/ (\E rule \in policy.rules[dir] \ {{}} : AddPeer(dir, rule)) =>
               \A d \in Directions : Peered(policy, d) \subseteq Peered(policy', d)
          /\ {} \in policy.rules[dir] /\ AddPeer(dir, {}) =>
               \A d \in Directions : Peered(policy', d) \subseteq Peered(policy, d)]_policyVars
  BY AddRuleWidens, AddPeerWidens
<1> QED
  BY <1>1, TypeCorrect, GivenAlways, PTL DEF EditSpec, AddingWidens
=============================================================================
