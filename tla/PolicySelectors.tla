-------------------------- MODULE PolicySelectors --------------------------
(***************************************************************************)
(* Which identities a NetworkPolicy is about, and which of its rules select *)
(* an identity as a peer (mesh-cni-policy-controller/src/selector.rs), as   *)
(* functions of the policy, which users edit.  Names are model values;      *)
(* ports of the rules are copied only, and left out.                        *)
(***************************************************************************)
EXTENDS Naturals

CONSTANTS
  Identities,     \* [namespace, podLabels, nsLabels]; labels are functions of Keys
  Keys, Values,
  Requirements,   \* [key, operator, values]: those of match expressions and match labels
  Namespaces,
  MaxEdits,       \* bound: edits of the policy
  Absent

Labels       == [Keys -> Values \union {Absent}]
Known        == {"In", "NotIn", "Exists", "DoesNotExist"}
Selectors    == SUBSET Requirements
Directions   == {"Ingress", "Egress"}
Types        == {"Ingress", "ingress", "Egress", "egress", "Other"}

ASSUME IdentitiesAreLabelled ==
  Identities \subseteq [namespace : Namespaces \union {Absent}, podLabels : Labels, nsLabels : Labels]
ASSUME SomeAreUnknown ==
  Requirements \subseteq [key : Keys, operator : Known \union {"other"}, values : SUBSET Values]
ASSUME AbsentIsNothing ==
  Absent \notin Values \union Namespaces /\ \A s \in Selectors \union SUBSET Types : s # Absent
ASSUME EditsAreBounded == MaxEdits \in Nat

VARIABLES
  policy,
  edits

policyVars == <<policy, edits>>

Peers == [ns : {Absent} \union Selectors, pod : {Absent} \union Selectors, ipBlock : BOOLEAN]
NoPeer == [ns |-> Absent, pod |-> Absent, ipBlock |-> FALSE]

Policies ==
  [namespace : Namespaces, selector : {Absent} \union Selectors, types : {Absent} \union SUBSET Types,
   given : SUBSET Directions,  \* lists of rules that there are, maybe with no rule
   rules : [Directions -> SUBSET SUBSET Peers]]

-----------------------------------------------------------------------------
(* label_selector_matches.  A requirement that kube (external) does not     *)
(* understand spoils the whole selector, which then matches nothing.        *)
Holds(r, labels) ==
  CASE r.operator = "In"           -> labels[r.key] \in r.values
    [] r.operator = "NotIn"        -> labels[r.key] \notin r.values
    [] r.operator = "Exists"       -> labels[r.key] # Absent
    [] r.operator = "DoesNotExist" -> labels[r.key] = Absent
    [] OTHER                       -> FALSE

(* Faulty: a selector that is not understood is taken to match.             *)
MatchesUnlessInvalid(selector, labels) ==
  (\A r \in selector : r.operator \in Known) => \A r \in selector : Holds(r, labels)

LabelSelectorMatches(selector, labels) ==
  /\ \A r \in selector : r.operator \in Known
  /\ \A r \in selector : Holds(r, labels)

(* policy_selects_identity: both have a namespace, and it is the same.      *)
PolicySelectsIdentity(p, i) ==
  /\ i.namespace # Absent /\ p.namespace = i.namespace
  /\ p.selector # Absent
  /\ LabelSelectorMatches(p.selector, i.podLabels)

(* peer_selects_identity: a block of addresses alone is no identity.        *)
PeerSelectsIdentity(peer, i) ==
  /\ peer.ns # Absent => LabelSelectorMatches(peer.ns, i.nsLabels)
  /\ peer.pod # Absent => LabelSelectorMatches(peer.pod, i.podLabels)
  /\ peer.pod # Absent \/ peer.ns # Absent

(* peers_select_identity: none at all is everybody.                         *)
EveryPeerSelects(peers, i) ==  \* Faulty: all of them have to.
  \A peer \in peers : PeerSelectsIdentity(peer, i)

PeersSelectIdentity(peers, i) ==
  peers = {} \/ \E peer \in peers : PeerSelectsIdentity(peer, i)

(* policy_affects_type: without types it depends on the rules there are.    *)
Parsed(t) == CASE t \in {"Ingress", "ingress"} -> "Ingress"
               [] t \in {"Egress", "egress"}   -> "Egress"
               [] OTHER                        -> Absent

PolicyAffectsType(p, dir) ==
  IF p.types # Absent THEN \E t \in p.types : Parsed(t) = dir
  ELSE IF dir = "Ingress" THEN "Ingress" \in p.given \/ "Egress" \notin p.given
  ELSE "Egress" \in p.given

(* ingress_rules_select_identity, egress_rules_select_identity.             *)
RulesSelectIdentity(p, dir, i) ==
  {rule \in p.rules[dir] : PolicyAffectsType(p, dir) /\ PeersSelectIdentity(rule, i)}

-----------------------------------------------------------------------------
EditInit ==
  /\ policy \in [namespace : Namespaces, selector : {Absent, {}}, types : {Absent, {"Ingress"}, {"egress"}},
                 given : {{}}, rules : {[dir \in Directions |-> {}]}]
  /\ edits = 0

(* Users (external): each edit changes one place of the policy.             *)
Edit(p) == edits < MaxEdits /\ edits' = edits + 1 /\ policy' = p

SetSelector(s) == Edit([policy EXCEPT !.selector = s])

TightenSelector ==
  /\ policy.selector # Absent
  /\ \E r \in Requirements \ policy.selector : SetSelector(policy.selector \union {r})

AddSelector == policy.selector = Absent /\ SetSelector({})  \* selects all

SetTypes == \E t \in ({Absent} \union SUBSET Types) \ {policy.types} : Edit([policy EXCEPT !.types = t])

AddRule(dir) ==
  \E new \in {{}, {{}}} :
    Edit([policy EXCEPT !.given = @ \union {dir}, !.rules[dir] = @ \union new])

SetPeers(dir, rule, peers) == Edit([policy EXCEPT !.rules[dir] = (@ \ {rule}) \union {peers}])

AddPeer(dir, rule) ==
  \E peer \in {NoPeer, [NoPeer EXCEPT !.ns = {}], [NoPeer EXCEPT !.pod = {}], [NoPeer EXCEPT !.ipBlock = TRUE]} \ rule :
    SetPeers(dir, rule, rule \union {peer})

(* Of a peer that has a selector: one more requirement, or the other one.   *)
Tighter(peer) ==
  {[peer EXCEPT !.ns = @ \union {r}] : r \in {q \in Requirements : peer.ns # Absent /\ q \notin peer.ns}}
  \union {[peer EXCEPT !.pod = @ \union {r}] : r \in {q \in Requirements : peer.pod # Absent /\ q \notin peer.pod}}
  \union {[peer EXCEPT !.ns = {r}] : r \in {q \in Requirements : peer.ns = Absent /\ peer.pod # Absent}}
  \union {[peer EXCEPT !.pod = {r}] : r \in {q \in Requirements : peer.pod = Absent /\ peer.ns # Absent}}

TightenPeer(dir, rule) ==
  \E peer \in rule : \E new \in Tighter(peer) :
    SetPeers(dir, rule, (rule \ {peer}) \union {new})

EditNext ==
  \/ TightenSelector \/ AddSelector \/ SetTypes
  \/ \E dir \in Directions :
       \/ AddRule(dir)
       \/ \E rule \in policy.rules[dir] : AddPeer(dir, rule) \/ TightenPeer(dir, rule)

EditSpec == EditInit /\ [][EditNext]_policyVars

-----------------------------------------------------------------------------
PolicyOK == policy \in Policies /\ edits \in 0 .. MaxEdits

RulesAreGiven == \A dir \in Directions : policy.rules[dir] # {} => dir \in policy.given

Selected(p)   == {i \in Identities : PolicySelectsIdentity(p, i)}
Peered(p, dir) == {i \in Identities : RulesSelectIdentity(p, dir, i) # {}}

(***************************************************************************)
(* To demand more of a selector never selects more, be it what kube does    *)
(* not understand: an identity that a policy or its rules did not select    *)
(* is not let in by one requirement more, nor by a second selector beside   *)
(* the first of a peer (selector.rs:34-93).                                 *)
(***************************************************************************)
TightenSomePeer == \E dir \in Directions : \E rule \in policy.rules[dir] : TightenPeer(dir, rule)

TighteningNarrows ==
  [][TightenSelector \/ TightenSomePeer =>
       /\ Selected(policy') \subseteq Selected(policy)
       /\ \A dir \in Directions : Peered(policy', dir) \subseteq Peered(policy, dir)]_policyVars

(***************************************************************************)
(* A rule more, or a peer more in a rule that has one, takes no identity    *)
(* from the rules of either direction, whatever it selects and although     *)
(* the types may depend on the rules; but the first peer of a rule adds     *)
(* none (selector.rs:61-69, 144-151).                                       *)
(***************************************************************************)
AddingWidens ==
  [][\A dir \in Directions :
       /\ AddRule(dir) \/ (\E rule \in policy.rules[dir] \ {{}} : AddPeer(dir, rule)) =>
            \A d \in Directions : Peered(policy, d) \subseteq Peered(policy', d)
       /\ {} \in policy.rules[dir] /\ AddPeer(dir, {}) =>
            \A d \in Directions : Peered(policy', d) \subseteq Peered(policy, d)]_policyVars
=============================================================================
