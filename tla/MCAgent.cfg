SPECIFICATION MCSpec
\* An agent that serves may have nothing left to do, and the bounds end the rest.
CHECK_DEADLOCK FALSE
CONSTANTS
  cordon = cordon
  notReady = notReady
  flannel = flannel
  cilium = cilium
  None = None
  Extensions <- MCTwoConflists
  Plugins <- MCPlugins
  Taints <- MCTaints
  CiliumTaint = notReady
  MaxAttempts = 3
  MaxChanges = 3
  MaxFailures = 2
  k1 = k1
  k2 = k2
  k3 = k3
  allow = allow
  deny = deny
  NoPolicy = NoPolicy
  PolicyKeys <- MCPolicyKeys
  PolicyValues <- MCPolicyValues
  MaxEntries = 2
  MaxMapFailures = 4
  app = app
  demo = demo
  api = api
  nsA = nsA
  nsB = nsB
  Absent = Absent
  Keys <- MCKeys
  Values <- MCValues
  Namespaces <- MCNamespaces
  Identities <- MCIdentities
  Requirements <- MCRequirements
  MaxEdits = 5
INVARIANTS MeshComesLastOnce CacheIsMap
PROPERTIES TaintGoesLast ReadyServes SignalEnds AgentGetsReady TighteningNarrows AddingWidens
