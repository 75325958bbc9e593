SPECIFICATION FairSpec
\* An agent that serves may have nothing left to do.
CHECK_DEADLOCK FALSE
CONSTANTS
  cordon = cordon
  notReady = notReady
  flannel = flannel
  cilium = cilium
  None = None
  Extensions <- MCConf
  Plugins <- MCOnePlugin
  Taints <- MCTaints
  CiliumTaint = notReady
  MaxAttempts = 3
  MaxChanges = 2
  MaxFailures = 0
INVARIANT KeepsExistingConfig
