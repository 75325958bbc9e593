-------------------------- MODULE MCAgentStartup --------------------------
(* Files of other plugins of either kind, one or two of them, and taints:  *)
(* one by an administrator, one by Cilium.                                 *)
EXTENDS AgentStartup

CONSTANTS cordon, notReady, flannel, cilium

MCTwoConflists == <<"conflist", "other", "conflist">>
MCConf         == <<"conf">>
MCPlugins      == {flannel, cilium}
MCOnePlugin    == {flannel}
MCTaints       == {cordon, notReady}
=============================================================================
