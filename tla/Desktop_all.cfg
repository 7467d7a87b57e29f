SPECIFICATION DesktopSpec
CONSTANTS
  Node = {a, b, h}
  Ours = {a, b}
  Ghost = {g}
  Reused = {h}
  Folders <- MCFolders
  Machines <- MCMachines
  NoNode = NoNode
INVARIANT LastOutStops
PROPERTY AppGoneNodesGone
CHECK_DEADLOCK FALSE
