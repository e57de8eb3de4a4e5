---------------------------- MODULE PanelNodes ----------------------------
(***************************************************************************)
(* What the panels of the page show: the list's rows are bags, the nodes   *)
(* of the tree are bags and folders (the field bag of BagTreeNode).        *)
(***************************************************************************)

CONSTANTS Bags, Folders

ASSUME NodeAssumption == Bags \cap Folders = {}

Nodes == Bags \cup Folders
=============================================================================
