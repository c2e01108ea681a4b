-------------------------- MODULE MCCellRefinement --------------------------
EXTENDS CellRefinement, MCGraphs
=============================================================================
