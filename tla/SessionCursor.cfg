SPECIFICATION SessionSpec
CONSTANT Setups <- MCSetups
INVARIANT SelectionExists
