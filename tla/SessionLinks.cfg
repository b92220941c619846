SPECIFICATION SessionSpec
CONSTANT Setups <- MCSetups
INVARIANT DeletesAreExact
