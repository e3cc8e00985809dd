CONSTANTS
  Worker = {w1, w2}
  MaxToken = 2
  Drivers <- Driver
  Rows = {r1, r2}
  MaxTx = 4
SPECIFICATION WorkSpec
INVARIANT InitializerGuardsStatements
