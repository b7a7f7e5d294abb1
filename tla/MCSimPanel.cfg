SPECIFICATION Spec
CONSTANTS
  tMnn = tMnn
  tmtb = tmtb
  tntn = tntn
  p1 = p1
  p2 = p2
  ic = ic
  Unwired = Unwired
  Buttons <- MCButtons
  Design <- MCDesign
  Wiring <- MCWiring
  Signals <- MCSignals
  Lamps <- MCLamps
  Indicators <- MCIndicators
  Bulb <- MCBulb
  Outputs <- MCOutputs
INVARIANTS
  InputsFollowButtons
  SpringsBack
  ButtonsShowState
  SignalsShowLamps
PROPERTIES
  BothClosedInPassing
