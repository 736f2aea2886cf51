CONSTANTS
  k1 = k1
  k2 = k2
  k3 = k3
  Components <- MCComponents
  Enabled <- MCEnabled
  Configured <- MCConfigured
SPECIFICATION Spec
INVARIANT StartedIsComplete
