SPECIFICATION Spec
CONSTANT Depth = 4
INVARIANT NoUnaskedPowerOff
