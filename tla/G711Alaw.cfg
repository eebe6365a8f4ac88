SPECIFICATION SpecCodec
CONSTANT Edges = 1
INVARIANT StandardALaw
CHECK_DEADLOCK FALSE
