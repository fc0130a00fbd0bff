SPECIFICATION Spec
INVARIANTS ConvertedUnderstood
