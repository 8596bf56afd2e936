SPECIFICATION Spec
CONSTANT NumOutputs = 3
PROPERTY StartDisablesGlobal
