SPECIFICATION Spec
CONSTANT Inputs <- EncodedInputs
INVARIANTS TypeOK OnlyVuiAdded OnlyVuiAppended EmulationSafe HandledIsPatched
PROPERTY SelfCheckPasses
