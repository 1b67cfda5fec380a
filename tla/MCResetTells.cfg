CONSTANT Layouts = {a}
SPECIFICATION Spec
INVARIANT ResetTells
