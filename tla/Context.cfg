SPECIFICATION Spec
CONSTANTS
    Screens = {c1, c2}
    Regions = {r1, r2}
    None = none
    Devices = {d1}
    Default = default
    Failing = {"params", "startup", "audio", "video", "service", "outputs", "encoders", "transition", "scene", "capture", "window"}
    Allowed = {"busy", "scale", "unplug"}
    MaxInits = 3
INVARIANTS ReadyIsComplete SceneFits  
CHECK_DEADLOCK FALSE
SYMMETRY Symmetry
