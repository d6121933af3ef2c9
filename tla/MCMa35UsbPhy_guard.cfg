SPECIFICATION Spec
CONSTANT Hosts = {ehci0, ohci0}
SYMMETRY Symmetry
PROPERTY GadgetNotReset
