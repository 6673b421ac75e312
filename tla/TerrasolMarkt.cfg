SPECIFICATION MCSpec
CONSTANTS
    NUTZER = {anna, bob}
    DEFAULT = DEFAULT
    U64 = 4
    SPERRE = 1
    BESTAND = 1
    BETRAEGE = {1}
    PREISE = {0, 1}
    SCHWELLEN <- MCNullSchwellen
    MAX_ZEIT = 0
    MAX_IMPACTS = 2
VIEW MCSicht
SYMMETRY MCSymmetrie
INVARIANTS
    ImpactKette
    AngebotEcht
PROPERTIES
    ImpactUnveraenderlich
    VerkauftBleibt
    NurBefugte
