SPECIFICATION MCSpec
CONSTANTS
    NUTZER = {anna, bob}
    DEFAULT = DEFAULT
    U64 = 4
    SPERRE = 1
    BESTAND = 1
    BETRAEGE = {1}
    PREISE = {}
    SCHWELLEN <- MCNullSchwellen
    MAX_ZEIT = 1
    MAX_IMPACTS = 0
INVARIANTS
    AuszahlungGelingt
