SPECIFICATION MCSpec
CONSTANTS
    NUTZER = {anna, bob}
    DEFAULT = DEFAULT
    U64 = 5
    SPERRE = 2
    BESTAND = 2
    BETRAEGE = {0, 1, 2}
    PREISE = {}
    SCHWELLEN <- MCSchwellen
    MAX_ZEIT = 2
    MAX_IMPACTS = 0
SYMMETRY MCSymmetrie
INVARIANTS
    TypeOK
    TresorGedeckt
    EinlagenSumme
    KeinUeberlauf
    FristGenau
PROPERTIES
    StufeZaehlt

