SPECIFICATION MCSpec
CONSTANTS
    ANFRAGEN = {a, b}
    SERIALS = {s1, s2, s3}
    s1 = s1
    s2 = s2
    s3 = s3
    SUBJEKTE = {anna, bob}
    TONNEN = {4, 5}
    BESTAND <- MCBestand
    LESBAR = {s1}
    TOLERANZ = 1
    REQUIRE_RETIRED = TRUE
    MAX_STOERUNGEN = 0
    FAELSCHUNGEN = {}
    MAX_EINTRAEGE = 0
    KEIN = KEIN
    KEINE_ZAHL = KEINE_ZAHL
    KAPUTT = KAPUTT
SYMMETRY MCSymmetrie
INVARIANT
    KeinEintragHeisstKeiner
