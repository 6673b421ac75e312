SPECIFICATION FaireSpec
CONSTANTS
    VERBINDUNGEN = {v1, v2}
    EINHEIT = 2
    STAPEL = 2
    IM_PUFFER = 1
    AUFTRAEGE = 7
    FENSTER = 4
    REISSBAR = {v1}
    HAUPT = haupt
CHECK_DEADLOCK FALSE
INVARIANTS
    TypeOK
    RahmenHalten
PROPERTIES
    StelltZu
    KetteEndet
