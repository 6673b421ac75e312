SPECIFICATION MCSpec
CONSTANTS
    TICKS = 4
    START_PREIS = 1
    N_ORDERS = 3
    ORDER_GROESSE = 2
    N_GESAET = 2
    SCHRITT_PROMILLE = 1003
    TAKT_SEKUNDEN = 1
    U32 = 8
    FREMDMENGEN = {1, 4}
    MAX_FREMDE = 1
VIEW MCSicht
PROPERTIES
    AusgefuehrteKommenWieder
