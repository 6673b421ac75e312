SPECIFICATION MCSpec
CONSTANTS
    TICKS = 2
    U64 = 4
    MAX_ORDERS = 3
    MENGEN = {0, 1, 2}
INVARIANTS
    NurZurechtAbgelehnt
    NichtGekreuzt
    BesteStimmt
PROPERTIES
    ImplementiertPreisZeit
