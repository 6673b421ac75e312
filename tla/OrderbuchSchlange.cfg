SPECIFICATION BSpec
CONSTANTS
    TICKS = 1
    U64 = 4
    MAX_ORDERS = 5
    MENGEN = {1, 3}
INVARIANTS
    TypeOK
    IInv
    SummenStimmen
    Bilanz
PROPERTIES
    PreisZeitVorrang
    NieWiederbelebt
