SPECIFICATION Spec
CONSTANTS
    Reports <- MCReports
    Bases <- MCBases
    Names <- MCNames
    Texts <- MCTexts
INVARIANTS
    TypeOK
    RenderingsAgree
    EscapedOnce
    SuccessIsWhole
    OneFileAtRisk
