SPECIFICATION Spec
CONSTANTS
    g1 = g1
    g2 = g2
    Graders = {g1, g2}
    NFiles = 2
    Parts = {p1}
    Whole = Whole
    NoReport = NoReport
    Truncated = Truncated
    NoPackage = NoPackage
    Reverts = TRUE
    Limits <- MCSubmitOnly
INVARIANT PackageCarriesItsGrade
