SPECIFICATION FairSpec
CONSTANTS
    g1 = g1
    g2 = g2
    Graders = {g1, g2}
    NFiles = 2
    Parts = {p1, p2}
    Whole = Whole
    NoReport = NoReport
    Truncated = Truncated
    NoPackage = NoPackage
    Reverts = FALSE
    Limits <- MCLimits
INVARIANTS
    ReportIsAboutItsDigest
    PackageCarriesItsGrade
    GradesApart
PROPERTY GradingEnds
