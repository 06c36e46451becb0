--------------------------- MODULE MCStatusMessage --------------------------
EXTENDS StatusMessage, TLC
MCHeaderValues ==
    {Plain("2"), Plain("3"), Encoded("2"), Plain("6"), Plain("x"), Encoded("uuid"),
     Ambiguous("abcd"), Empty}
=============================================================================
