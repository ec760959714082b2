SPECIFICATION Spec
CONSTANTS
    wool = wool
    hat = hat
    red = red
    handknitted = handknitted
    blank = blank
    Word = {wool, hat, red, handknitted, blank}
    LongWord = {handknitted}
    Blank = blank
    MaxTitle = 2
    MaxTags = 2
    MaxTokens = 2
INVARIANTS
    UsageIsBilled
    RefusedForNoLimit
    SentIsAcceptable
