SPECIFICATION FairSpec
CONSTANTS
    Size = 4
    MaxSent = 4
    Event = {e1}
    Blank = Blank
    Torn = Torn
PROPERTY EverySendNotifiesHost
