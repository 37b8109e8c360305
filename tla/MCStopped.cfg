SPECIFICATION FairSpec
CONSTANTS
    site = site
    wiki = wiki
    mail = mail
    volume = volume
    batch = batch
    inbox = inbox
    folder = folder
    data = data
    Apps = {site, wiki, mail}
    Windows = {volume, batch, inbox}
    Uses <- MCUses
    Batches = {batch}
    Members <- MCMembers
    MaxChanges = 1
    MaxFailures = 2
    MaxStops = 2
INVARIANTS
    ChoiceStands
    CopiesAgree
    OwedStays
PROPERTIES
    StartedAgain
CHECK_DEADLOCK FALSE
