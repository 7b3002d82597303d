SPECIFICATION OtpSpec
CONSTANTS
    Apps = {app}
    Browsers = {browser}
    Owners = {{app}, {browser}}
    Flights = {f1, f2}
    NoDevice = NoDevice
    Cooldown = 1
    Lifetime = 1
    MaxFailedAttempts = 1
    MaxTime = 1
    MaxChallenges = 2
INVARIANTS
    OtpTypeOK
    OneSessionPerChallenge
    OneLiveChallenge
    
    CodeFieldCurrent
 
\* A bound reached (challenges, requests under way) ends a behaviour.
CHECK_DEADLOCK FALSE
