CONSTANTS
    MaxFrames = 1
    MaxToggles = 1
    MaxMail = 0
SPECIFICATION Spec
PROPERTIES NoSendAfterFault
