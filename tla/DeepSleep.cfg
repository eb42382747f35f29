SPECIFICATION FairSpec
PROPERTIES HeldSmokeReported SleepsInTheEnd

