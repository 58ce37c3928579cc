SPECIFICATION CampaignSpec
CONSTANTS
  Hosts <- MCHosts
  Backends = 3
  CleanStep = 2
  Jobs = 2
  Attempts = 2
  MaxFaults = 2
  Plans <- MCPlans
  Steps = 1
  MaxScripts = 2
  MaxPreparations = 1
   
PROPERTIES DoneKept
